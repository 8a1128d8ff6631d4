------------------------- MODULE MCAccountRecovery -------------------------
(* Model-checking instance of AccountRecovery: one tracked account a1 with *)
(* no recovery partner at genesis (the top witness a3 stands in), a2 as    *)
(* the partner it may name, two satisfiable owner authorities, and         *)
(* periods scaled down keeping their order (update limit < request         *)
(* expiration < recovery period) with enough blocks for a history entry   *)
(* to age out.                                                             *)
EXTENDS AccountRecovery

CONSTANTS a1, a2, a3, noAccount

MCAccounts     == {a1, a2, a3}
MCRecoverable  == {a1}
MCInitRecovery == [a \in MCRecoverable |-> noAccount]
=============================================================================
