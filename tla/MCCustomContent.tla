-------------------------- MODULE MCCustomContent --------------------------
(* Model-checking instance of CustomContent: two accounts that send to and *)
(* receive from each other (and themselves), two apps of which one has an  *)
(* interpreter, every non-empty recipient list, three operations.          *)
EXTENDS CustomContent

CONSTANTS a1, a2

MCAccounts      == {a1, a2}
MCRecipientSets == SUBSET MCAccounts \ {{}}
=============================================================================
