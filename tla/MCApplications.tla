--------------------------- MODULE MCApplications ---------------------------
(* Model-checking instance of AccountsApplications: one genesis account   *)
(* with balance 2 and two names an account_create may produce; creation   *)
(* fee 1 with offered fees 1 and 2 (no excess and an excess); a promotion *)
(* pool of 1; two application names (a deleted application can be         *)
(* re-created under its name), two prices and three applications created *)
(* over a run.                                                             *)
EXTENDS AccountsApplications

CONSTANTS a1, a2, a3, n1, n2, pp1, pp2, none

MCAccountNames == {a1, a2, a3}
\* The names not in Genesis are interchangeable, and so are the prices.
MCSymmetry == Permutations({a2, a3}) \cup Permutations({pp1, pp2})
=============================================================================
