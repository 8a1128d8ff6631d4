------------------------ MODULE AccountsApplications ------------------------
(***************************************************************************)
(* Accounts and applications together: account_create, sponsor_fees and   *)
(* transfer_from_promotion_pool (AccountCreation) grow the set of existing *)
(* accounts and move SPHTX; the application evaluators look authors up in  *)
(* those accounts.  Operations of both kinds interleave in any order, one  *)
(* at a time, as the chain applies them.                                   *)
(***************************************************************************)
EXTENDS AccountCreation

CONSTANTS Names, PriceParams, MaxApps

VARIABLES app, next_id, buying

app_vars == <<app, next_id, buying>>
vars == <<acc_vars, app_vars>>

App == INSTANCE Applications

Init == AccInit /\ App!Init

Next ==
    \/ AccNext /\ UNCHANGED app_vars
    \/ App!Next /\ UNCHANGED acc_vars

Spec == Init /\ [][Next]_vars

TypeOK == AccTypeOK /\ App!TypeOK

BuyingOfLiveApplication == App!BuyingOfLiveApplication

AuthorsExist == App!AuthorsExist
====
