--------------------------- MODULE EscrowLifecycle ---------------------------
(***************************************************************************)
(* What an escrow promises, without approvals, deadlines or signers: SPHTX *)
(* locked by 'from' is either refunded to 'from' before the deal is        *)
(* ratified, or, once it is ratified (the agent being paid its fee at that *)
(* moment), paid out in parts to 'from' or 'to', possibly after a dispute. *)
(* A disputed deal stays disputed; a closed deal has no funds.             *)
(***************************************************************************)
EXTENDS Integers

CONSTANTS Accounts, EscrowIds, InitBalance

VARIABLES
    balance,    \* account -> SPHTX balance
    book        \* <<from, id>> -> the deal under that key

Keys   == Accounts \X EscrowIds
Phases == {"none", "proposed", "ratified", "disputed"}

\* The entry of a key that holds no deal.
Closed(k) == [phase |-> "none", to |-> k[1], agent |-> k[1], funds |-> 0, fee |-> 0]

Deals == [phase : Phases, to : Accounts, agent : Accounts, funds : Nat, fee : Nat]

Pay(b, a, n) == [b EXCEPT ![a] = @ + n]

Open(k, to, agent, amount, fee) ==
    /\ book[k].phase = "none"
    /\ amount > 0
    /\ balance[k[1]] >= amount + fee
    /\ balance' = Pay(balance, k[1], -(amount + fee))
    /\ book' = [book EXCEPT ![k] = [phase |-> "proposed", to |-> to, agent |-> agent,
                                    funds |-> amount, fee |-> fee]]

Cancel(k) ==
    /\ book[k].phase = "proposed"
    /\ balance' = Pay(balance, k[1], book[k].funds + book[k].fee)
    /\ book' = [book EXCEPT ![k] = Closed(k)]

Ratify(k) ==
    /\ book[k].phase = "proposed"
    /\ balance' = Pay(balance, book[k].agent, book[k].fee)
    /\ book' = [book EXCEPT ![k].phase = "ratified", ![k].fee = 0]

Dispute(k) ==
    /\ book[k].phase = "ratified"
    /\ book' = [book EXCEPT ![k].phase = "disputed"]
    /\ UNCHANGED balance

Payout(k, receiver, n) ==
    /\ book[k].phase \in {"ratified", "disputed"}
    /\ receiver \in {k[1], book[k].to}
    /\ n \in 1..book[k].funds
    /\ balance' = Pay(balance, receiver, n)
    /\ book' = [book EXCEPT ![k] = IF n = @.funds THEN Closed(k) ELSE [@ EXCEPT !.funds = @ - n]]

Next ==
    \E k \in Keys :
        \/ \E to, agent \in Accounts, amount, fee \in 0..balance[k[1]] :
              Open(k, to, agent, amount, fee)
        \/ Cancel(k)
        \/ Ratify(k)
        \/ Dispute(k)
        \/ \E r \in Accounts, n \in 1..book[k].funds : Payout(k, r, n)

Spec ==
    /\ balance = [a \in Accounts |-> InitBalance]
    /\ book = [k \in Keys |-> Closed(k)]
    /\ [][Next]_<<balance, book>>
=============================================================================
