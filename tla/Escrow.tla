------------------------------- MODULE Escrow -------------------------------
(***************************************************************************)
(* The escrow evaluators of src/libraries/chain/sophiatx_evaluator.cpp:    *)
(* escrow_transfer, escrow_approve, escrow_dispute and escrow_release,     *)
(* applied one at a time to the native (SPHTX) balances of the accounts    *)
(* and to the escrow_object index keyed by (from, escrow_id).  The head    *)
(* block time advances between operations.  A failing FC_ASSERT rejects    *)
(* the whole operation, so every assertion is a conjunct of the guard.     *)
(***************************************************************************)
EXTENDS Integers, FiniteSets, Functions, TLC

CONSTANTS
    Accounts,       \* account names (model values)
    Senders,        \* accounts that submit escrow_transfer
    EscrowIds,      \* escrow_id values a sender may choose
    Amounts,        \* sophiatx_amount values of escrow_transfer (all > 0)
    Fees,           \* escrow_fee values (in SPHTX)
    InitBalance,    \* starting SPHTX balance of every account
    MaxTime         \* bound on head_block_time

ASSUME Senders \subseteq Accounts
ASSUME Amounts \subseteq Nat \ {0} /\ Fees \subseteq Nat /\ MaxTime \in Nat

VARIABLES
    balance,        \* account -> SPHTX balance
    escrow,         \* <<from, escrow_id>> -> escrow_object, for live escrows
    now             \* _db.head_block_time()

vars == <<balance, escrow, now>>

Times == 0..MaxTime
Keys  == Accounts \X EscrowIds

EscrowObjects ==
    [from : Accounts, to : Accounts, agent : Accounts,
     ratification_deadline : Times, escrow_expiration : Times,
     sophiatx_balance : Nat, pending_fee : Nat,
     to_approved : BOOLEAN, agent_approved : BOOLEAN, disputed : BOOLEAN]

\* _db.adjust_balance( a, delta ) on the native asset
Credit(b, a, delta) == [b EXCEPT ![a] = @ + delta]

\* Total SPHTX held by live escrows, as balance and as pending fee.
Held(esc) == SumFunction([k \in DOMAIN esc |-> esc[k].sophiatx_balance + esc[k].pending_fee])

Init ==
    /\ balance = [a \in Accounts |-> InitBalance]
    /\ escrow = [k \in {} |-> CHOOSE e \in EscrowObjects : TRUE]
    /\ now = 0

\* Chain time moves on between blocks.  Every deadline is at most MaxTime,
\* so all later times compare alike and the clock saturates there.
Tick ==
    /\ now' = IF now < MaxTime THEN now + 1 ELSE now
    /\ UNCHANGED <<balance, escrow>>

(***************************************************************************)
(* escrow_transfer_operation::validate lives outside src/: the agent is a  *)
(* third party and the amount is positive (Amounts excludes 0).            *)
(***************************************************************************)
EscrowTransferValid(from, to, agent) == agent \notin {from, to}

\* Mutant: the sender's balance is not checked against amount plus fee.
EscrowTransfer_NoFundsCheck(from, to, agent, id, amount, fee, rd, exp) ==
    /\ EscrowTransferValid(from, to, agent)
    /\ <<from, id>> \notin DOMAIN escrow
    /\ rd > now
    /\ exp > now
    /\ balance' = Credit(balance, from, -(amount + fee))
    /\ escrow' = escrow @@ (<<from, id>> :>
            [from |-> from, to |-> to, agent |-> agent,
             ratification_deadline |-> rd, escrow_expiration |-> exp,
             sophiatx_balance |-> amount, pending_fee |-> fee,
             to_approved |-> FALSE, agent_approved |-> FALSE, disputed |-> FALSE])
    /\ UNCHANGED now

\* escrow_transfer_evaluator::do_apply
EscrowTransfer(from, to, agent, id, amount, fee, rd, exp) ==
    /\ EscrowTransferValid(from, to, agent)
    /\ <<from, id>> \notin DOMAIN escrow          \* unique (from, escrow_id)
    /\ rd > now
    /\ exp > now
    /\ balance[from] >= amount + fee
    /\ balance' = Credit(balance, from, -(amount + fee))
    /\ escrow' = escrow @@ (<<from, id>> :>
            [from |-> from, to |-> to, agent |-> agent,
             ratification_deadline |-> rd, escrow_expiration |-> exp,
             sophiatx_balance |-> amount, pending_fee |-> fee,
             to_approved |-> FALSE, agent_approved |-> FALSE, disputed |-> FALSE])
    /\ UNCHANGED now

\* escrow_approve_operation::validate: who is either 'to' or 'agent'.
EscrowApproveValid(e, who) == who \in {e.to, e.agent}

\* Mutants of escrow_approve (plausible slips in the code):
\*  - the rejection refunds the escrowed balance but forgets the pending fee;
EscrowApprove_FeeNotRefunded(k, who, approve) ==
    LET e == escrow[k]
        e1 == [e EXCEPT !.to_approved    = @ \/ (who = e.to /\ approve),
                        !.agent_approved = @ \/ (who = e.agent /\ approve)]
    IN
    /\ k \in DOMAIN escrow /\ EscrowApproveValid(e, who)
    /\ e.ratification_deadline >= now
    /\ who = e.to => ~e.to_approved
    /\ who = e.agent => ~e.agent_approved
    /\ IF ~approve
         THEN /\ balance' = Credit(balance, e.from, e.sophiatx_balance)
              /\ escrow' = [j \in DOMAIN escrow \ {k} |-> escrow[j]]
       ELSE IF e1.to_approved /\ e1.agent_approved
         THEN /\ balance' = Credit(balance, e.agent, e.pending_fee)
              /\ escrow' = [escrow EXCEPT ![k] = [e1 EXCEPT !.pending_fee = 0]]
       ELSE /\ escrow' = [escrow EXCEPT ![k] = e1] /\ UNCHANGED balance
    /\ UNCHANGED now

\*  - the ratification test reads the flags of a copy taken before the modify.
EscrowApprove_StaleFlags(k, who, approve) ==
    LET e == escrow[k]
        e1 == [e EXCEPT !.to_approved    = @ \/ (who = e.to /\ approve),
                        !.agent_approved = @ \/ (who = e.agent /\ approve)]
    IN
    /\ k \in DOMAIN escrow /\ EscrowApproveValid(e, who)
    /\ e.ratification_deadline >= now
    /\ who = e.to => ~e.to_approved
    /\ who = e.agent => ~e.agent_approved
    /\ IF ~approve
         THEN /\ balance' = Credit(balance, e.from, e.sophiatx_balance + e.pending_fee)
              /\ escrow' = [j \in DOMAIN escrow \ {k} |-> escrow[j]]
       ELSE IF e.to_approved /\ e.agent_approved
         THEN /\ balance' = Credit(balance, e.agent, e.pending_fee)
              /\ escrow' = [escrow EXCEPT ![k] = [e1 EXCEPT !.pending_fee = 0]]
       ELSE /\ escrow' = [escrow EXCEPT ![k] = e1] /\ UNCHANGED balance
    /\ UNCHANGED now

(***************************************************************************)
(* escrow_approve_evaluator::do_apply.  Each of 'to' and 'agent' may act   *)
(* once; a rejection refunds balance and fee to 'from' and removes the     *)
(* escrow; the approval that completes ratification pays the fee to the    *)
(* agent and zeroes it in place.                                           *)
(***************************************************************************)
EscrowApprove(k, who, approve) ==
    LET e     == escrow[k]
        isTo  == who = e.to
        isAg  == who = e.agent
        e1    == [e EXCEPT !.to_approved    = @ \/ (isTo /\ approve),
                           !.agent_approved = @ \/ (isAg /\ approve)]
    IN
    /\ k \in DOMAIN escrow
    /\ EscrowApproveValid(e, who)
    /\ e.ratification_deadline >= now
    /\ isTo => ~e.to_approved
    /\ isAg => ~e.agent_approved
    /\ IF ~approve
         THEN /\ balance' = Credit(balance, e.from, e.sophiatx_balance + e.pending_fee)
              /\ escrow' = [j \in DOMAIN escrow \ {k} |-> escrow[j]]
       ELSE IF e1.to_approved /\ e1.agent_approved
         THEN /\ balance' = Credit(balance, e.agent, e.pending_fee)
              /\ escrow' = [escrow EXCEPT ![k] = [e1 EXCEPT !.pending_fee = 0]]
       ELSE /\ escrow' = [escrow EXCEPT ![k] = e1]
            /\ UNCHANGED balance
    /\ UNCHANGED now

\* escrow_dispute_operation::validate: who is 'from' or 'to'.
EscrowDisputeValid(e, who) == who \in {e.from, e.to}

\* escrow_dispute_evaluator::do_apply
EscrowDispute(k, who) ==
    LET e == escrow[k] IN
    /\ k \in DOMAIN escrow
    /\ EscrowDisputeValid(e, who)
    /\ now < e.escrow_expiration
    /\ e.to_approved /\ e.agent_approved
    /\ ~e.disputed
    /\ escrow' = [escrow EXCEPT ![k].disputed = TRUE]
    /\ UNCHANGED <<balance, now>>

(***************************************************************************)
(* Who may release to whom (escrow_release_evaluator, lines 492-514).      *)
(***************************************************************************)
ReleaseAllowed(e, who, receiver) ==
    IF e.disputed
      THEN who = e.agent
      ELSE /\ who \in {e.from, e.to}
           /\ e.escrow_expiration > now =>
                /\ who = e.from => receiver = e.to
                /\ (who # e.from /\ who = e.to) => receiver = e.from

\* Mutant of escrow_release: the drained test reads the balance from before
\* the modify, so a drained escrow is never removed.
EscrowRelease_StaleBalance(k, who, receiver, amount) ==
    LET e == escrow[k] IN
    /\ k \in DOMAIN escrow
    /\ e.sophiatx_balance >= amount
    /\ receiver \in {e.from, e.to}
    /\ e.to_approved /\ e.agent_approved
    /\ ReleaseAllowed(e, who, receiver)
    /\ balance' = Credit(balance, receiver, amount)
    /\ escrow' = IF e.sophiatx_balance = 0
                   THEN [j \in DOMAIN escrow \ {k} |-> escrow[j]]
                   ELSE [escrow EXCEPT ![k].sophiatx_balance = @ - amount]
    /\ UNCHANGED now

\* Mutant of escrow_release: the "approved by all parties" assertion is lost.
EscrowRelease_BeforeApproval(k, who, receiver, amount) ==
    LET e == escrow[k] IN
    /\ k \in DOMAIN escrow
    /\ e.sophiatx_balance >= amount
    /\ receiver \in {e.from, e.to}
    /\ ReleaseAllowed(e, who, receiver)
    /\ balance' = Credit(balance, receiver, amount)
    /\ escrow' = IF e.sophiatx_balance = amount
                   THEN [j \in DOMAIN escrow \ {k} |-> escrow[j]]
                   ELSE [escrow EXCEPT ![k].sophiatx_balance = @ - amount]
    /\ UNCHANGED now

\* escrow_release_evaluator::do_apply
EscrowRelease(k, who, receiver, amount) ==
    LET e    == escrow[k]
        left == e.sophiatx_balance - amount
    IN
    /\ k \in DOMAIN escrow
    /\ e.sophiatx_balance >= amount
    /\ receiver \in {e.from, e.to}
    /\ e.to_approved /\ e.agent_approved
    /\ ReleaseAllowed(e, who, receiver)
    /\ balance' = Credit(balance, receiver, amount)
    /\ escrow' = IF left = 0
                   THEN [j \in DOMAIN escrow \ {k} |-> escrow[j]]
                   ELSE [escrow EXCEPT ![k].sophiatx_balance = left]
    /\ UNCHANGED now

Next ==
    \/ Tick
    \/ \E from \in Senders, to, agent \in Accounts, id \in EscrowIds, amount \in Amounts,
          fee \in Fees, rd, exp \in Times :
          EscrowTransfer(from, to, agent, id, amount, fee, rd, exp)
    \/ \E k \in DOMAIN escrow, who \in Accounts, approve \in BOOLEAN :
          EscrowApprove(k, who, approve)
    \/ \E k \in DOMAIN escrow, who \in Accounts : EscrowDispute(k, who)
    \/ \E k \in DOMAIN escrow, who, receiver \in Accounts :
          \E amount \in 1..escrow[k].sophiatx_balance :
             EscrowRelease(k, who, receiver, amount)

Spec == Init /\ [][Next]_vars

-----------------------------------------------------------------------------
(***************************************************************************)
(* Refinement: the flags of an escrow_object map to the phase of the deal  *)
(* in EscrowLifecycle; approvals short of ratification are stuttering.     *)
(***************************************************************************)
PhaseOf(e) ==
    IF e.disputed THEN "disputed"
    ELSE IF e.to_approved /\ e.agent_approved THEN "ratified"
    ELSE "proposed"

Lifecycle == INSTANCE EscrowLifecycle WITH
    book <- [k \in Keys |->
                IF k \in DOMAIN escrow
                  THEN [phase |-> PhaseOf(escrow[k]), to |-> escrow[k].to,
                        agent |-> escrow[k].agent, funds |-> escrow[k].sophiatx_balance,
                        fee |-> escrow[k].pending_fee]
                  ELSE [phase |-> "none", to |-> k[1], agent |-> k[1], funds |-> 0, fee |-> 0]]

-----------------------------------------------------------------------------
(***************************************************************************)
(* Properties                                                              *)
(***************************************************************************)

TypeOK ==
    /\ balance \in [Accounts -> Nat]
    /\ DOMAIN escrow \subseteq Keys
    /\ \A k \in DOMAIN escrow : escrow[k] \in EscrowObjects /\ escrow[k].from = k[1]
    /\ now \in Times

\* Escrow moves SPHTX but never creates or destroys it: what the accounts
\* hold plus what live escrows hold (balance and unpaid fee) stays the
\* total the accounts started with, across transfer, the fee payout on
\* ratification, the refund on rejection and partial releases.
SupplyConserved ==
    SumFunction(balance) + Held(escrow) = Cardinality(Accounts) * InitBalance

\* The approval that ratifies an escrow pays the agent's fee: an escrow
\* approved by both 'to' and 'agent' never still carries a pending fee,
\* whichever of the two approved last.
FeeSettledOnRatification ==
    \A k \in DOMAIN escrow :
        escrow[k].to_approved /\ escrow[k].agent_approved => escrow[k].pending_fee = 0

\* A release that drains the escrow removes it (escrow_release lines
\* 523-526): no live escrow has a zero balance.
NoDrainedEscrow ==
    \A k \in DOMAIN escrow : escrow[k].sophiatx_balance > 0


\* The four escrow evaluators together implement the escrow lifecycle:
\* nothing is refunded after ratification, the fee goes to the agent exactly
\* when the second approval lands, payouts go only to 'from' or 'to' and
\* only after ratification, and a dispute is never lifted.
RefinesLifecycle == Lifecycle!Spec
=============================================================================
