--------------------------- MODULE AccountCreation ---------------------------
(***************************************************************************)
(* Account creation, fee sponsoring and promotion-pool withdrawals, from   *)
(* src/libraries/chain/sophiatx_evaluator.cpp: account_create,             *)
(* sponsor_fees and transfer_from_promotion_pool.  database::pay_fee is    *)
(* outside src/ and modelled from the spec's scenario (creator 100, fee    *)
(* 10, minimum 5: creator 90, new account 5): it takes the required fee    *)
(* from the payer into the collected fees.                                 *)
(* The new account's name is make_random_fixed_string(name_seed); the seed *)
(* is the operation's input, so the name is any name the seed may give.    *)
(* Authorities, keys and metadata are left out, and with them the check   *)
(* verify_authority_accounts_exist makes on the names they reference.     *)
(* economic_model_object::withdraw_from_promotion_pool is outside src/ and *)
(* not described by the spec: it may pay any amount up to the requested   *)
(* one and the pool's content, and takes it from the pool.                 *)
(***************************************************************************)
EXTENDS Naturals, FiniteSets, Functions, TLC

CONSTANTS
    AccountNames,       \* every name an operation may carry (model values)
    Genesis,            \* accounts that exist at the start
    InitBalance,        \* SPHTX balance of each genesis account
    Fees,               \* fees an operation may offer
    CreationFee,        \* wso.median_props.account_creation_fee
    InitPromotionPool,  \* SPHTX in the promotion pool at the start
    PoolAmounts,        \* amounts a transfer_from_promotion_pool may request
    NoSponsor           \* account_name_type(""): the empty sponsor

ASSUME /\ Genesis \subseteq AccountNames /\ NoSponsor \notin AccountNames
       /\ CreationFee \in Fees

VARIABLES
    accounts,       \* names of the existing account_objects
    balance,        \* name -> SPHTX balance (0 for names not created)
    fees_paid,      \* SPHTX taken by pay_fee
    sponsor,        \* account_fee_sponsor_objects: sponsored -> sponsor
    promotion_pool, \* economic model: SPHTX left in the promotion pool
    current_supply  \* dynamic global properties: current SPHTX supply

acc_vars == <<accounts, balance, fees_paid, sponsor, promotion_pool, current_supply>>

Supply == Cardinality(Genesis) * InitBalance
MaxSupply == Supply + InitPromotionPool

AccInit ==
    /\ accounts = Genesis
    /\ balance = [n \in AccountNames |-> IF n \in Genesis THEN InitBalance ELSE 0]
    /\ fees_paid = 0
    /\ sponsor = [n \in {} |-> NoSponsor]
    /\ promotion_pool = InitPromotionPool
    /\ current_supply = Supply

\* database::pay_fee (spec-modelled): the payer's balance pays the required
\* fee, which leaves the accounts.
PayFee(bal, payer, fee) == [bal EXCEPT ![payer] = @ - fee]

\* adjust_balance(new_account, excess_fee); adjust_balance(creator, -excess_fee).
MoveExcess(bal, creator, name, excess_fee) ==
    [bal EXCEPT ![name] = @ + excess_fee, ![creator] = @ - excess_fee]

\* account_create_evaluator::do_apply: the creator must exist and hold the
\* offered fee, the fee must reach the median creation fee and the new name
\* must be free (the by_name index is unique).  The required fee is paid
\* through pay_fee when positive, and a positive excess moves from the
\* creator to the new account.
AccountCreate(creator, name, fee) ==
    LET excess_fee == fee - CreationFee
        afterFee   == IF CreationFee > 0 THEN PayFee(balance, creator, CreationFee) ELSE balance
    IN
    /\ creator \in accounts
    /\ balance[creator] >= fee
    /\ fee >= CreationFee
    /\ name \notin accounts
    /\ accounts' = accounts \cup {name}
    /\ balance' = IF excess_fee > 0 THEN MoveExcess(afterFee, creator, name, excess_fee) ELSE afterFee
    /\ fees_paid' = fees_paid + CreationFee
    /\ UNCHANGED <<sponsor, promotion_pool, current_supply>>

\* sponsor_fees_evaluator::do_apply.  The empty sponsor removes the
\* sponsorship of the sponsored account (get<> throws when there is none)
\* without looking the accounts up.  Otherwise both accounts must exist; a
\* sponsorship is created when there is none, or removed by its sponsor.
SponsorFees(sp, sponsored, is_sponsoring) ==
    /\ IF sp = NoSponsor
         THEN /\ sponsored \in DOMAIN sponsor
              /\ sponsor' = [s \in DOMAIN sponsor \ {sponsored} |-> sponsor[s]]
         ELSE /\ sp \in accounts
              /\ sponsored \in accounts
              /\ IF is_sponsoring
                   THEN /\ sponsored \notin DOMAIN sponsor
                        /\ sponsor' = sponsor @@ (sponsored :> sp)
                   ELSE /\ sponsored \in DOMAIN sponsor
                        /\ sponsor[sponsored] = sp
                        /\ sponsor' = [s \in DOMAIN sponsor \ {sponsored} |-> sponsor[s]]
    /\ UNCHANGED <<accounts, balance, fees_paid, promotion_pool, current_supply>>

\* economic_model_object::withdraw_from_promotion_pool: what a request of
\* 'amount' may pay out of the pool.
PoolWithdrawals(amount) == 0..IF amount < promotion_pool THEN amount ELSE promotion_pool

\* Mutant: the supply grows by the requested amount, not by what was paid.
TransferFromPromotionPool_SupplyByRequest(to, amount) ==
    /\ to \in accounts
    /\ amount > 0
    /\ \E withdrawn \in PoolWithdrawals(amount) :
          /\ promotion_pool' = promotion_pool - withdrawn
          /\ balance' = [balance EXCEPT ![to] = @ + withdrawn]
          /\ current_supply' = current_supply + amount
    /\ UNCHANGED <<accounts, fees_paid, sponsor>>

\* transfer_from_promotion_pool_evaluator::do_apply: the receiver must
\* exist and the amount be positive SPHTX; the economic model pays out
\* what it can, and exactly that is credited to the receiver and added to
\* the current supply.
TransferFromPromotionPool(to, amount) ==
    /\ to \in accounts
    /\ amount > 0
    /\ \E withdrawn \in PoolWithdrawals(amount) :
          /\ promotion_pool' = promotion_pool - withdrawn
          /\ balance' = [balance EXCEPT ![to] = @ + withdrawn]
          /\ current_supply' = current_supply + withdrawn
    /\ UNCHANGED <<accounts, fees_paid, sponsor>>

AccNext ==
    \/ \E c, n \in AccountNames, f \in Fees : AccountCreate(c, n, f)
    \/ \E sp \in AccountNames \cup {NoSponsor}, s \in AccountNames, b \in BOOLEAN :
          SponsorFees(sp, s, b)
    \/ \E t \in AccountNames, n \in PoolAmounts : TransferFromPromotionPool(t, n)

-----------------------------------------------------------------------------

AccTypeOK ==
    /\ accounts \subseteq AccountNames
    /\ balance \in [AccountNames -> 0..MaxSupply]
    /\ fees_paid \in 0..MaxSupply
    /\ promotion_pool \in 0..InitPromotionPool
    /\ current_supply \in Nat
    /\ DOMAIN sponsor \subseteq AccountNames
    /\ \A s \in DOMAIN sponsor : sponsor[s] \in AccountNames

\* The recorded supply is what the accounts hold: account creation moves
\* the offered fee from the creator to the new account and pay_fee without
\* creating or losing SPHTX, whatever the fee and the median creation fee,
\* and a promotion-pool withdrawal raises the supply by exactly what it
\* credits, also when the pool pays less than was requested.
SupplyMatchesBalances ==
    SumFunction(balance) + fees_paid = current_supply
====
