---------------------------- MODULE WitnessVesting ----------------------------
(***************************************************************************)
(* Witness candidacy and vesting withdrawal, from                          *)
(* src/libraries/chain/sophiatx_evaluator.cpp: witness_update,             *)
(* witness_stop, witness_set_properties, feed_publish, withdraw_vesting,    *)
(* transfer and transfer_to_vesting, together with the per-block payout of *)
(* a withdrawal schedule (database::process_vesting_withdrawals, outside   *)
(* src/, modelled from the spec).  Balances are SPHTX only; VESTS and      *)
(* SPHTX convert one for one.  Timestamps are left out: a payout may       *)
(* follow a request after any number of other operations, which is every  *)
(* ordering the interval between them allows, and the last_change time of *)
(* an exchange rate is not read by any operation here.  Of the witness     *)
(* properties, the signing key and the submitted exchange rates are kept;  *)
(* fees, block size and url are data no guard reads.  A price is a pair of *)
(* amounts of two symbols.                                                 *)
(***************************************************************************)
EXTENDS Integers, FiniteSets, Sequences, Functions, TLC

CONSTANTS
    Accounts,           \* account names (model values)
    SigningKeys,        \* public keys a witness may sign with (model values)
    NullKey,            \* public_key_type(): the empty key
    WitnessRequired,    \* gpo.witness_required_vesting
    INTERVALS,          \* SOPHIATX_VESTING_WITHDRAW_INTERVALS
    InitVesting,        \* vesting shares every account starts with
    Symbols,            \* asset symbols, SPHTX among them
    SPHTX,              \* SOPHIATX_SYMBOL
    SubmittedRates,     \* the prices an operation may carry
    PriceFeeds,         \* the props.price_feeds maps (symbol -> price) of witness_update
    MaxRates            \* longest "exchange_rates" vector of witness_set_properties

ASSUME NullKey \notin SigningKeys /\ INTERVALS \in Nat \ {0} /\ SPHTX \in Symbols

VARIABLES
    vesting_shares,         \* account -> VESTS
    balance,                \* account -> SPHTX received from payouts
    vesting_withdraw_rate,  \* account -> VESTS per payout (0: no schedule)
    to_withdraw,            \* account -> VESTS the schedule withdraws in total
    withdrawn,              \* account -> VESTS withdrawn so far
    witness                 \* owner -> [signing_key, stopped, rates], witnesses only

vars == <<vesting_shares, balance, vesting_withdraw_rate, to_withdraw, withdrawn, witness>>

Keys == SigningKeys \cup {NullKey}
Supply == Cardinality(Accounts) * InitVesting   \* all SPHTX and VESTS in the model
Shares == 0..Supply

Init ==
    /\ vesting_shares = [a \in Accounts |-> InitVesting]
    /\ balance = [a \in Accounts |-> 0]
    /\ vesting_withdraw_rate = [a \in Accounts |-> 0]
    /\ to_withdraw = [a \in Accounts |-> 0]
    /\ withdrawn = [a \in Accounts |-> 0]
    /\ witness = [o \in {} |-> [signing_key |-> NullKey, stopped |-> FALSE, rates |-> <<>>]]

Prices == [base : [amount : Nat, symbol : Symbols], quote : [amount : Nat, symbol : Symbols]]

AccountVars == <<vesting_shares, balance, vesting_withdraw_rate, to_withdraw, withdrawn>>

\* witness_stop_evaluator::do_apply: an existing witness loses its key.
WitnessStop(owner) ==
    /\ witness' = IF owner \in DOMAIN witness
                    THEN [witness EXCEPT ![owner].signing_key = NullKey]
                    ELSE witness
    /\ UNCHANGED AccountVars

\* Mutant: the price is turned when its base is SPHTX instead of when it is not.
NormalizeRate_Inverted(rate) ==
    IF rate.base.symbol # SPHTX THEN rate ELSE [base |-> rate.quote, quote |-> rate.base]

\* "ensure that base is always in SPHTX": a price whose base is another
\* symbol is turned around (the same code in witness_update, feed_publish
\* and witness_set_properties).
NormalizeRate(rate) ==
    IF rate.base.symbol = SPHTX THEN rate ELSE [base |-> rate.quote, quote |-> rate.base]

\* submitted_exchange_rates[symbol].rate = rate
StoreRate(rates, symbol, rate) == (symbol :> rate) @@ rates

\* witness_set_properties stores the normalized rates in vector order under
\* their quote symbols: a later rate for the same quote replaces an earlier one.
RECURSIVE StoreRates(_, _)
StoreRates(rates, new_rates) ==
    IF new_rates = <<>> THEN rates
    ELSE StoreRates(StoreRate(rates, Head(new_rates).quote.symbol, Head(new_rates)), Tail(new_rates))

(***************************************************************************)
(* witness_update_evaluator::do_apply: the owner needs the required vested *)
(* balance.  An existing witness takes the new key (an empty key marks it  *)
(* stopped; nothing clears the mark) and stores each price feed,          *)
(* normalized, under the symbol the feed map names; otherwise a witness is *)
(* created with that key and no rates.                                     *)
(***************************************************************************)
WitnessUpdate(owner, key, feeds) ==
    /\ vesting_shares[owner] >= WitnessRequired
    /\ witness' = IF owner \in DOMAIN witness
                    THEN [witness EXCEPT ![owner].signing_key = key,
                                         ![owner].stopped = @ \/ key = NullKey,
                                         ![owner].rates = [s \in DOMAIN feeds |-> NormalizeRate(feeds[s])] @@ @]
                    ELSE witness @@ (owner :> [signing_key |-> key, stopped |-> FALSE, rates |-> <<>>])
    /\ UNCHANGED AccountVars

\* witness_set_properties_operation::get_required_authorities: the one
\* authority is authority(1, key, 1) of the submitted 'key' property (a
\* missing key gives the impossible null-account authority).  It does not
\* name the owner: whoever holds the key's private key can sign, and no one
\* holds one for the empty key.
SetPropertiesAuthority(key) == key # NullKey

\* Mutant: the submitted key is not compared with the witness's key.
WitnessSetProperties_NoKeyMatch(owner, key, newKey, exchange_rates) ==
    LET new_rates == [i \in DOMAIN exchange_rates |-> NormalizeRate(exchange_rates[i])] IN
    /\ owner \in DOMAIN witness
    /\ SetPropertiesAuthority(key)
    /\ witness' = [witness EXCEPT ![owner].signing_key = newKey,
                                  ![owner].rates = StoreRates(@, new_rates)]
    /\ UNCHANGED AccountVars

(***************************************************************************)
(* witness_set_properties: the operation must be signed with the 'key'     *)
(* property (get_required_authorities), which must equal the current       *)
(* signing key; "new_signing_key", when present, replaces it, and the      *)
(* "exchange_rates" vector, normalized rate by rate, is stored in the same *)
(* modify.  An absent property is the same as the current key or an empty  *)
(* vector.                                                                 *)
(***************************************************************************)
WitnessSetProperties(owner, key, newKey, exchange_rates) ==
    LET new_rates == [i \in DOMAIN exchange_rates |-> NormalizeRate(exchange_rates[i])] IN
    /\ owner \in DOMAIN witness
    /\ SetPropertiesAuthority(key)
    /\ key = witness[owner].signing_key
    /\ witness' = [witness EXCEPT ![owner].signing_key = newKey,
                                  ![owner].rates = StoreRates(@, new_rates)]
    /\ UNCHANGED AccountVars

\* feed_publish_evaluator::do_apply: the publisher must be a witness.
FeedPublish(w, exchange_rate) ==
    LET new_rate == NormalizeRate(exchange_rate) IN
    /\ w \in DOMAIN witness
    /\ witness' = [witness EXCEPT ![w].rates = StoreRate(@, new_rate.quote.symbol, new_rate)]
    /\ UNCHANGED AccountVars

\* The rate a withdrawal of 'shares' is paid out at: shares / INTERVALS,
\* raised to 1 when that rounds to zero.
NewWithdrawRate(shares) == IF shares \div INTERVALS = 0 THEN 1 ELSE shares \div INTERVALS

\* A witness that signs blocks must keep the required vesting after the
\* whole withdrawal (withdraw_vesting, line 594).
WitnessGuard(a, shares) ==
    a \in DOMAIN witness /\ witness[a].signing_key # NullKey
        => vesting_shares[a] - shares >= WitnessRequired

\* Mutant: the "sufficient SophiaTX Power" assertion (line 561) is lost.
WithdrawVesting_NoSharesCheck(a, shares) ==
    /\ IF shares = 0
         THEN /\ vesting_withdraw_rate[a] # 0
              /\ vesting_withdraw_rate' = [vesting_withdraw_rate EXCEPT ![a] = 0]
         ELSE /\ vesting_withdraw_rate[a] # NewWithdrawRate(shares)
              /\ WitnessGuard(a, shares)
              /\ vesting_withdraw_rate' = [vesting_withdraw_rate EXCEPT ![a] = NewWithdrawRate(shares)]
    /\ to_withdraw' = [to_withdraw EXCEPT ![a] = shares]
    /\ withdrawn' = [withdrawn EXCEPT ![a] = 0]
    /\ UNCHANGED <<vesting_shares, balance, witness>>

(***************************************************************************)
(* withdraw_vesting_evaluator::do_apply: zero cancels a running schedule;  *)
(* a positive amount starts a new schedule at a rate that must differ from *)
(* the current one.                                                        *)
(***************************************************************************)
WithdrawVesting(a, shares) ==
    /\ vesting_shares[a] >= shares
    /\ IF shares = 0
         THEN /\ vesting_withdraw_rate[a] # 0
              /\ vesting_withdraw_rate' = [vesting_withdraw_rate EXCEPT ![a] = 0]
         ELSE /\ vesting_withdraw_rate[a] # NewWithdrawRate(shares)
              /\ WitnessGuard(a, shares)
              /\ vesting_withdraw_rate' = [vesting_withdraw_rate EXCEPT ![a] = NewWithdrawRate(shares)]
    /\ to_withdraw' = [to_withdraw EXCEPT ![a] = shares]
    /\ withdrawn' = [withdrawn EXCEPT ![a] = 0]
    /\ UNCHANGED <<vesting_shares, balance, witness>>

(***************************************************************************)
(* One payout of a running schedule (spec: the rate per period, the rest   *)
(* at the end; the schedule stops once everything is withdrawn or no       *)
(* shares are left).  VESTS are converted to SPHTX one for one here.       *)
(***************************************************************************)
PayoutAmount(a) ==
    LET rest == to_withdraw[a] - withdrawn[a]
        due  == IF rest < vesting_withdraw_rate[a] THEN rest ELSE vesting_withdraw_rate[a]
    IN  IF vesting_shares[a] < due THEN vesting_shares[a] ELSE due

ProcessVestingWithdrawal(a) ==
    LET pay == PayoutAmount(a) IN
    /\ vesting_withdraw_rate[a] > 0
    /\ vesting_shares' = [vesting_shares EXCEPT ![a] = @ - pay]
    /\ balance' = [balance EXCEPT ![a] = @ + pay]
    /\ withdrawn' = [withdrawn EXCEPT ![a] = @ + pay]
    /\ vesting_withdraw_rate' =
          IF withdrawn[a] + pay >= to_withdraw[a] \/ vesting_shares[a] - pay = 0
            THEN [vesting_withdraw_rate EXCEPT ![a] = 0]
            ELSE vesting_withdraw_rate
    /\ UNCHANGED <<to_withdraw, witness>>

\* Mutant: the balance check of a transfer is dropped.
Transfer_NoFundsCheck(from, to, amount) ==
    /\ balance' = [balance EXCEPT ![from] = @ - amount, ![to] = @ + amount]
    /\ UNCHANGED <<vesting_shares, vesting_withdraw_rate, to_withdraw, withdrawn, witness>>

\* transfer_evaluator::do_apply
Transfer(from, to, amount) ==
    /\ balance[from] >= amount
    /\ balance' = [balance EXCEPT ![from] = @ - amount, ![to] = @ + amount]
    /\ UNCHANGED <<vesting_shares, vesting_withdraw_rate, to_withdraw, withdrawn, witness>>

\* database::vest: liquid SPHTX of the account becomes its vesting shares.
Vest(b, v, a, amount) ==
    /\ balance' = [b EXCEPT ![a] = @ - amount]
    /\ vesting_shares' = [v EXCEPT ![a] = @ + amount]

\* Mutant: the amount vested for another account is not taken from 'from'.
TransferToVesting_NoDebit(from, to, amount) ==
    /\ balance[from] >= amount
    /\ IF from = to
         THEN Vest(balance, vesting_shares, from, amount)
         ELSE Vest([balance EXCEPT ![to] = @ + amount], vesting_shares, to, amount)
    /\ UNCHANGED <<vesting_withdraw_rate, to_withdraw, withdrawn, witness>>

(***************************************************************************)
(* transfer_to_vesting_evaluator::do_apply: 'from' vests for itself, or    *)
(* moves the SPHTX to 'to' and vests it there.                             *)
(***************************************************************************)
TransferToVesting(from, to, amount) ==
    /\ balance[from] >= amount
    /\ IF from = to
         THEN Vest(balance, vesting_shares, from, amount)
         ELSE Vest([balance EXCEPT ![from] = @ - amount, ![to] = @ + amount],
                   vesting_shares, to, amount)
    /\ UNCHANGED <<vesting_withdraw_rate, to_withdraw, withdrawn, witness>>

RateVectors == UNION {[1..n -> SubmittedRates] : n \in 0..MaxRates}

Next ==
    \/ \E o \in Accounts : WitnessStop(o)
    \/ \E o \in Accounts, k \in Keys, f \in PriceFeeds : WitnessUpdate(o, k, f)
    \/ \E o \in Accounts, k \in SigningKeys, nk \in Keys, rs \in RateVectors :
          WitnessSetProperties(o, k, nk, rs)
    \/ \E o \in Accounts, r \in SubmittedRates : FeedPublish(o, r)
    \/ \E a \in Accounts, s \in Shares : WithdrawVesting(a, s)
    \/ \E a \in Accounts : ProcessVestingWithdrawal(a)
    \/ \E f, t \in Accounts, n \in 1..Supply : Transfer(f, t, n) \/ TransferToVesting(f, t, n)

Spec == Init /\ [][Next]_vars

-----------------------------------------------------------------------------
(***************************************************************************)
(* Properties                                                              *)
(***************************************************************************)

TypeOK ==
    /\ vesting_shares \in [Accounts -> Shares]
    /\ balance \in [Accounts -> Shares]
    /\ vesting_withdraw_rate \in [Accounts -> Shares]
    /\ to_withdraw \in [Accounts -> Shares]
    /\ withdrawn \in [Accounts -> Shares]
    /\ DOMAIN witness \subseteq Accounts
    /\ \A o \in DOMAIN witness :
          /\ witness[o].signing_key \in Keys
          /\ witness[o].stopped \in BOOLEAN
          /\ DOMAIN witness[o].rates \subseteq Symbols
          /\ \A s \in DOMAIN witness[o].rates : witness[o].rates[s] \in Prices

\* No operation creates or destroys SPHTX: transfers, vesting deposits and
\* withdrawal payouts only move value between the liquid balances and the
\* vesting shares of the accounts (spec, section 8).
SupplyConserved ==
    SumFunction(balance) + SumFunction(vesting_shares) = Supply

\* What a running schedule still has to pay out is covered by the account's
\* vesting shares, however requests and payouts interleave: a new request
\* is checked against the shares left after earlier payouts.
WithdrawalBacked ==
    \A a \in Accounts :
        vesting_withdraw_rate[a] > 0 => to_withdraw[a] - withdrawn[a] <= vesting_shares[a]

\* A witness that signs blocks keeps the vesting a witness requires: the
\* guard of withdraw_vesting is meant to stop a signing witness from
\* withdrawing below witness_required_vesting (spec, section 4.2).
ActiveWitnessBacked ==
    \A o \in DOMAIN witness :
        witness[o].signing_key # NullKey => vesting_shares[o] >= WitnessRequired

\* A step in which owner o restarts its witness with witness_update.
OwnerRestarts(o) == \E k \in SigningKeys, f \in PriceFeeds : WitnessUpdate(o, k, f)

\* A stopped witness signs blocks again only through its owner: once
\* witness_stop or witness_update has emptied its signing key, neither the
\* holder of the old key nor anyone else can give it a key back through
\* witness_set_properties, which is signed by the submitted key and must
\* match the witness's current one; only the owner's witness_update can.
StoppedWitnessRestartedByOwner ==
    [][\A o \in DOMAIN witness :
          witness[o].signing_key = NullKey /\ witness'[o].signing_key # NullKey
             => OwnerRestarts(o)]_vars

\* Every stored rate prices SPHTX in the symbol it is stored under, the
\* form the feeds are read in (spec, section 4.3), whichever orientation
\* the witnesses submitted, through witness_update, witness_set_properties
\* or feed_publish, in any order and with witnesses created in between.
RatesQuotedAgainstSPHTX ==
    \A o \in DOMAIN witness : \A s \in DOMAIN witness[o].rates :
        LET r == witness[o].rates[s] IN
        r.base.symbol = SPHTX /\ r.quote.symbol = s /\ s # SPHTX
=============================================================================
