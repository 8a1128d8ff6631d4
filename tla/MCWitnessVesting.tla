-------------------------- MODULE MCWitnessVesting --------------------------
(* Model-checking instance of WitnessVesting: two accounts, one signing    *)
(* key, 3 vested shares each, a witness requirement of 2 and withdrawals   *)
(* spread over 2 intervals, so a withdrawal can both keep and break the    *)
(* requirement and rates of 1 (floored) and of shares / 2 both occur.      *)
(* One symbol besides SPHTX, priced against SPHTX in both orientations;    *)
(* witness_update feeds name the symbol the price is in.                   *)
EXTENDS WitnessVesting

CONSTANTS a1, a2, k1, nullKey, SPH, USD

MCAccounts    == {a1, a2}
MCSigningKeys == {k1}
MCSymbols     == {SPH, USD}

Amt(n, s) == [amount |-> n, symbol |-> s]
MCRates == {[base |-> Amt(1, SPH), quote |-> Amt(2, USD)],
            [base |-> Amt(2, USD), quote |-> Amt(1, SPH)]}
MCPriceFeeds == {<<>>} \cup {USD :> r : r \in MCRates}

MCSymmetry == Permutations(MCAccounts)
=============================================================================
