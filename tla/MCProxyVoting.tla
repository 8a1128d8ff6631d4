---------------------------- MODULE MCProxyVoting ----------------------------
(* Model-checking instance of ProxyVoting: four accounts with stakes that  *)
(* are distinct powers of two, so any misattributed stake shows in a sum,  *)
(* two witnesses, a proxy depth of 2 (three-link chains are what the check *)
(* must stop) and one vote per account (the vote limit is reached).        *)
EXTENDS ProxyVoting, TLC

CONSTANTS a1, a2, a3, a4, noProxy

MCAccounts  == {a1, a2, a3, a4}
MCWitnesses == {a1, a2}
MCStake     == (a1 :> 1) @@ (a2 :> 2) @@ (a3 :> 4) @@ (a4 :> 8)
=============================================================================
