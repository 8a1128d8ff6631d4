----------------------------- MODULE ProxyVoting -----------------------------
(***************************************************************************)
(* Witness voting and proxy voting, from                                   *)
(* src/libraries/chain/sophiatx_evaluator.cpp: account_witness_vote and    *)
(* account_witness_proxy.  The weight bookkeeping they call               *)
(* (database::adjust_proxied_witness_votes, adjust_witness_votes,          *)
(* clear_witness_votes) is outside src/ and modelled from the spec.  Each  *)
(* account's own stake (total_balance) is a constant here: the operations  *)
(* modelled do not change it.                                              *)
(***************************************************************************)
EXTENDS Integers, FiniteSets, Functions

CONSTANTS
    Accounts,           \* account names (model values)
    Witnesses,          \* accounts that own a witness_object
    NoProxy,            \* the empty account name
    Stake,              \* account -> total_balance()
    MAX_DEPTH,          \* SOPHIATX_MAX_PROXY_RECURSION_DEPTH
    MAX_VOTES           \* SOPHIATX_MAX_ACCOUNT_WITNESS_VOTES

ASSUME /\ Witnesses \subseteq Accounts /\ NoProxy \notin Accounts
       /\ Stake \in [Accounts -> Nat] /\ MAX_DEPTH \in Nat \ {0}

VARIABLES
    proxy,                  \* account -> account it proxies to, or NoProxy
    proxied_vsf_votes,      \* account -> level -> stake proxied from that level
    witness_vote,           \* set of <<account, witness>> witness_vote_objects
    witnesses_voted_for,    \* account -> number of its witness votes
    votes                   \* witness -> aggregate vote weight

vars == <<proxy, proxied_vsf_votes, witness_vote, witnesses_voted_for, votes>>

Levels == 0..MAX_DEPTH - 1      \* indices of proxied_vsf_votes
Deltas == 0..MAX_DEPTH          \* indices of the delta array

Init ==
    /\ proxy = [a \in Accounts |-> NoProxy]
    /\ proxied_vsf_votes = [a \in Accounts |-> [i \in Levels |-> 0]]
    /\ witness_vote = {}
    /\ witnesses_voted_for = [a \in Accounts |-> 0]
    /\ votes = [w \in Witnesses |-> 0]

\* account_object::witness_vote_weight(): own stake plus all proxied stake.
WitnessVoteWeight(a) == Stake[a] + SumFunction(proxied_vsf_votes[a])

(***************************************************************************)
(* database::adjust_proxied_witness_votes( a, delta, depth ), as a         *)
(* function of the proxy links px and vote objects wv it reads and of the  *)
(* weights st = [pvv, votes] it updates.  Along the proxy chain the        *)
(* proxy at 'depth' adds delta[i] to its level i + depth; stake that would *)
(* go past MAX_DEPTH is dropped; an account without proxy moves the votes  *)
(* of the witnesses it votes for by the sum of the levels still in reach.  *)
(***************************************************************************)
RECURSIVE AdjustProxiedWitnessVotes(_, _, _, _, _, _)
AdjustProxiedWitnessVotes(px, wv, a, delta, depth, st) ==
    IF px[a] # NoProxy
      THEN IF depth >= MAX_DEPTH
             THEN st
             ELSE LET p   == px[a]
                      pvv == [st.pvv EXCEPT ![p] =
                                [j \in Levels |-> IF j >= depth THEN @[j] + delta[j - depth]
                                                               ELSE @[j]]]
                  IN  AdjustProxiedWitnessVotes(px, wv, p, delta, depth + 1,
                                                [st EXCEPT !.pvv = pvv])
      ELSE LET total == SumFunctionOnSet(delta, 0..MAX_DEPTH - depth)
           IN  [st EXCEPT !.votes = [w \in Witnesses |->
                                       IF <<a, w>> \in wv THEN @[w] + total ELSE @[w]]]

(***************************************************************************)
(* The proxy-loop check of account_witness_proxy (lines 614-624): walk up  *)
(* from the new proxy, adding every account met to proxy_chain, which      *)
(* starts as {account, new_proxy}; an account met twice is a loop, and the *)
(* chain may not grow past MAX_DEPTH accounts.                             *)
(***************************************************************************)
\* Mutant: the walk only bounds the chain's size, not its repetitions.
RECURSIVE ProxyChainOk_NoLoopCheck(_, _)
ProxyChainOk_NoLoopCheck(cprox, proxy_chain) ==
    proxy[cprox] # NoProxy =>
        LET next == proxy[cprox] IN
        /\ Cardinality(proxy_chain \cup {next}) <= MAX_DEPTH
        /\ ProxyChainOk_NoLoopCheck(next, proxy_chain \cup {next})

RECURSIVE ProxyChainOk(_, _)
ProxyChainOk(cprox, proxy_chain) ==
    proxy[cprox] # NoProxy =>
        LET next == proxy[cprox] IN
        /\ next \notin proxy_chain
        /\ Cardinality(proxy_chain \cup {next}) <= MAX_DEPTH
        /\ ProxyChainOk(next, proxy_chain \cup {next})

\* account_witness_proxy_operation::validate: an account cannot proxy to itself.
ProxyValid(a, p) == p # a

\* The weight an account contributes: minus its stake and proxied levels.
RemovalDelta(a) ==
    [i \in Deltas |-> IF i = 0 THEN -Stake[a] ELSE -proxied_vsf_votes[a][i - 1]]

Negate(delta) == [i \in DOMAIN delta |-> -delta[i]]

Weights == [pvv |-> proxied_vsf_votes, votes |-> votes]

\* Mutant: setting a proxy keeps the account's own witness votes
\* (clear_witness_votes is not called).
SetProxy_VotesKept(a, p) ==
    LET delta == RemovalDelta(a)
        st1   == AdjustProxiedWitnessVotes(proxy, witness_vote, a, delta, 0, Weights)
        px2   == [proxy EXCEPT ![a] = p]
        st2   == AdjustProxiedWitnessVotes(px2, witness_vote, a, Negate(delta), 0, st1)
    IN
    /\ ProxyValid(a, p)
    /\ proxy[a] # p
    /\ ProxyChainOk(p, {a, p})
    /\ proxy' = px2
    /\ proxied_vsf_votes' = st2.pvv
    /\ votes' = st2.votes
    /\ UNCHANGED <<witness_vote, witnesses_voted_for>>

(***************************************************************************)
(* account_witness_proxy_evaluator::do_apply with a new proxy: remove the  *)
(* account's weight along the old chain, check the new chain, clear the    *)
(* account's own votes, set the proxy and add the weight along the new     *)
(* chain.                                                                  *)
(***************************************************************************)
SetProxy(a, p) ==
    LET delta == RemovalDelta(a)
        st1   == AdjustProxiedWitnessVotes(proxy, witness_vote, a, delta, 0, Weights)
        wv2   == {v \in witness_vote : v[1] # a}
        px2   == [proxy EXCEPT ![a] = p]
        st2   == AdjustProxiedWitnessVotes(px2, wv2, a, Negate(delta), 0, st1)
    IN
    /\ ProxyValid(a, p)
    /\ proxy[a] # p
    /\ ProxyChainOk(p, {a, p})
    /\ witness_vote' = wv2
    /\ witnesses_voted_for' = [witnesses_voted_for EXCEPT ![a] = 0]
    /\ proxy' = px2
    /\ proxied_vsf_votes' = st2.pvv
    /\ votes' = st2.votes

\* account_witness_proxy_evaluator::do_apply with an empty proxy: remove
\* the account's weight along the old chain and clear the proxy.
ClearProxy(a) ==
    LET st1 == AdjustProxiedWitnessVotes(proxy, witness_vote, a, RemovalDelta(a), 0, Weights) IN
    /\ proxy[a] # NoProxy
    /\ proxy' = [proxy EXCEPT ![a] = NoProxy]
    /\ proxied_vsf_votes' = st1.pvv
    /\ votes' = st1.votes
    /\ UNCHANGED <<witness_vote, witnesses_voted_for>>

\* Mutant: the SOPHIATX_MAX_ACCOUNT_WITNESS_VOTES limit is not enforced.
AccountWitnessVote_NoVoteLimit(a, w, approve) ==
    /\ proxy[a] = NoProxy
    /\ IF <<a, w>> \notin witness_vote
         THEN /\ approve
              /\ witness_vote' = witness_vote \cup {<<a, w>>}
              /\ votes' = [votes EXCEPT ![w] = @ + WitnessVoteWeight(a)]
              /\ witnesses_voted_for' = [witnesses_voted_for EXCEPT ![a] = @ + 1]
         ELSE /\ ~approve
              /\ votes' = [votes EXCEPT ![w] = @ - WitnessVoteWeight(a)]
              /\ witnesses_voted_for' = [witnesses_voted_for EXCEPT ![a] = @ - 1]
              /\ witness_vote' = witness_vote \ {<<a, w>>}
    /\ UNCHANGED <<proxy, proxied_vsf_votes>>

(***************************************************************************)
(* account_witness_vote_evaluator::do_apply: only an account without a     *)
(* proxy votes; approving adds its whole vote weight to the witness,       *)
(* rejecting takes it away again.                                          *)
(***************************************************************************)
AccountWitnessVote(a, w, approve) ==
    /\ proxy[a] = NoProxy
    /\ IF <<a, w>> \notin witness_vote
         THEN /\ approve
              /\ witnesses_voted_for[a] < MAX_VOTES
              /\ witness_vote' = witness_vote \cup {<<a, w>>}
              /\ votes' = [votes EXCEPT ![w] = @ + WitnessVoteWeight(a)]
              /\ witnesses_voted_for' = [witnesses_voted_for EXCEPT ![a] = @ + 1]
         ELSE /\ ~approve
              /\ votes' = [votes EXCEPT ![w] = @ - WitnessVoteWeight(a)]
              /\ witnesses_voted_for' = [witnesses_voted_for EXCEPT ![a] = @ - 1]
              /\ witness_vote' = witness_vote \ {<<a, w>>}
    /\ UNCHANGED <<proxy, proxied_vsf_votes>>

Next ==
    \/ \E a, p \in Accounts : SetProxy(a, p)
    \/ \E a \in Accounts : ClearProxy(a)
    \/ \E a \in Accounts, w \in Witnesses, approve \in BOOLEAN : AccountWitnessVote(a, w, approve)

Spec == Init /\ [][Next]_vars

-----------------------------------------------------------------------------
(***************************************************************************)
(* Reference definitions: who is k proxy links above whom.                 *)
(***************************************************************************)
RECURSIVE Above(_, _)
Above(u, k) ==
    IF k = 0 THEN u
    ELSE LET x == Above(u, k - 1) IN IF x = NoProxy THEN NoProxy ELSE proxy[x]

\* Stake of the accounts exactly k links below v.
DelegatedStake(v, k) == SumFunctionOnSet(Stake, {u \in Accounts : Above(u, k) = v})

\* The weight v should vote with: its own stake and the stake of every
\* account at most MAX_DEPTH links below it.
ReferenceWeight(v) == Stake[v] + SumFunctionOnSet([k \in 1..MAX_DEPTH |-> DelegatedStake(v, k)], 1..MAX_DEPTH)

-----------------------------------------------------------------------------
(***************************************************************************)
(* Properties                                                              *)
(***************************************************************************)

TypeOK ==
    /\ proxy \in [Accounts -> Accounts \cup {NoProxy}]
    /\ proxied_vsf_votes \in [Accounts -> [Levels -> Int]]
    /\ witness_vote \subseteq Accounts \X Witnesses
    /\ witnesses_voted_for \in [Accounts -> 0..MAX_VOTES]
    /\ votes \in [Witnesses -> Int]

\* The incremental bookkeeping agrees with the proxy graph: every level of
\* proxied_vsf_votes holds exactly the stake of the accounts that many links
\* below, only accounts without a proxy hold vote objects, their count is
\* witnesses_voted_for, and each witness's votes are the reference weights
\* of its voters, after any sequence of votes and proxy changes by any
\* accounts in the chain.
VotesMatchDelegation ==
    /\ \A x \in Accounts, i \in Levels : proxied_vsf_votes[x][i] = DelegatedStake(x, i + 1)
    /\ \A a \in Accounts :
          /\ proxy[a] # NoProxy => \A w \in Witnesses : <<a, w>> \notin witness_vote
          /\ witnesses_voted_for[a] = Cardinality({w \in Witnesses : <<a, w>> \in witness_vote})
    /\ \A w \in Witnesses :
          votes[w] = SumFunctionOnSet([v \in Accounts |-> ReferenceWeight(v)],
                                      {v \in Accounts : <<v, w>> \in witness_vote})

\* Proxy links never form a loop (spec, section 8): no account is reached
\* again by following proxies from it.
NoProxyLoop ==
    \A u \in Accounts, k \in 1..Cardinality(Accounts) : Above(u, k) # u

\* No proxy chain is longer than MAX_DEPTH links (spec, section 8: longer
\* chains are rejected), so the stake of every account reaches the account
\* at the end of its chain, which votes with it.
ProxyChainWithinDepth ==
    \A u \in Accounts : Above(u, MAX_DEPTH + 1) = NoProxy
=============================================================================
