CONSTANTS
    a1 = a1
    a2 = a2
    a3 = a3
    a4 = a4
    noProxy = noProxy
    Accounts <- MCAccounts
    Witnesses <- MCWitnesses
    NoProxy = noProxy
    Stake <- MCStake
    MAX_DEPTH = 2
    MAX_VOTES = 1

SPECIFICATION Spec

INVARIANT ProxyChainWithinDepth
