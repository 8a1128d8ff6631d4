CONSTANTS
    a1 = a1
    a2 = a2
    a3 = a3
    n1 = n1
    n2 = n2
    pp1 = pp1
    pp2 = pp2
    none = none
    AccountNames <- MCAccountNames
    Genesis = {a1}
    InitBalance = 2
    Fees = {1, 2}
    CreationFee = 1
    InitPromotionPool = 1
    PoolAmounts = {2}
    NoSponsor = none
    Names = {n1, n2}
    PriceParams = {pp1, pp2}
    MaxApps = 3

\* A run ends once MaxApps applications were created and all were deleted:
\* no application operation applies then, and account creation stops once
\* every name exists or the balances run out.
SYMMETRY MCSymmetry
CHECK_DEADLOCK FALSE
SPECIFICATION Spec

INVARIANT TypeOK
INVARIANT BuyingOfLiveApplication
INVARIANT AuthorsExist
INVARIANT SupplyMatchesBalances
