CONSTANTS
    a1 = a1
    a2 = a2
    a3 = a3
    Accounts <- MCAccounts
    Senders <- MCSenders
    EscrowIds <- MCEscrowIds
    Amounts <- MCAmounts
    Fees <- MCFees
    InitBalance = 3
    MaxTime = 2

SYMMETRY MCSymmetry

SPECIFICATION Spec

INVARIANT TypeOK
INVARIANT SupplyConserved
INVARIANT FeeSettledOnRatification
INVARIANT NoDrainedEscrow
PROPERTY RefinesLifecycle
