CONSTANTS
    a1 = a1
    a2 = a2
    k1 = k1
    nullKey = nullKey
    Accounts <- MCAccounts
    SigningKeys <- MCSigningKeys
    NullKey = nullKey
    WitnessRequired = 2
    INTERVALS = 2
    InitVesting = 3
    SPH = SPH
    USD = USD
    Symbols <- MCSymbols
    SPHTX = SPH
    SubmittedRates <- MCRates
    PriceFeeds <- MCPriceFeeds
    MaxRates = 2

SYMMETRY MCSymmetry

SPECIFICATION Spec

INVARIANT ActiveWitnessBacked
