CONSTANTS
    a1 = a1
    a2 = a2
    Accounts <- MCAccounts
    AppIds = {1, 2}
    Interpreted = {1}
    RecipientSets <- MCRecipientSets
    MaxOps = 3

SPECIFICATION Spec

INVARIANT ProducingAbortsOnInterpreterFailure
