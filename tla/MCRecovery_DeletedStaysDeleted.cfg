CONSTANTS
    a1 = a1
    a2 = a2
    a3 = a3
    noAccount = noAccount
    Accounts <- MCAccounts
    Recoverable <- MCRecoverable
    NoAccount = noAccount
    TopWitness = a3
    InitRecovery <- MCInitRecovery
    Auths = {o1, o2}
    OpenAuth = openAuth
    ImpossibleAuth = impossibleAuth
    DeletedAuth = deletedAuth
    OWNER_UPDATE_LIMIT = 1
    EXPIRATION_PERIOD = 2
    RECOVERY_PERIOD = 3
    MaxTime = 6

SPECIFICATION Spec

PROPERTY DeletedAccountStaysDeleted
