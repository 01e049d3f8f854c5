SPECIFICATION Spec
CONSTANTS
    o1 = o1
    o2 = o2
    a1 = a1
    s1 = s1
    s2 = s2
    s3 = s3
    Users <- MCUsers
    SigningIn <- MCSigningIn
    InitMembers <- MCInitMembers
    InitFailed <- MCInitFailed
    Sessions <- MCSessions
    InitSessions <- MCInitSessions
    Keys = {k1}
    Accounts = {sa, sb}
    InitAccounts = {sa}
    Nobody = Nobody
    Workers = {w1, w2}
    MaxCalls = 3
    MaxFaults = 1
PROPERTY
    OwnerRemains
INVARIANTS
    OnlyOwnersMakeOwners
    CodeSpentOnce
    ThreeGuesses
    RemovedStaysOut
CHECK_DEADLOCK FALSE
