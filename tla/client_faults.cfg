CONSTANTS
    m1 = m1
    m2 = m2
    NoId = NoId
    Ids = {m1, m2}
    Faults <- HostileFaults
    MaxRetries = 2
SPECIFICATION Spec
SYMMETRY IdSymmetry
INVARIANTS
    TypeOK
    OnConnectHasData
    PollIdleWhileSigningIn
    ResolverOwned
    AnonymousExchange
PROPERTIES
    LossReported
