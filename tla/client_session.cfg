CONSTANTS
    m1 = m1
    m2 = m2
    NoId = NoId
    Ids = {m1, m2}
    Faults <- NetworkFaults
    MaxRetries = 2
SPECIFICATION FairSpec
INVARIANTS
    ConnectedHasId
    PollOutstanding
    PollOnlyWhenConnected
    RetryScheduled
PROPERTIES
    SignInCompletes
    ImplementsSession
