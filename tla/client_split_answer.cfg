CONSTANTS
    m1 = m1
    m2 = m2
    NoId = NoId
    Ids = {m1, m2}
    Faults = {"refuse", "drop", "part"}
    MaxRetries = 1
SPECIFICATION Spec
INVARIANTS
    ConnectedHasId
