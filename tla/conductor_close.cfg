CONSTANTS
    m1 = m1
    m2 = m2
    NoId = NoId
    Ids = {m1, m2}
    Faults = {}
    MaxRetries = 0
    Upsets = {}
    MaxQueue = 2
    MaxPending = 1
    MaxOffers = 1
    MaxBoxes = 1
SPECIFICATION FairSpec
CHECK_DEADLOCK FALSE
PROPERTIES
    ClosedProgramEnds
