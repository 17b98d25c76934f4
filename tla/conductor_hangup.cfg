CONSTANTS
    m1 = m1
    m2 = m2
    NoId = NoId
    Ids = {m1, m2}
    Faults = {}
    MaxRetries = 0
    Upsets = {}
    MaxQueue = 2
    MaxPending = 2
    MaxOffers = 1
    MaxBoxes = 1
SPECIFICATION Spec
CHECK_DEADLOCK FALSE
PROPERTIES
    HangUpFindsIdleSocket
