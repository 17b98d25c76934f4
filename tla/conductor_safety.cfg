CONSTANTS
    m1 = m1
    m2 = m2
    m3 = m3
    NoId = NoId
    Ids = {m1, m2, m3}
    Faults = {"drop", "losepoll", "error", "lookup"}
    MaxRetries = 0
    Upsets = {"nopc"}
    MaxQueue = 2
    MaxPending = 1
    MaxOffers = 1
    MaxBoxes = 2
SPECIFICATION Spec
CHECK_DEADLOCK FALSE
SYMMETRY IdSymmetry
INVARIANTS
    TypeOK
    NoLostWakeup
    ConversationHasPeer
    ConversationIsShown
    ListIsCurrent
PROPERTIES
    SendingKeepsSession
