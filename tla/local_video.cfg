CONSTANTS
    c1 = c1
    c2 = c2
    c3 = c3
    None = None
    Captures = {c1, c2, c3}
    Sizes <- ScreenSizes
    Faults = {"fail", "noscreen"}
SPECIFICATION FairSpec
INVARIANTS
    TypeOK
    ThreadOwnsCapture
    SinksAlive
    OneCaptureRuns
    CaptureIsSeen
PROPERTIES
    HandlersReturn
