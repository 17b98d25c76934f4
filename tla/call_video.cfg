CONSTANTS
    r1 = r1
    r2 = r2
    t1 = t1
    t2 = t2
    None = None
    Renderers <- MCRenderers
    Tracks <- MCTracks
    Sizes <- MCSizes
    OneByOne = "1x1"
    MaxQueue = 1
SPECIFICATION FairSpec
INVARIANTS
    TypeOK
    FramesReachRenderers
    RendererOfLiveTrack
    PaintReadsPictures
    ShownIsCurrent
PROPERTIES
    HandlersReturn
    AnnouncedIsRendered
