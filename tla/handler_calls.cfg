SPECIFICATION Spec
CONSTANTS
    Handlers = {h1, h2, h3}
    Getter = Getter
    Missing = Missing
    Nothing = Nothing
    MaxFailures = 1
SYMMETRY HandlerSymmetry
INVARIANTS
    ScoredPictureIsRecent
    FramesReachPort
    
PROPERTIES
    NoNeedlessOpen
    LoneShowIsExact
CHECK_DEADLOCK FALSE
