\* wikipedia2geojson -strict: one FeatureCollection, no limit.
SPECIFICATION Spec
CONSTANTS
    Workers = {w1, w2}
    ErrorQueue = 1
    Window = 2
    Limit <- NoLimit
    Strict = TRUE
    Kinds = {"found", "absent", "broken"}
    MaxPages = 4
SYMMETRY Symmetry
INVARIANTS
    SourceOrder
    EveryPageInOnePlace
    WindowBounds
    NoSendOnClosedChannel
    SuccessIsComplete
    ClosedCollectionIsWellFormed
PROPERTY ImplementsSequential
