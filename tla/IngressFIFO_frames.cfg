SPECIFICATION Spec
CONSTANTS
    DEPTH = 8
    LEN_LIMIT = 2048
    ErrorsAnywhere = FALSE
    Frames <- AllFrames
INVARIANTS
    TypeOK
    PublishedIntact
    NothingLost
PROPERTIES
    IsFrameQueue
VIEW Live
