SPECIFICATION Spec
CONSTANTS
    DEPTH = 8
    LEN_LIMIT = 2048
    ErrorsAnywhere = TRUE
    Frames <- WrapFrames
PROPERTIES
    RollsBackToStart
VIEW Live
