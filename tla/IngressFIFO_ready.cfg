SPECIFICATION FairSpec
CONSTANTS
    DEPTH = 4
    LEN_LIMIT = 2048
    ErrorsAnywhere = TRUE
    Frames <- OneFrame
PROPERTIES
    ReadyWhenNotFull
