SPECIFICATION FairSpec
CONSTANTS
    NUM_PORTS = 3
    DEPTH = 16
    LATENCY = 7
    TIDS = 4
    Traffic <- MixedTraffic
    Overlap = FALSE
    FlapsBusy = FALSE
INVARIANTS
    TypeOK
    FramesIntact
    KeepsItsPlace
VIEW Live
PROPERTIES
    EveryFrameSent
