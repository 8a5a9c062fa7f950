SPECIFICATION Spec
CONSTANTS
    NUM_PORTS = 2
    DEPTH = 16
    LATENCY = 7
    TIDS = 4
    Traffic <- LongTraffic
    Overlap = TRUE
    FlapsBusy = FALSE
INVARIANTS
    FramesIntact
VIEW Live
