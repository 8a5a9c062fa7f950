SPECIFICATION FairSpec
\* A hung supervisor stops for good once the bounds on what may still happen
\* around it are reached.
CHECK_DEADLOCK FALSE
CONSTANTS
    RX_FIFO = 1
    MaxPresses = 2
    MaxArrivals = 2
    MaxResets = 1
INVARIANTS
    TypeOK
    SequencesKept
    FaultIsSafe
    LedsAreHonest
    OncePerPress
PROPERTIES
    LostRailShutsDown
    SystemComesUp
