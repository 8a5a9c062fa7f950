SPECIFICATION FairSpec
\* A processor that is stuck stops for good once the bound on what may still
\* happen around it is reached.
CHECK_DEADLOCK FALSE
CONSTANTS
    TempSensors <- OneTempSensor
    PowerMonitors <- OnePowerMonitor
    Peers = {"P1", "P2"}
    NoPeer = NoPeer
    NoLine = NoLine
    SSH_TABLE_SIZE = 1
    RX_BUFFERS = 1
    TypedLines <- FourLines
    ShellLines <- TwoLines
    MaxEvents = 4
INVARIANTS
    TypeOK
    ServersKnowTheirSockets
    StackKnowsLink
    ReadingsAreTrue
    CommandsAreAnswered
PROPERTIES
    NothingWaitsForEver
    CrashIsReported
