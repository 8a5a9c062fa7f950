SPECIFICATION FairSpec
CONSTANTS
    A = A
    B = B
    M = M
    NoStation = NoStation
    NoPort = NoPort
    TABLE_ROWS = 2
    ASSOC_WAYS = 2
    PENDING_SIZE = 2
    Stations <- AllStations
    Multicast <- GroupAddresses
    Ports <- TwoPorts
    Hash <- SmallHash
    Lookups <- Pair
    Gap = 6
    GcRuns = TRUE
    MgmtOps <- ReadAndDelete
INVARIANTS
    EntryInItsRow
PROPERTIES
    PortBServesAll
    SilentHostsAgeOut
