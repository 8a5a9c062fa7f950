SPECIFICATION Spec
CONSTANTS
    SSHSessions = {S}
    Console = Console
    Absent = Absent
    Values <- TwoValues
    Default = 0
    CAPACITY = 5
    Removable <- SomeRemovable
    MaxEdits = 3
    MaxBoots = 2
INVARIANTS
    TypeOK
    HostKeysMatch
    CleanIsStored
PROPERTIES
    CommittedComesBack
