CONSTANTS
    Node = {1, 2, 3}
    None = None
    MaxTerm = 2
    MinTimeout = 2
    MaxTimeout = 3
    HeartbeatInterval = 1
    MayDrop = FALSE
    MayDuplicate = FALSE
    MaxExtraDelay = 0
    Links <- OneLink
SPECIFICATION Spec
INVARIANTS TypeOK
PROPERTIES ImplementsRaft StableLeader
CHECK_DEADLOCK FALSE
