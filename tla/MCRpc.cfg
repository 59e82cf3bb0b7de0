CONSTANTS
    c1 = c1
    c2 = c2
    n1 = n1
    n2 = n2
    s = s
    Client = {c1, c2}
    Node = {n1, n2, s}
    Server = s
    home <- OnePerNode
    MayDrop = TRUE
    MayDuplicate = TRUE
    MaxExtraDelay = 1
    MaxCalls = 2
    MaxTicks = 2
SPECIFICATION FairSpec
INVARIANTS TypeOK OutcomeTellsExecution
PROPERTIES CallReturns CutOffCallsFail
CHECK_DEADLOCK FALSE
