CONSTANTS
    MaxTasks = 3
    PageCount = 0
    BootScript <- TwoKernel
    RunTimeKinds = {"kernel"}
    ElfPages = 0
    MaxPid = 4
    Supervisors = {3}
SPECIFICATION Spec
PROPERTIES DeadNeverRuns
CHECK_DEADLOCK FALSE
