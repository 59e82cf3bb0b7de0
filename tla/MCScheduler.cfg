CONSTANTS
    MaxTasks = 4
    PageCount = 9
    BootScript <- TwoKernelOneUser
    RunTimeKinds = {"kernel", "user", "elf"}
    ElfPages = 1
    MaxPid = 6
    Supervisors = {3}
SPECIFICATION FairSpec
INVARIANTS TypeOK OneRuns  PagesAccounted
PROPERTIES  ReadyRuns
CHECK_DEADLOCK FALSE
