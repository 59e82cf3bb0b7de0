CONSTANTS
    Key = {k1, k2}
    Value = {v1, v2}
    Absent = Absent
    MaxItems = 4
SPECIFICATION CrashSpec
PROPERTIES RestartKeepsAcknowledged
CHECK_DEADLOCK FALSE
