SPECIFICATION FairSpec
CONSTANTS
    PID_NUM = 4
    PID_CAP = 3
    BYTE = 8
    Child = {a, b}
    Idle = idle
    Shell = shell
    Null = null
    SCHED_LV_MAX = 2
    CNT_BASE = 1
    CNT_LV0 = 9
    FastTyping = FALSE
INVARIANT PidsOwned
PROPERTIES
    ShellGetsCpu
    FirstLevelDrains
CHECK_DEADLOCK FALSE
