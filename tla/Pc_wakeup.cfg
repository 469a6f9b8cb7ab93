SPECIFICATION Spec
CONSTANTS
    PID_NUM = 4
    PID_CAP = 4
    BYTE = 8
    Child = {a, b}
    Idle = idle
    Shell = shell
    Null = null
    SCHED_LV_MAX = 2
    CNT_BASE = 1
    CNT_LV0 = 9
    FastTyping = FALSE
SYMMETRY ChildSymmetry
INVARIANT HaltsOnlyWithIdleAlone
CHECK_DEADLOCK FALSE
