SPECIFICATION Spec
CONSTANTS
    PID_NUM = 4
    PID_CAP = 4
    BYTE = 8
    Child = {a, b}
    Idle = idle
    Shell = shell
    Null = null
    SCHED_LV_MAX = 3
    CNT_BASE = 1
    CNT_LV0 = 9
    FastTyping = TRUE
SYMMETRY ChildSymmetry
INVARIANTS
    ListsMatchStates
    CurrentRunnable
    HaltsOnlyWithoutWork
    IInv
PROPERTIES
    WokenByItsChild
    LastLevelFifo
    NoOvertaking
    ImplementsLifecycle
CHECK_DEADLOCK FALSE
