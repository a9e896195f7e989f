SPECIFICATION Spec
CONSTANTS
    MaxLaunches = 3
CHECK_DEADLOCK FALSE
INVARIANTS
    TypeOK
    HeartbeatOnScreen
    PointerIsScheduled
