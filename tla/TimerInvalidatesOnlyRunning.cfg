SPECIFICATION Spec
CONSTANTS
    MaxSessions = 2
CHECK_DEADLOCK FALSE
INVARIANTS
    InvalidatesOnlyRunning
