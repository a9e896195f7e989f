SPECIFICATION FairSpec
CONSTANTS
    MaxSessions = 3
CHECK_DEADLOCK FALSE
INVARIANTS
    TypeOK
PROPERTY
    UnconnectedReleased
