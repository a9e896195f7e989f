SPECIFICATION FairSpec
CONSTANTS
    MaxMoves = 8
    MoveThreshold = 5
INVARIANTS
    TypeOK
    ModifiersAgree
    MovesThrottled
    ButtonsHeldByGesture
PROPERTIES
    MovesInOrder
    LastMoveArrives
