SPECIFICATION Spec
CONSTANTS
    i1 = i1
    i2 = i2
    Inputs <- MCInputs
    AcceptCertificates = FALSE
    ServerAsks = {"certificate", "authenticate"}
    PipeCapacity = 2
    MaxEvents = 3
    MaxAsks = 2
    MaxResizes = 1
CHECK_DEADLOCK FALSE
INVARIANTS
    TypeOK
    InputsInOrder
    NothingAfterDisconnect
    CancelReachesLoop
    RefusalIsFinal
    EndReported
    ContextReleased
PROPERTIES
    KeepsContract
