SPECIFICATION FairSpec
CONSTANTS
    i1 = i1
    i2 = i2
    Inputs <- MCInputs
    AcceptCertificates = FALSE
    ServerAsks = {"certificate", "authenticate"}
    PipeCapacity = 2
    MaxEvents = 2
    MaxAsks = 2
    MaxResizes = 1
CHECK_DEADLOCK FALSE
PROPERTY UIWaitEnds
