SPECIFICATION FairSpec
CONSTANTS
    i1 = i1
    i2 = i2
    Inputs <- MCInputs
    AcceptCertificates = TRUE
    ServerAsks = {"certificate"}
    PipeCapacity = 3
    MaxEvents = 3
    MaxAsks = 1
    MaxResizes = 1
PROPERTIES
    DisconnectEnds
