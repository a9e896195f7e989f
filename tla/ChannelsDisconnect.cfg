SPECIFICATION FairSpec
CONSTANTS
    c1 = c1
    ChannelIds = {c1}
    NoStream = NoStream
    NoChannel = NoChannel
    WMQ_QUIT = WMQ_QUIT
    Zero = Zero
    QueueCapacity = 1
    MaxPdus = 3
    MaxDeviceWrites = 1
    MaxConnections = 2
INVARIANTS
    TypeOK
    PiecesTogether
    NothingFreedInUse
    LateWrites
PROPERTIES
    DisconnectEnds
    PduHandled
CHECK_DEADLOCK FALSE
