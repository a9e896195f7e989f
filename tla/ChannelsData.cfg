SPECIFICATION Spec
CONSTANTS
    c1 = c1
    c2 = c2
    ChannelIds = {c1, c2}
    NoStream = NoStream
    NoChannel = NoChannel
    WMQ_QUIT = WMQ_QUIT
    Zero = Zero
    QueueCapacity = 1
    MaxPdus = 5
    MaxDeviceWrites = 0
    MaxConnections = 1
INVARIANTS
    HandledInOrder
    DeliversWhole
    CapabilitiesFirst
SYMMETRY ChannelSymmetry
CHECK_DEADLOCK FALSE
