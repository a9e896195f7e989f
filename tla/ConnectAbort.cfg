SPECIFICATION FairSpec
CONSTANTS
    StaticChannels <- MCStaticChannels
    BitmapCachePersistEnabled = TRUE
    MaxNested = 0
PROPERTY
    AbortEndsConnect
