SPECIFICATION FairSpec
CONSTANTS
    StaticChannels <- MCStaticChannels
    BitmapCachePersistEnabled = TRUE
    MaxNested = 2
INVARIANTS
    TypeOK
    ActiveIsEarned
    FollowsSequence
PROPERTY
    AbortEndsSession
