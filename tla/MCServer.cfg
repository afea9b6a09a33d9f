CONSTANTS
    gAppMaxConnections_c = 2
    CanRunOutOfMemory = FALSE
    MaxPending = 3
SPECIFICATION FairSpec
INVARIANTS MessagesAreSignalled TimersFollowPeers SubscribersAreKnown PeersCatchUp NotificationsCatchUp AdvOnCatchesUp AdvertisingIsTimed
PROPERTIES DisconnectResumesAdvertising AdvertisingEnds
