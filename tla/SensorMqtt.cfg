SPECIFICATION ReconnectSpec
CONSTANTS
    SensorBlocks = FALSE
    MaxDrops = 2
INVARIANT FlagAccurate
INVARIANT ConnectOnlyWhenIdle
INVARIANT PublisherArmed
INVARIANT LedLitInSession
PROPERTY RefinesSession
PROPERTY DeadLinkDetected
PROPERTY SessionPublishes
PROPERTY Reconnects
