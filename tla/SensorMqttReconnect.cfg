SPECIFICATION ReconnectSpec
CONSTANTS
    SensorBlocks = TRUE
    MaxDrops = 1
PROPERTY Reconnects
