SPECIFICATION Spec
CONSTANTS
    SensorBlocks = FALSE
    MaxDrops = 1
PROPERTY KeepsHealthySession
