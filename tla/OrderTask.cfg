SPECIFICATION FairSpec
CONSTANTS
    NumThreads = 3
    ArrayLen = 3
INVARIANT NobodyWaits
PROPERTY PrintsInOrder
PROPERTY SequenceRepeats
CHECK_DEADLOCK FALSE
