SPECIFICATION FairSpec
CONSTANTS
    NumWorkers = 3
    Unchecked = {3}
    MaxOpen = 2
INVARIANT OneTurn
INVARIANT LineFresh
INVARIANT MutexLive
INVARIANT WholeSession
INVARIANT NoFileLeft
PROPERTY RefinesSensorLog
PROPERTY CycleCompletes
