SPECIFICATION FairSpec
CONSTANTS
    Period = 6
    Work = 2
    Long = 20
    Jitter = 1
    MaxOverruns = 2
INVARIANT NeverEarly
INVARIANT NoDrift
PROPERTY LinesMadeUp
