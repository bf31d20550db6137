SPECIFICATION FairSpec
CONSTANTS
    DefaultPeriod = 1000
    MinPeriod = 100
    Requests = {0, 1000}
    MaxLines = 3
    MaxResets = 1
INVARIANT TypeOK
INVARIANT ClearForgets
INVARIANT NoWaiterLost
PROPERTY BootKeepsLog
PROPERTY PeriodApplied
