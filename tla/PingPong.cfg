SPECIFICATION PingPongFairSpec
CONSTANT Iters = 100
INVARIANT Alternates
PROPERTY BothFinish
CHECK_DEADLOCK FALSE
