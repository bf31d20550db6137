SPECIFICATION FairSpec
CONSTANTS
    BufSize = 4
    HelloLen = 2
    MaxPayload = 5
    Polls = 3
INVARIANT BufTerminated
INVARIANT FlagAccurate
INVARIANT ComposedIntact
PROPERTY RefinesSession
PROPERTY KeepaliveServed
