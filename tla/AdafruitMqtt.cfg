SPECIFICATION Spec
CONSTANTS
    MaxSockets = 2
    IdBound = 4
INVARIANT FlagTrusted
INVARIANT ConnectTellsOutcome
