CONSTANTS
    Blocks = {b1, b2, b3}
    MaxTime = 4
    CompleteBlockTimeout = 1
    MaxCrashes = 2
    MaxFailures = 2
    NoMarker = NoMarker
    Torn = Torn
SPECIFICATION FairSpec
INVARIANT TypeOK
INVARIANT NoBlockLost
INVARIANT FlushedTimePersisted
PROPERTY FlushedTimeStable
PROPERTY ImplementsLifecycle
PROPERTY EventuallyFlushed
CHECK_DEADLOCK FALSE
