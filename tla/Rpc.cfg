SPECIFICATION FairSpec
CONSTANTS
    Calls = {c1, c2}
    Tries = 3
    Points = 3
    Capacity = 2
INVARIANT TypeOK
INVARIANT CompleteStream
PROPERTY ImplementsContract
PROPERTY TrackersEnd
PROPERTY StartupSettles
