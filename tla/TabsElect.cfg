\* Three tabs that are opened, let go and closed at any time.
CONSTANTS
    Ids = {1, 2, 3}
    ElectionWait = 1
    BeatEvery = 4
    FailoverAfter = 10
SPECIFICATION FairSpec
INVARIANTS
    TypeOK
    NeverStranded
PROPERTIES
    ConnectionSettles
CHECK_DEADLOCK FALSE
