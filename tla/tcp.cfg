SPECIFICATION MCSpec
CONSTANTS
    Senders = {s1, s2}
    SyncSenders = {t1}
    NoThread = NoThread
    Reconnect = TRUE
    MayForce = TRUE
    MaxUnits = 3
    MaxConnects = 3
    MaxCloses = 2
CHECK_DEADLOCK FALSE
INVARIANTS StreamKept NothingStranded UpIsRead ReleasedProperly
PROPERTIES ImplementsConnectionSpec ReleasedIsFinal SendReachesWire CloseReleases ComesBack
