SPECIFICATION Spec
CONSTANTS
    Senders = {s1, s2}
    SyncSenders = {}
    NoThread = NoThread
    Reconnect = FALSE
    MayForce = FALSE
    MaxUnits = 2
    MaxConnects = 1
    MaxCloses = 1
CHECK_DEADLOCK FALSE
INVARIANT WireInOrder
