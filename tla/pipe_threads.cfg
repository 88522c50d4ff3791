SPECIFICATION Spec
CONSTANTS
    Workers = 2
    MaxLinks = 2
    MaxData = 0
INVARIANT SessionIsSerial
CHECK_DEADLOCK FALSE
