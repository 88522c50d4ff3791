SPECIFICATION FramingSpec
CONSTANTS
    kReadBufferSize = 6
    HeadSize = 3
    LengthSize = 2
    LengthWord = 16
    MaxLength = 7
    N = 3
    Garbage = {0, 4, 10, 13, 14}
INVARIANT SampleSessionWhole
CHECK_DEADLOCK FALSE
