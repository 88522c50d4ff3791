SPECIFICATION MCSpec
CONSTANTS
    Workers = 2
    MaxLinks = 2
    MaxData = 2
    kReadBufferSize = 6
    HeadSize = 3
    LengthSize = 2
    LengthWord = 16
    MaxLength = 7
    N = 3
    Garbage = {0, 4, 10, 13, 14}
INVARIANTS BoundToOne EventsInTurn UnbindsAreOpen AnswerComesFirst
INVARIANTS OneWholeMessage NothingKeptBack OnlyOversizeCloses
PROPERTIES HandshakeAnswered AllDelivered
CHECK_DEADLOCK FALSE
