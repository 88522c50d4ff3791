SPECIFICATION MCSpec
CONSTANTS
  PortLimit = 11
  FieldWord = 9
  MaxU = 48
  max_header_size = 24
  MaxBody = 2
  Types = {"HTTP_BOTH"}
  Answers = {0, 1, 2, 3}
  StartLines <- MCStartLines
  HeaderLines <- MCHeaderLines
  ChunkLines <- MCChunkLines
INVARIANTS CallbacksFaithful MessageAsSaid UrlRoundTrip UrlParsersAgree
PROPERTY NothingAfterClose
CHECK_DEADLOCK FALSE
