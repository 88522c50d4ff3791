SPECIFICATION MCSpec
CONSTANTS
  C = C
  S = S
  Cid <- MCCid
  NewCid = 7
  Reconnect = FALSE
  NetCap = 2
  MaxMsgs <- MCMaxMsgs
  MaxFaults = 1
  Silence = 1
  Client = {c1, c2}
  Datagram = {d1}
  Nobody = Nobody
INVARIANTS SameConversation Delivered
PROPERTIES OpeningEnds PeerNoticed EndIsFinal
CHECK_DEADLOCK FALSE
