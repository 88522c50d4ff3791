SPECIFICATION MCRestartSpec
CONSTANTS
  C = C
  S = S
  Cid <- MCCid
  NewCid = 7
  Reconnect = FALSE
  NetCap = 2
  MaxMsgs <- MCMaxMsgs
  MaxFaults = 0
  Silence = 1
  Client = {c1}
  Datagram = {d1}
  Nobody = Nobody
INVARIANT SameConversation
CHECK_DEADLOCK FALSE
