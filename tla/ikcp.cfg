SPECIFICATION Spec
CONSTANTS
  A = A
  B = B
  Word = 24
  FrgMod = 8
  WndMod = 16
  SndWnd = 2
  RcvWnd = 4
  DatagramSegs = 2
  AckCap = 2
  RecvBuf = 2
  Sizes = {2, 3, 5}
  Start = {23}
  MaxMsgs <- MCMaxMsgs
  MaxFaults = 1
  NetCap = 1
INVARIANT WindowSound
PROPERTIES ImplementsChannel AllArrive
