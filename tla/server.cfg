SPECIFICATION MCSpec
CONSTANTS
  Worker = {"L", "w1", "w2", "k"}
  UserWorkers <- MCUserWorkers
  listen_worker = "L"
  worker = "k"
  Conn = {1, 2}
  AcceptThread = {t1, t2}
  MaxErrors = 1
  scene_set = {"serve", "threads", "stop"}
INVARIANT ListenerSound
PROPERTIES StopIsFinal PeersAreServed BothEndsEnd
CHECK_DEADLOCK FALSE
