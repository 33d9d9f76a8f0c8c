\* Two peers, with fairness.
CONSTANTS
  c1 = c1  c2 = c2  c3 = c3
  Conns = {c1, c2}
  Keys = {"a", "b"}
  HelloOf <- Pair
  FleetToken = "token"
  CodeNet <- MCCodeNet
  QCap = 2
  Frames <- PairFrames
  MaxFrames = 1
  Leavers = {c1}
SPECIFICATION FairSpec
INVARIANTS Attended
PROPERTIES DeadPeerRemoved EvictedClosed
\* A wedged hub, a crashed handler, or a peer out of frames stops, as the code does.
CHECK_DEADLOCK FALSE
