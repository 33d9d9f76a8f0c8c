\* A key that comes back in another network, and another peer.
CONSTANTS
  c1 = c1  c2 = c2  c3 = c3
  Conns = {c1, c2, c3}
  Keys = {"a", "b"}
  HelloOf <- Moving
  FleetToken = "token"
  CodeNet <- MCCodeNet
  QCap = 2
  Frames <- MovingFrames
  MaxFrames = 1
  Leavers = {c1}
SPECIFICATION Spec
INVARIANTS TypeOK RosterFresh RegisteredOpen NetworkIsolation
PROPERTIES StopsOnlyFull RelayFirst PunchPaired RegistrationEnds
\* A wedged hub, a crashed handler, or a peer out of frames stops, as the code does.
CHECK_DEADLOCK FALSE
