\* The broadcast channel never fills: what one connection is given, and when it ends.
SPECIFICATION FairSpec
CONSTANTS
  u1 = u1  u2 = u2  c1 = c1  c2 = c2
  Users = {u1}
  Conns = {c1}
  UserOf <- MCSameUser
  MaxEvents = 3
  Targets <- MCTargets
  MaxFrames = 2
  RegCap = 1
  UnregCap = 1
  BroadcastCap = 3
  SendCap = 1
INVARIANTS
  InOrder
  NoSilentGap
  NoPanic
PROPERTIES
  MissedIsClosed
  LeaverIsClosed
  ClosedPumpsEnd
