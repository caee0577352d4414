\* A spill sends on a channel that removeClient closed.
SPECIFICATION Spec
CONSTANTS
  u1 = u1  u2 = u2  c1 = c1  c2 = c2
  Users = {u1}
  Conns = {c1}
  UserOf <- MCSameUser
  MaxEvents = 2
  Targets <- MCTargets
  MaxFrames = 0
  RegCap = 1
  UnregCap = 1
  BroadcastCap = 1
  SendCap = 1
INVARIANT
  NoPanic
