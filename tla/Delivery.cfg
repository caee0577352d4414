\* Pages below the cap; restarts, failing publications, events written twice.
SPECIFICATION Spec
CONSTANTS
  s1 = s1  s2 = s2  c1 = c1  NoInstance = NoInstance
  Instances = {s1}
  Clients = {c1}
  MaxMsgs = 2
  MaxCopies = 2
  Limits = {0}
  Default = 1
  Cap = 2
  Faults = {"crash", "publishErr", "newGroup"}
INVARIANTS
  TypeOK
  CaughtUp
  HistoryComplete
PROPERTY
  Delivered
CHECK_DEADLOCK FALSE
