\* A page of exactly the cap: the row that tells whether there is more is cut off.
SPECIFICATION Spec
CONSTANTS
  s1 = s1  s2 = s2  c1 = c1  NoInstance = NoInstance
  Instances = {s1}
  Clients = {c1}
  MaxMsgs = 3
  MaxCopies = 1
  Limits = {2}
  Default = 1
  Cap = 2
  Faults = {}
INVARIANT
  HistoryComplete
CHECK_DEADLOCK FALSE
