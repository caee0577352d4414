\* Crashes, SETNXs that are executed late and DELs that fail.
SPECIFICATION Spec
CONSTANTS
  u1 = u1  u2 = u2  c1 = c1  c2 = c2  c3 = c3  k1 = k1  k2 = k2   v1 = v1
  Users = {u1, u2}
  Conns = {c1, c2}
  Keys = {k1, k2}
  Convs = {v1}
  UserOf <- MCUserOf
  SenderOf <- MCSenderOf
  ConvOf <- MCConvOf
  StatesOf <- MCStatesOf
  MaxSends = 3
  MaxLookups = 2
  MaxWrites = 2
  Times = {1}
  Faults = {"crash", "setnxLost", "delErr"}
SYMMETRY Symmetry
INVARIANTS
  TypeOK
  AtMostOnce
  AckNamesStored
  StoredKeepsKey
  ConnectionOrder
  PublishedOnce
PROPERTY
  ImplementsSendOnce
