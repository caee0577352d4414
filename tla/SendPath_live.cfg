\* COMMITs that report an error, DELs without a reply, keys that expire; fair dispatch.
SPECIFICATION MC2Spec
CONSTANTS
  u1 = u1  u2 = u2  c1 = c1  c2 = c2  c3 = c3  k1 = k1  k2 = k2   v1 = v1
  Users = {u1, u2}
  Conns = {c1, c2, c3}
  Keys = {k1, k2}
  Convs = {v1}
  UserOf <- MC2UserOf
  SenderOf <- MC2SenderOf
  ConvOf <- MCConvOf
  StatesOf <- MCStatesOf
  MaxSends = 3
  MaxLookups = 2
  MaxWrites = 1
  Times = {1, 2}
  Faults = {"commitLost", "delLost", "expire"}
INVARIANT
  RowsMatchMessages
PROPERTY
  KeyResolved
