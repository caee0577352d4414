\* One group; crashes, failed DELs and failed transactions.
SPECIFICATION Spec
CONSTANTS
  g = g
  Users = {1, 2, 3, 4}
  Existing = {1, 2, 3}
  Convs = {g}
  Plans <- MCPlans
  MaxReqs = 4
  MaxOpenConns = 2
  Faults = {"crash", "delErr", "dbErr"}
INVARIANTS
  TypeOK
  StatesMatchMembers
  CachedWasCommitted
  UnreadBounded
PROPERTIES
  NoLostUpdate
  CacheConverges
  RequestsEnd
