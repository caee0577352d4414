\* One registered user and two new addresses; every call may fail.
SPECIFICATION Spec
CONSTANTS
  Emails = {1, 2, 3}
  Registered = {1}
  MaxReqs = 4
  MaxHits = 1
  Plans <- MCPlans
  Faults = {"mailErr", "redisErr", "dbErr"}
INVARIANTS
  TypeOK
  MailboxIsOwn
  LoggedOutStaysOut
  SpentOnce
  UsableIsListed
