\* Two users apply to each other; transactions fail, COMMIT replies are lost.
SPECIFICATION Spec
CONSTANTS
  Users = {1, 2, 3, 4}
  Existing = {1, 2, 4}
  Blocked = {{2, 4}}
  MaxReqs = 5
  Plans <- MCPlans
  Faults = {"rollback", "commitLost"}
INVARIANTS
  TypeOK
  FriendsCanChat
  OneOutcome
  SameConversation
