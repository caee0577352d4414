------------------------------ MODULE MCGroups ------------------------------
(***************************************************************************)
(* An instance of Groups for TLC: user 1 makes a group with user 2, and up *)
(* to three of these requests run at the same time, or one of them several *)
(* times: 1 adds users 2 and 3 or the unknown user 4, 1 or 2 leaves or     *)
(* posts, 2 reads.  The plans are the multisets of three: which request    *)
(* has which number makes no difference.                                   *)
(***************************************************************************)
EXTENDS Groups, TLC

CONSTANT g

Ask(op, by, uids) == [op |-> op, by |-> by, conv |-> g, uids |-> uids]

Menu == << Ask("create", 1, {2}), Ask("add", 1, {0, 2, 3}), Ask("add", 1, {2, 4}),
           Ask("leave", 2, {}), Ask("leave", 1, {}),
           Ask("send", 1, {}), Ask("send", 2, {}), Ask("read", 2, {}) >>

MCPlans ==
  { [r \in Reqs |-> Menu[IF r = 1 THEN 1 ELSE p[r]]] :
      p \in {q \in [2..MaxReqs -> 2..Len(Menu)] : \A i, j \in 2..MaxReqs : i < j => q[i] <= q[j]} }

=============================================================================
