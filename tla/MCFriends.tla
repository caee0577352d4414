----------------------------- MODULE MCFriends ------------------------------
(***************************************************************************)
(* An instance of Friends for TLC: 1 and 2 apply to each other, and up to  *)
(* three more requests accept or reject the applications, open the chat or *)
(* apply to someone else.  The plans are the multisets of three: which     *)
(* request has which number makes no difference.                           *)
(***************************************************************************)
EXTENDS Friends, Sequences, TLC

Ask(op, by, peer, id) == [op |-> op, by |-> by, peer |-> peer, id |-> id]

Menu == << Ask("accept", 2, 2, 1), Ask("reject", 2, 2, 1), Ask("accept", 1, 1, 2),
           Ask("accept", 1, 1, 1), Ask("open", 1, 2, 1), Ask("open", 2, 1, 1),
           Ask("open", 1, 1, 1), Ask("apply", 1, 3, 1), Ask("apply", 2, 4, 1) >>

MCPlans ==
  { [r \in Reqs |-> CASE r = 1 -> Ask("apply", 1, 2, 1)
                      [] r = 2 -> Ask("apply", 2, 1, 1)
                      [] OTHER -> Menu[p[r]]] :
      p \in {q \in [3..MaxReqs -> 1..Len(Menu)] : \A i, j \in 3..MaxReqs : i < j => q[i] <= q[j]} }

=============================================================================
