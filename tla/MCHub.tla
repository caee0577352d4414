------------------------------- MODULE MCHub -------------------------------
(***************************************************************************)
(* Instances of Hub for TLC: every event goes to every user.  Either two   *)
(* connections of one user, or one connection each of two users.           *)
(***************************************************************************)
EXTENDS Hub, TLC

CONSTANTS u1, u2, c1, c2

MCSameUser == [c \in Conns |-> u1]
MCTwoUsers == [c \in Conns |-> IF c = c1 THEN u1 ELSE u2]
MCTargets == [e \in 1..MaxEvents |-> Users]

Symmetry == Permutations({c1, c2})

=============================================================================
