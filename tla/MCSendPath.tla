----------------------------- MODULE MCSendPath -----------------------------
(***************************************************************************)
(* Instances of SendPath for TLC.  One: two connections of user u1 share   *)
(* two client messages of a conversation with u2.  Two: the connections    *)
(* c1, c2 of u1 share the client message k1, and u2 sends k2 on c3 into    *)
(* the same conversation.                                                  *)
(***************************************************************************)
EXTENDS SendPath, TLC

CONSTANTS u1, u2, c1, c2, c3, k1, k2, v1

MCUserOf == [c \in Conns |-> u1]
MCSenderOf == [k \in Keys |-> u1]
MCConvOf == [k \in Keys |-> v1]
MCStatesOf == [v \in Convs |-> {u1, u2}]

MC2UserOf == [c \in Conns |-> IF c = c3 THEN u2 ELSE u1]
MC2SenderOf == [k \in Keys |-> IF k = k2 THEN u2 ELSE u1]

\* Two connections submit three frames: retries of k1 on both connections of u1, or
\* beside them a frame of u2.  c1 and c2 are alike.
MC2Plans == { <<c1, c1, c2>>, <<c1, c2, c1>>, <<c1, c2, c2>>,
              <<c1, c1, c3>>, <<c1, c3, c1>>, <<c3, c1, c1>> }
MC2Init == Init /\ [a \in Sends |-> req[a].conn] \in MC2Plans
MC2Spec == MC2Init /\ [][Next]_vars /\ Fairness

Symmetry == Permutations({c1, c2}) \cup Permutations({k1, k2})

==============================================================================
