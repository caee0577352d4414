------------------------------- MODULE Fanout -------------------------------
(***************************************************************************)
(* What the hub of an instance promises to its connections, with no        *)
(* channels, buffers or goroutines: a connection is a member once; while   *)
(* it is, it may be given each event that was handed over and reaches it,  *)
(* once; and from then on it is given nothing more.  Hub implements this   *)
(* specification (see Hub!Abstract).                                       *)
(***************************************************************************)
EXTENDS Naturals, Sequences

CONSTANTS Conns,
          MaxEvents,  \* bound: events 1..MaxEvents are handed over in this order
          Reach,      \* Reach[e]: the connections of the targets of event e
          Reply       \* a frame that answers one of the connection's own

VARIABLES handed,  \* the events handed over: 1..handed
          member,  \* "new", "in" or "out", of each connection
          stream   \* the frames each connection is given, in order

vars == <<handed, member, stream>>

Init ==
  /\ handed = 0
  /\ member = [c \in Conns |-> "new"]
  /\ stream = [c \in Conns |-> <<>>]

HandOver ==
  /\ handed < MaxEvents
  /\ handed' = handed + 1
  /\ UNCHANGED <<member, stream>>

Enter(c) ==
  /\ member[c] = "new"
  /\ member' = [member EXCEPT ![c] = "in"]
  /\ UNCHANGED <<handed, stream>>

Leave(c) ==
  /\ member[c] = "in"
  /\ member' = [member EXCEPT ![c] = "out"]
  /\ UNCHANGED <<handed, stream>>

Give(c, e) ==
  /\ member[c] = "in"
  /\ c \in Reach[e]
  /\ \A i \in DOMAIN stream[c] : stream[c][i] # e
  /\ stream' = [stream EXCEPT ![c] = Append(@, e)]
  /\ UNCHANGED <<handed, member>>

\* The connection's own frames are answered before it is a member too.
Answer(c) ==
  /\ member[c] # "out"
  /\ stream' = [stream EXCEPT ![c] = Append(@, Reply)]
  /\ UNCHANGED <<handed, member>>

Next ==
  \/ HandOver
  \/ \E c \in Conns : \/ Enter(c) \/ Leave(c) \/ Answer(c)
                      \/ \E e \in 1..handed : Give(c, e)

Spec == Init /\ [][Next]_vars

=============================================================================
