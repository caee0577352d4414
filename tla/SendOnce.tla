------------------------------ MODULE SendOnce ------------------------------
(***************************************************************************)
(* What the send path promises to a client, with no mechanism: a message   *)
(* is stored at most once per client_msg_id, an ackok names exactly that   *)
(* message, and only an acknowledged message is ever published for fan-out.*)
(* SendPath implements this specification (see SendPath!Abstract).         *)
(***************************************************************************)
CONSTANTS Keys,    \* idempotency keys: one per (uid, client_msg_id)
          Ids      \* msg_ids the server may generate

VARIABLES stored,    \* stored[k]: the set of msg_ids stored for key k
          acked,     \* pairs <<k, m>>: an ackok for k named message m
          published  \* msg_ids handed to the fan-out topic

vars == <<stored, acked, published>>

TypeOK ==
  /\ stored \in [Keys -> SUBSET Ids]
  /\ acked \subseteq Keys \X Ids
  /\ published \subseteq Ids

Init ==
  /\ stored = [k \in Keys |-> {}]
  /\ acked = {}
  /\ published = {}

\* The first successful send of a client message stores it under a fresh id.
Store(k, m) ==
  /\ stored[k] = {}
  /\ \A j \in Keys : m \notin stored[j]
  /\ stored' = [stored EXCEPT ![k] = {m}]
  /\ UNCHANGED <<acked, published>>

\* Any send of it, first or repeated, may then be acknowledged.
Ack(k, m) ==
  /\ m \in stored[k]
  /\ acked' = acked \cup {<<k, m>>}
  /\ UNCHANGED <<stored, published>>

\* An acknowledged message may be published.
Publish(k, m) ==
  /\ <<k, m>> \in acked
  /\ published' = published \cup {m}
  /\ UNCHANGED <<stored, acked>>

Next == \E k \in Keys, m \in Ids : Store(k, m) \/ Ack(k, m) \/ Publish(k, m)

Spec == Init /\ [][Next]_vars

=============================================================================
