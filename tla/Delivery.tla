------------------------------ MODULE Delivery ------------------------------
(***************************************************************************)
(* How the messages of one conversation reach a client: sends store and    *)
(* publish them (bus.KafkaBus.Publish), the consumer of every server       *)
(* instance hands the events to its hub (KafkaBus.Run, Hub.HandleEvent),   *)
(* and a client that connects reads what it missed from the history page   *)
(* by page (GetHistoryMessageByID, ListMessageByConvID).  Instances start, *)
(* shut down (main, CloseHub, KafkaBus.Close), crash and start again.      *)
(*                                                                         *)
(* The events of one conversation are in one partition: topic.  Here the   *)
(* hub is the set of events that were handed to it and are not yet in the  *)
(* connections' buffers; its channels, and connections it drops, are in    *)
(* Hub, the sends before their transaction in SendPath.                    *)
(***************************************************************************)
EXTENDS Naturals, Sequences, FiniteSets

CONSTANTS
  Instances, Clients,
  NoInstance,  \* where a client is that is not connected
  MaxMsgs,     \* bound: messages; their numbers are their ids
  MaxCopies,   \* bound: times the Kafka writer appends one event
  Limits,      \* the page sizes clients ask for
  Default,     \* page size when none is asked for (20)
  Cap,         \* largest page (100), in the service and again in the DAO
  Faults       \* the circumstances this instance considers (FaultKinds)

FaultKinds == {"crash",      \* a server process dies
               "publishErr", \* WriteMessages fails, or gives up what the writer still has
               "newGroup"}   \* a consumer group that never committed an offset

ASSUME ConstantsAssumption ==
  /\ NoInstance \notin Instances
  /\ MaxMsgs \in Nat
  /\ MaxCopies \in Nat \ {0}
  /\ Limits \subseteq Nat
  /\ Default \in 1..Cap /\ Cap \in Nat \ {0}
  /\ Faults \subseteq FaultKinds

Msgs == 1..MaxMsgs
None == 0

VARIABLES
  stage,   \* where the send of each message is
  via,     \* the instance that runs it
  topic,   \* Kafka: the events of the conversation, each the id of its message
  phase,   \* the server process of each instance
  joined,  \* whether its consumer has got the partition
  pos,     \* the place in topic it fetches next
  offset,  \* Kafka: the place its group committed, None before the first commit
  base,    \* history: where the consumer of a new group began, else None
  inHub,   \* the places in topic whose events are in its hub
  conn,    \* the instance each client is connected to, or NoInstance
  reg,     \* whether the hub has registered that connection
  paging,  \* its reading of the history: "no", "more" or "done"
  before,  \* its cursor, before_id
  limit,   \* its page size
  wanted,  \* history: the messages stored when it read its first page
  got,     \* the messages it was given since it connected
  early    \* history: those its hub handled after its first page and before it was registered

sends == <<stage, via>>
consumers == <<joined, pos, offset, base, inHub>>
pages == <<paging, before, limit, wanted>>
clients == <<conn, reg, pages, got, early>>
vars == <<sends, topic, phase, consumers, clients>>

Stages == {"new", "tx", "stored", "checked", "late", "published", "lost", "dead"}

\* messages: the rows visible to queries.
Stored == {m \in Msgs : stage[m] \in {"stored", "checked", "late", "published", "lost"}}
Running(i) == phase[i] # "down"

Init ==
  /\ stage = [m \in Msgs |-> "new"]
  /\ via \in [Msgs -> Instances]
  /\ topic = <<>>
  /\ phase = [i \in Instances |-> "run"]
  /\ joined = [i \in Instances |-> FALSE]
  /\ pos = [i \in Instances |-> 1]
  /\ offset \in [Instances -> IF "newGroup" \in Faults THEN {None, 1} ELSE {1}]
  /\ base = [i \in Instances |-> None]
  /\ inHub = [i \in Instances |-> {}]
  /\ conn = [c \in Clients |-> NoInstance]
  /\ reg = [c \in Clients |-> FALSE]
  /\ paging = [c \in Clients |-> "no"]
  /\ before = [c \in Clients |-> 0]
  /\ limit = [c \in Clients |-> Default]
  /\ wanted = [c \in Clients |-> {}]
  /\ got = [c \in Clients |-> {}]
  /\ early = [c \in Clients |-> {}]

-----------------------------------------------------------------------------
(* Sends, from the INSERT on; dispatch goes on while the instance shuts down *)

At(m, from, to) == stage[m] = from /\ stage' = [stage EXCEPT ![m] = to]

\* INSERT draws the next id; the transactions may commit in any order.
Insert(m) ==
  /\ At(m, "new", "tx")
  /\ \A n \in Msgs : n < m => stage[n] # "new"
  /\ Running(via[m])
  /\ UNCHANGED <<via, topic, phase, consumers, clients>>

EndTx(m) ==
  /\ At(m, "tx", "stored") \/ At(m, "tx", "dead")
  /\ UNCHANGED <<via, topic, phase, consumers, clients>>

\* Publish reads closed under its lock; WriteMessages comes after.
CheckClosed(m) ==
  /\ At(m, "stored", IF phase[via[m]] = "run" THEN "checked" ELSE "lost")
  /\ UNCHANGED <<via, topic, phase, consumers, clients>>

Copies(m) == Cardinality({k \in DOMAIN topic : topic[k] = m})

\* WriteMessages appends the event, once more when the acknowledgement got lost.
Write(m) ==
  /\ phase[via[m]] # "closed"
  /\ \/ At(m, "checked", "published")
     \/ At(m, "checked", "checked") /\ Copies(m) + 1 < MaxCopies
  /\ topic' = Append(topic, m)
  /\ UNCHANGED <<via, phase, consumers, clients>>

\* The writer is closed, or the write fails: dispatch logs it.  A call that its context
\* ends does not take the event back from the writer.
WriteFails(m) ==
  /\ \/ phase[via[m]] = "closed" /\ At(m, "checked", "lost")
     \/ "publishErr" \in Faults /\ At(m, "checked", "late")
  /\ UNCHANGED <<via, topic, phase, consumers, clients>>

\* The event is appended after all, by the writer or by a request it had sent.
LateWrite(m) ==
  /\ At(m, "late", "published")
  /\ topic' = Append(topic, m)
  /\ UNCHANGED <<via, phase, consumers, clients>>

SendStep(m) ==
  Insert(m) \/ EndTx(m) \/ CheckClosed(m) \/ Write(m) \/ WriteFails(m) \/ LateWrite(m)

-----------------------------------------------------------------------------
(* Consumers *)

\* Mutant: the consumer starts at the newest offset whatever its group committed.
MutJoinLast(i) ==
  /\ phase[i] = "run" /\ ~joined[i]
  /\ joined' = [joined EXCEPT ![i] = TRUE]
  /\ pos' = [pos EXCEPT ![i] = Len(topic) + 1]
  /\ base' = [base EXCEPT ![i] = None]
  /\ UNCHANGED <<sends, topic, phase, offset, inHub, clients>>

\* The group gives the partition to its only consumer, which starts at the committed
\* offset, or at the newest one (kafka.LastOffset) if there is none.
Join(i) ==
  /\ phase[i] = "run" /\ ~joined[i]
  /\ joined' = [joined EXCEPT ![i] = TRUE]
  /\ IF offset[i] = None
     THEN /\ pos' = [pos EXCEPT ![i] = Len(topic) + 1]
          /\ base' = [base EXCEPT ![i] = Len(topic) + 1]
     ELSE /\ pos' = [pos EXCEPT ![i] = offset[i]]
          /\ base' = [base EXCEPT ![i] = None]
  /\ UNCHANGED <<sends, topic, phase, offset, inHub, clients>>

Fetches(i) == joined[i] /\ phase[i] \in {"run", "closing"} /\ pos[i] \in DOMAIN topic

\* Mutant: HandleEvent drops events while the hub is busy.
MutHandleDrops(i) ==
  /\ Fetches(i)
  /\ inHub' = [inHub EXCEPT ![i] = IF inHub[i] = {} THEN {pos[i]} ELSE inHub[i]]
  /\ pos' = [pos EXCEPT ![i] = @ + 1]
  /\ UNCHANGED <<sends, topic, phase, joined, offset, base, clients>>

\* FetchMessage returns an event and onEvent puts it into the hub.
Handle(i) ==
  /\ Fetches(i)
  /\ inHub' = [inHub EXCEPT ![i] = inHub[i] \cup {pos[i]}]
  /\ pos' = [pos EXCEPT ![i] = @ + 1]
  /\ UNCHANGED <<sends, topic, phase, joined, offset, base, clients>>

\* Mutant: the offset after the next event is committed.
MutCommitNext(i) ==
  /\ joined[i] /\ phase[i] \in {"run", "closing"}
  /\ offset[i] <= pos[i]
  /\ offset' = [offset EXCEPT ![i] = pos[i] + 1]
  /\ UNCHANGED <<sends, topic, phase, joined, pos, base, inHub, clients>>

\* CommitMessages of the event handled last, before the next fetch; it may fail, and
\* after the cancellation of its context it may do either.
Commit(i) ==
  /\ joined[i] /\ phase[i] \in {"run", "closing"}
  /\ offset[i] < pos[i]
  /\ base[i] # pos[i]
  /\ offset' = [offset EXCEPT ![i] = pos[i]]
  /\ UNCHANGED <<sends, topic, phase, joined, pos, base, inHub, clients>>

\* The hub puts the event into the buffer of every registered connection.
Deliver(i, k) ==
  /\ Running(i)
  /\ k \in inHub[i]
  /\ inHub' = [inHub EXCEPT ![i] = inHub[i] \ {k}]
  /\ got' = [c \in Clients |-> IF conn[c] = i /\ reg[c] THEN got[c] \cup {topic[k]} ELSE got[c]]
  /\ early' = [c \in Clients |-> IF conn[c] = i /\ ~reg[c] /\ paging[c] # "no"
                                 THEN early[c] \cup {topic[k]} ELSE early[c]]
  /\ UNCHANGED <<sends, topic, phase, joined, pos, offset, base, conn, reg, pages>>

-----------------------------------------------------------------------------
(* Start and shutdown *)

\* The connections of these clients are gone; on the next one they begin anew.
Gone(cs) ==
  /\ conn' = [c \in Clients |-> IF c \in cs THEN NoInstance ELSE conn[c]]
  /\ reg' = [c \in Clients |-> reg[c] /\ c \notin cs]
  /\ paging' = [c \in Clients |-> IF c \in cs THEN "no" ELSE paging[c]]
  /\ before' = [c \in Clients |-> IF c \in cs THEN 0 ELSE before[c]]
  /\ limit' = [c \in Clients |-> IF c \in cs THEN Default ELSE limit[c]]
  /\ wanted' = [c \in Clients |-> IF c \in cs THEN {} ELSE wanted[c]]
  /\ got' = [c \in Clients |-> IF c \in cs THEN {} ELSE got[c]]
  /\ early' = [c \in Clients |-> IF c \in cs THEN {} ELSE early[c]]

\* The process ends: its consumer, its hub, its connections and the sends in flight.
Die(i) ==
  /\ phase' = [phase EXCEPT ![i] = "down"]
  /\ joined' = [joined EXCEPT ![i] = FALSE]
  /\ inHub' = [inHub EXCEPT ![i] = {}]
  /\ stage' = [m \in Msgs |->
       CASE via[m] = i /\ stage[m] = "tx" -> "dead"
         [] via[m] = i /\ stage[m] = "stored" -> "lost"
         [] via[m] = i /\ stage[m] = "checked" -> "late"
         [] OTHER -> stage[m]]
  /\ Gone({c \in Clients : conn[c] = i})
  /\ pos' = [pos EXCEPT ![i] = 1]
  /\ base' = [base EXCEPT ![i] = None]
  /\ UNCHANGED <<via, topic, offset>>

Crash(i) ==
  /\ "crash" \in Faults
  /\ Running(i)
  /\ Die(i)

\* A signal: Shutdown stops the listener but not the WebSockets, then Close sets closed
\* and cancels the consumer's context ...
BeginClose(i) ==
  /\ phase[i] = "run"
  /\ phase' = [phase EXCEPT ![i] = "closing"]
  /\ UNCHANGED <<sends, topic, consumers, clients>>

\* ... closes the writer and the reader, and waits for the consumer ...
CloseBus(i) ==
  /\ phase[i] = "closing"
  /\ phase' = [phase EXCEPT ![i] = "closed"]
  /\ UNCHANGED <<sends, topic, consumers, clients>>

\* ... and main returns.
Exit(i) ==
  /\ phase[i] = "closed"
  /\ Die(i)

\* InitHub: the hub and the consumer start, then the listener.
Start(i) ==
  /\ phase[i] = "down"
  /\ phase' = [phase EXCEPT ![i] = "run"]
  /\ UNCHANGED <<sends, topic, consumers, clients>>

-----------------------------------------------------------------------------
(* Clients and the history *)

Connect(c, i) ==
  /\ conn[c] = NoInstance
  /\ phase[i] = "run"
  /\ conn' = [conn EXCEPT ![c] = i]
  /\ \E n \in Limits : limit' = [limit EXCEPT ![c] = n]
  /\ UNCHANGED <<sends, topic, phase, consumers, reg, paging, before, wanted, got, early>>

\* Hub.Run takes the registration, which WSLoginHandler only put into a channel.
Registered(c) ==
  /\ conn[c] # NoInstance /\ ~reg[c]
  /\ reg' = [reg EXCEPT ![c] = TRUE]
  /\ UNCHANGED <<sends, topic, phase, consumers, conn, pages, got, early>>

\* The connection breaks, or the hub drops it because its buffer is full.
Disconnect(c) ==
  /\ conn[c] # NoInstance
  /\ Gone({c})
  /\ UNCHANGED <<sends, topic, phase, consumers>>

Clamp(n) == IF n = 0 THEN Default ELSE IF n > Cap THEN Cap ELSE n

\* ListMessageByConvID: the newest n rows with a smaller id than b, 0 for the newest.
ListMessage(b, n) ==
  LET older == {m \in Stored : b > 0 => m < b}
  IN  {m \in older : Cardinality({x \in older : x >= m}) <= Clamp(n)}

\* Mutant: the DAO is asked for exactly a page.
MutHistoryExact(b, n) ==
  [items |-> ListMessage(b, Clamp(n)), hasMore |-> FALSE, next |-> b]

\* GetHistoryMessageByID: one row more than the page tells whether there are more.
History(b, n) ==
  LET rows == ListMessage(b, Clamp(n) + 1)
      items == {m \in rows : Cardinality({x \in rows : x >= m}) <= Clamp(n)}
  IN  [items |-> items,
       hasMore |-> Cardinality(rows) > Clamp(n),
       next |-> IF items = {} THEN 0 ELSE CHOOSE m \in items : \A x \in items : m <= x]

\* A client reads the next page with the cursor of the last one, until there is no more;
\* any server whose listener is open answers.  It may begin as soon as it is connected:
\* nothing tells it that the hub has registered it.
Page(c) ==
  /\ conn[c] # NoInstance /\ paging[c] # "done"
  /\ \E i \in Instances : phase[i] = "run"
  /\ LET page == History(before[c], limit[c]) IN
     /\ got' = [got EXCEPT ![c] = got[c] \cup page.items]
     /\ before' = [before EXCEPT ![c] = page.next]
     /\ paging' = [paging EXCEPT ![c] = IF page.hasMore THEN "more" ELSE "done"]
  /\ wanted' = [wanted EXCEPT ![c] = IF paging[c] = "no" THEN Stored ELSE wanted[c]]
  /\ UNCHANGED <<sends, topic, phase, consumers, conn, reg, limit, early>>

InstanceStep(i) == Join(i) \/ Handle(i) \/ \E k \in inHub[i] : Deliver(i, k)
ClosingStep(i) == CloseBus(i) \/ Exit(i)

Next ==
  \/ \E m \in Msgs : SendStep(m)
  \/ \E i \in Instances :
       InstanceStep(i) \/ Commit(i) \/ Crash(i) \/ BeginClose(i) \/ ClosingStep(i) \/ Start(i)
  \/ \E c \in Clients :
       (\E i \in Instances : Connect(c, i)) \/ Registered(c) \/ Disconnect(c) \/ Page(c)

\* The consumer's loop, the hub, Close and the clients' paging go on; nothing makes a
\* server stop, or a client send or connect.
Fairness ==
  /\ \A i \in Instances : WF_vars(InstanceStep(i)) /\ WF_vars(ClosingStep(i))
  /\ \A c \in Clients : WF_vars(Registered(c)) /\ WF_vars(Page(c))

Spec == Init /\ [][Next]_vars /\ Fairness

-----------------------------------------------------------------------------
(* Properties *)

\* Types of the variables of the delivery.
TypeOK ==
  /\ stage \in [Msgs -> Stages]
  /\ via \in [Msgs -> Instances]
  /\ topic \in Seq(Msgs)
  /\ phase \in [Instances -> {"run", "closing", "closed", "down"}]
  /\ joined \in [Instances -> BOOLEAN]
  /\ pos \in [Instances -> 1..Len(topic) + 1]
  /\ offset \in [Instances -> 0..Len(topic) + 1]
  /\ base \in [Instances -> 0..Len(topic) + 1]
  /\ inHub \in [Instances -> SUBSET DOMAIN topic]
  /\ conn \in [Clients -> Instances \cup {NoInstance}]
  /\ reg \in [Clients -> BOOLEAN]
  /\ paging \in [Clients -> {"no", "more", "done"}]
  /\ before \in [Clients -> Msgs \cup {0}]
  /\ limit \in [Clients -> Limits \cup {Default}]
  /\ wanted \in [Clients -> SUBSET Msgs]
  /\ got \in [Clients -> SUBSET Msgs]
  /\ early \in [Clients -> SUBSET Msgs]

Ready(c) == conn[c] # NoInstance /\ paging[c] = "done"

\* The event at place k is still to come to the connections of instance i.
Coming(i, k) ==
  \/ k \in inHub[i]
  \/ k >= (IF joined[i] THEN pos[i] ELSE offset[i])

\* The consumer of a new group began after all events of m, or will.
Skipped(i, m) ==
  \A k \in DOMAIN topic : topic[k] = m => k < base[i] \/ (~joined[i] /\ offset[i] = None)

\* A client that has paged to the end of the history after it connected misses no
\* published message for good: each one it holds, or its event is still to come on this
\* connection, or a consumer group that never committed began after it, or the hub handled
\* it between the client's first page and its registration; whatever the order of commits
\* and events, redelivery, lost offset commits, late writes, shutdowns and crashes
\* (kafka.go Run and Publish, handler.go:38, Readme.md:638).
CaughtUp ==
  \A c \in Clients : Ready(c) =>
    \A m \in Msgs : stage[m] = "published" =>
      \/ m \in got[c] \cup early[c]
      \/ \E k \in DOMAIN topic : topic[k] = m /\ Coming(conn[c], k)
      \/ Skipped(conn[c], m)

\* Paging with next_before_id until has_more is false brings everything that was stored
\* when the first page was read, though messages commit with smaller and larger ids in
\* between (GetHistoryMessageByID, ListMessageByConvID).
HistoryComplete ==
  \A c \in Clients : paging[c] = "done" => wanted[c] \subseteq got[c]

\* A published message comes to every client that is connected and has read the history,
\* unless its connection ends first, its instance's group is new, or the hub handled it
\* before the client was registered (Hub.Run, KafkaBus.Run).
Delivered ==
  \A c \in Clients : \A m \in Msgs :
    (Ready(c) /\ stage[m] = "published")
      ~> (~Ready(c) \/ m \in got[c] \cup early[c] \/ Skipped(conn[c], m))

=============================================================================
