------------------------------ MODULE SendPath ------------------------------
(***************************************************************************)
(* The path of a `send` frame: ws/client.go dispatch (OpSend) around       *)
(* service/chat HandleSend.  A send is identified by the msg_id that       *)
(* HandleSend generates for it; msg_ids are numbered in the order in which *)
(* dispatch accepts the frames.  The shared state is Redis (the            *)
(* idempotency keys), MySQL (messages, conversations, conversation_state)  *)
(* and the Kafka topic; everything else is local to one send.              *)
(*                                                                         *)
(* The dispatch of one connection is sequential (readPump), sends of       *)
(* different connections interleave at every call to Redis, MySQL or Kafka.*)
(* A call whose client stops waiting is not withdrawn: Redis may execute   *)
(* the command late, and the Kafka writer keeps the event it was given.    *)
(* Whether a sender is a member, and when a call fails, is nondeterminism: *)
(* membership and its cache are not state of this module.                  *)
(***************************************************************************)
EXTENDS Integers, Sequences, FiniteSets

CONSTANTS
  Users, Conns, Keys, Convs,
  UserOf,      \* [Conns -> Users]: the authenticated user of a connection
  SenderOf,    \* [Keys -> Users]: the uid in an idempotency key
  ConvOf,      \* [Keys -> Convs]: a client uses a client_msg_id for one message
  StatesOf,    \* [Convs -> SUBSET Users]: who has a conversation_state row
  MaxSends,    \* bound: send frames in a behaviour
  MaxLookups,  \* reads of the old message by a duplicate (3 in the code)
  MaxWrites,   \* bound: times the Kafka writer appends one event
  Times,       \* the values of the servers' clocks
  Faults       \* the failures this instance considers (FaultKinds)

FaultKinds == {"crash",       \* the process dies between two calls
               "setnxLost",   \* no reply to a SETNX, which Redis may still execute
               "delErr",      \* DEL does not reach Redis; DelValueByKey only logs it
               "delLost",     \* no reply to a DEL, which Redis may still execute
               "commitLost",  \* COMMIT takes effect but reports an error
               "expire"}      \* ClientMsgIDIdemTTL (24h) passes

ASSUME ConstantsAssumption ==
  /\ UserOf \in [Conns -> Users]
  /\ SenderOf \in [Keys -> Users]
  /\ ConvOf \in [Keys -> Convs]
  /\ StatesOf \in [Convs -> SUBSET Users]
  /\ MaxSends \in Nat
  /\ MaxLookups \in Nat \ {0}
  /\ MaxWrites \in Nat \ {0}
  /\ Times \subseteq Nat \ {0}
  /\ Faults \subseteq FaultKinds

Sends == 1..MaxSends
None == 0

\* A frame on a connection carries a key of that connection's user.
Requests == {r \in [conn : Conns, key : Keys] : UserOf[r.conn] = SenderOf[r.key]}

VARIABLES
  req,       \* the frames clients submit, in the order dispatch accepts them
  pc,        \* where each send is
  idem,      \* Redis: key -> msg_id of the send that claimed it, or None
  late,      \* the SETNXs and DELs no client waits for that Redis may still execute
  messages,  \* MySQL: the msg_ids with a row in messages
  at,        \* created_at stamped on each send's message, 0 before
  lastMsg,   \* MySQL: conversations.last_msg_id and last_msg_at
  unread,    \* MySQL: conversation_state.unread
  msg,       \* the msg_id HandleSend works with or returned, or None
  lookups,   \* failed reads of the old message so far
  reply,     \* what dispatch handed to sendFrame for this send
  pending,   \* the sends whose events the Kafka writers hold
  topic      \* Kafka: the msg_ids of the published ChatEvents, in order

redis == <<idem, late>>
kafka == <<pending, topic>>
mysql == <<messages, lastMsg, unread>>
vars == <<req, pc, redis, mysql, at, msg, lookups, reply, kafka>>

KeyOf(a) == req[a].key
Conv(a) == ConvOf[KeyOf(a)]

PCs == {"idle", "setnx", "get", "wait", "member", "tx", "del", "ack", "publish",
        "done", "dead"}
InFlight(a) == pc[a] \notin {"idle", "done", "dead"}
SameConn(a, b) == req[a].conn = req[b].conn

\* The server process of this send's connection is dead, and with it the connection.
Gone(a) == \E b \in Sends : SameConn(a, b) /\ pc[b] = "dead"

Goto(a, l) == pc' = [pc EXCEPT ![a] = l]

\* dispatch answers with an error frame and returns.
Fail(a) ==
  /\ reply' = [reply EXCEPT ![a] = "error"]
  /\ Goto(a, "done")

\* A conversation is created without a message, its last_msg_at the clock of the
\* server that creates it.
Init ==
  /\ req \in [Sends -> Requests]
  /\ pc = [a \in Sends |-> "idle"]
  /\ idem = [k \in Keys |-> None]
  /\ late = {}
  /\ messages = {}
  /\ at = [a \in Sends |-> 0]
  /\ lastMsg \in [Convs -> [id : {None}, at : Times]]
  /\ unread = [c \in Convs |-> [u \in Users |-> 0]]
  /\ msg = [a \in Sends |-> None]
  /\ lookups = [a \in Sends |-> 0]
  /\ reply = [a \in Sends |-> "none"]
  /\ pending = {}
  /\ topic = <<>>

\* Mutant: every frame is dispatched in a goroutine of its own.
MutAcceptConcurrent(a) ==
  /\ pc[a] = "idle"
  /\ ~Gone(a)
  /\ \A b \in Sends : b < a => pc[b] # "idle" \/ Gone(b)

\* readPump reads the next frame once dispatch of the previous one returned.
Accept(a) ==
  /\ pc[a] = "idle"
  /\ ~Gone(a)
  /\ \A b \in Sends : b < a => pc[b] # "idle" \/ Gone(b)
  /\ \A b \in Sends : SameConn(a, b) => ~InFlight(b)

\* A frame whose data does not decode or validate is refused at once.
Reject(a) ==
  /\ Accept(a)
  /\ Fail(a)
  /\ UNCHANGED <<req, redis, mysql, at, msg, lookups, kafka>>

Begin(a) ==
  /\ Accept(a)
  /\ Goto(a, "setnx")
  /\ UNCHANGED <<req, redis, mysql, at, msg, lookups, reply, kafka>>

\* Mutant: SET instead of SETNX.
MutClaimSet(a) ==
  /\ pc[a] = "setnx"
  /\ idem' = [idem EXCEPT ![KeyOf(a)] = a]
  /\ Goto(a, "member")
  /\ UNCHANGED <<req, late, mysql, at, msg, lookups, reply, kafka>>

\* SETNX key msgID succeeds: this send owns the key.
Claim(a) ==
  /\ pc[a] = "setnx"
  /\ idem[KeyOf(a)] = None
  /\ idem' = [idem EXCEPT ![KeyOf(a)] = a]
  /\ Goto(a, "member")
  /\ UNCHANGED <<req, late, mysql, at, msg, lookups, reply, kafka>>

\* SETNX finds the key taken.
Taken(a) ==
  /\ pc[a] = "setnx"
  /\ idem[KeyOf(a)] # None
  /\ Goto(a, "get")
  /\ UNCHANGED <<req, redis, mysql, at, msg, lookups, reply, kafka>>

\* Mutant: an error of SETNX is cleaned up with a DEL like the later ones.
MutSetNXErrorDel(a) ==
  /\ pc[a] = "setnx"
  /\ Goto(a, "del")
  /\ UNCHANGED <<req, redis, mysql, at, msg, lookups, reply, kafka>>

\* SETNX reports an error: HandleSend returns it and leaves the key alone.
SetNXError(a) ==
  /\ pc[a] = "setnx"
  /\ Fail(a)
  /\ UNCHANGED <<req, redis, mysql, at, msg, lookups, kafka>>

\* No reply to a SETNX: it is reported as an error, or the Redis client sends it
\* again, and either way Redis may still execute the first one.
SetNXLost(a) ==
  /\ "setnxLost" \in Faults
  /\ pc[a] = "setnx"
  /\ late' = late \cup {<<"setnx", a>>}
  /\ Fail(a) \/ UNCHANGED <<pc, reply>>
  /\ UNCHANGED <<req, idem, mysql, at, msg, lookups, kafka>>

\* A duplicate reads which msg_id holds the key: none if it was released since.
ReadKey(a) ==
  /\ pc[a] = "get"
  /\ IF idem[KeyOf(a)] = None
     THEN Fail(a) /\ UNCHANGED msg
     ELSE /\ msg' = [msg EXCEPT ![a] = idem[KeyOf(a)]]
          /\ Goto(a, "wait")
          /\ UNCHANGED reply
  /\ UNCHANGED <<req, redis, mysql, at, lookups, kafka>>

ReadKeyError(a) ==
  /\ pc[a] = "get"
  /\ Fail(a)
  /\ UNCHANGED <<req, redis, mysql, at, msg, lookups, kafka>>

\* Mutant: a duplicate is acknowledged with the claimed msg_id without looking it up.
MutLookupSkipped(a) ==
  /\ pc[a] = "wait"
  /\ Goto(a, "ack")
  /\ UNCHANGED <<req, redis, mysql, at, msg, lookups, reply, kafka>>

\* waitExistingMsgData: look for the old message, MaxLookups times at most.
LookupHit(a) ==
  /\ pc[a] = "wait"
  /\ msg[a] \in messages
  /\ Goto(a, "ack")
  /\ UNCHANGED <<req, redis, mysql, at, msg, lookups, reply, kafka>>

\* Mutant: one lookup too many.
MutLookupMissMore(a) ==
  /\ pc[a] = "wait"
  /\ msg[a] \notin messages
  /\ lookups' = [lookups EXCEPT ![a] = @ + 1]
  /\ IF lookups'[a] > MaxLookups
     THEN Fail(a)
     ELSE UNCHANGED <<pc, reply>>
  /\ UNCHANGED <<req, redis, mysql, at, msg, kafka>>

LookupMiss(a) ==
  /\ pc[a] = "wait"
  /\ msg[a] \notin messages
  /\ lookups' = [lookups EXCEPT ![a] = @ + 1]
  /\ IF lookups'[a] = MaxLookups
     THEN Fail(a)
     ELSE UNCHANGED <<pc, reply>>
  /\ UNCHANGED <<req, redis, mysql, at, msg, kafka>>

\* The read fails, or the 5s of sendHandleWait are over.
LookupError(a) ==
  /\ pc[a] = "wait"
  /\ Fail(a)
  /\ UNCHANGED <<req, redis, mysql, at, msg, lookups, kafka>>

\* IsMember says yes; the message is built with the server's time.
CheckMember(a) ==
  /\ pc[a] = "member"
  /\ \E t \in Times : at' = [at EXCEPT ![a] = t]
  /\ msg' = [msg EXCEPT ![a] = a]
  /\ Goto(a, "tx")
  /\ UNCHANGED <<req, redis, mysql, lookups, reply, kafka>>

\* IsMember says no or fails: the key is given back next.
NotMember(a) ==
  /\ pc[a] = "member"
  /\ Goto(a, "del")
  /\ UNCHANGED <<req, redis, mysql, at, msg, lookups, reply, kafka>>

\* Mutant: last_msg_* is overwritten whatever the newer message it names.
MutWriteRowsUnguarded(a) ==
  /\ messages' = messages \cup {a}
  /\ lastMsg' = [lastMsg EXCEPT ![Conv(a)] = [id |-> a, at |-> at[a]]]
  /\ unread' = [unread EXCEPT ![Conv(a)] =
                  [u \in Users |-> IF u \in StatesOf[Conv(a)] \ {SenderOf[KeyOf(a)]}
                                   THEN @[u] + 1 ELSE @[u]]]

\* What COMMIT makes visible: the message, the conversation's last message unless
\* that one is newer, and one more unread message for every other participant.
WriteRows(a) ==
  /\ messages' = messages \cup {a}
  /\ lastMsg' = IF lastMsg[Conv(a)].at <= at[a]
                THEN [lastMsg EXCEPT ![Conv(a)] = [id |-> a, at |-> at[a]]]
                ELSE lastMsg
  /\ unread' = [unread EXCEPT ![Conv(a)] =
                  [u \in Users |-> IF u \in StatesOf[Conv(a)] \ {SenderOf[KeyOf(a)]}
                                   THEN @[u] + 1 ELSE @[u]]]

\* Mutant: the event is published before the ackok.
MutCommitPublishFirst(a) ==
  /\ pc[a] = "tx"
  /\ WriteRows(a)
  /\ Goto(a, "publish")
  /\ UNCHANGED <<req, redis, at, msg, lookups, reply, kafka>>

Commit(a) ==
  /\ pc[a] = "tx"
  /\ WriteRows(a)
  /\ Goto(a, "ack")
  /\ UNCHANGED <<req, redis, at, msg, lookups, reply, kafka>>

\* Mutant: a failed transaction returns without giving the key back.
MutRollbackNoDel(a) ==
  /\ pc[a] = "tx"
  /\ Fail(a)
  /\ UNCHANGED <<req, redis, mysql, at, msg, lookups, kafka>>

Rollback(a) ==
  /\ pc[a] = "tx"
  /\ Goto(a, "del")
  /\ UNCHANGED <<req, redis, mysql, at, msg, lookups, reply, kafka>>

CommitLost(a) ==
  /\ "commitLost" \in Faults
  /\ pc[a] = "tx"
  /\ WriteRows(a)
  /\ Goto(a, "del")
  /\ UNCHANGED <<req, redis, at, msg, lookups, reply, kafka>>

\* The failed owner gives the key back and answers with the error.
Release(a) ==
  /\ pc[a] = "del"
  /\ idem' = [idem EXCEPT ![KeyOf(a)] = None]
  /\ Fail(a)
  /\ UNCHANGED <<req, late, mysql, at, msg, lookups, kafka>>

ReleaseError(a) ==
  /\ "delErr" \in Faults
  /\ pc[a] = "del"
  /\ Fail(a)
  /\ UNCHANGED <<req, redis, mysql, at, msg, lookups, kafka>>

\* No reply to a DEL: the Redis client gives up or sends it again, and either way
\* Redis may still execute the first one.
ReleaseLost(a) ==
  /\ "delLost" \in Faults
  /\ pc[a] = "del"
  /\ late' = late \cup {<<"del", a>>}
  /\ Fail(a) \/ UNCHANGED <<pc, reply>>
  /\ UNCHANGED <<req, idem, mysql, at, msg, lookups, kafka>>

\* Redis executes a command that no client waits for any more.
LateSetNX(a) ==
  /\ <<"setnx", a>> \in late
  /\ idem' = [idem EXCEPT ![KeyOf(a)] = IF @ = None THEN a ELSE @]
  /\ late' = late \ {<<"setnx", a>>}
  /\ UNCHANGED <<req, pc, mysql, at, msg, lookups, reply, kafka>>

LateDel(a) ==
  /\ <<"del", a>> \in late
  /\ idem' = [idem EXCEPT ![KeyOf(a)] = None]
  /\ late' = late \ {<<"del", a>>}
  /\ UNCHANGED <<req, pc, mysql, at, msg, lookups, reply, kafka>>

\* Mutant: duplicates go on to publish too (no early return on !created).
MutAckAlwaysPublish(a) ==
  /\ pc[a] = "ack"
  /\ reply' = [reply EXCEPT ![a] = "ackok"]
  /\ Goto(a, "publish")
  /\ UNCHANGED <<req, redis, mysql, at, msg, lookups, kafka>>

\* dispatch acknowledges; only the send that created the message goes on to publish.
Ack(a) ==
  /\ pc[a] = "ack"
  /\ reply' = [reply EXCEPT ![a] = "ackok"]
  /\ Goto(a, IF msg[a] = a THEN "publish" ELSE "done")
  /\ UNCHANGED <<req, redis, mysql, at, msg, lookups, kafka>>

Copies(m) == Cardinality({i \in DOMAIN topic : topic[i] = m})

\* WriteMessages hands the event to the writer, and waits until it is written or the
\* 5s of sendHandleWait are over, of which any part may be left: dispatch returns at
\* any time after this, and the writer keeps what it has.
Publish(a) ==
  /\ pc[a] = "publish"
  /\ pending' = pending \cup {a}
  /\ Goto(a, "done")
  /\ UNCHANGED <<req, redis, mysql, at, msg, lookups, reply, topic>>

\* ListMembers, marshalFrame or Publish fails (the bus may be closed) before the writer
\* has the event: dispatch logs it and returns.
PublishError(a) ==
  /\ pc[a] = "publish"
  /\ Goto(a, "done")
  /\ UNCHANGED <<req, redis, mysql, at, msg, lookups, reply, kafka>>

\* The events of one conversation go to one partition, and the writer of a process
\* sends the batches of a partition one after the other.
Before(a) == {b \in pending : SameConn(a, b) /\ Conv(a) = Conv(b) /\ b < a}

\* The writer appends the event, if its process lives that long; it has given up what
\* it still held before it.  When Kafka's acknowledgement is lost it may append the
\* event again.
AppendEvent(a) ==
  /\ a \in pending
  /\ topic' = Append(topic, msg[a])
  /\ \/ pending' = pending \ (Before(a) \cup {a})
     \/ Copies(msg[a]) + 1 < MaxWrites /\ pending' = pending \ Before(a)
  /\ UNCHANGED <<req, pc, redis, mysql, at, msg, lookups, reply>>

\* The server process running this send dies; a process that runs several sends
\* dies in as many consecutive steps.
Crash(a) ==
  /\ "crash" \in Faults
  /\ InFlight(a)
  /\ Goto(a, "dead")
  /\ UNCHANGED <<req, redis, mysql, at, msg, lookups, reply, kafka>>

\* 24 hours pass: far longer than a send, so none that uses the key is running.
Expire(k) ==
  /\ "expire" \in Faults
  /\ idem[k] # None
  /\ \A a \in Sends : KeyOf(a) = k => ~InFlight(a)
  /\ idem' = [idem EXCEPT ![k] = None]
  /\ UNCHANGED <<req, pc, late, mysql, at, msg, lookups, reply, kafka>>

Step(a) ==
  \/ Reject(a) \/ Begin(a)
  \/ Claim(a) \/ Taken(a) \/ SetNXError(a) \/ SetNXLost(a)
  \/ ReadKey(a) \/ ReadKeyError(a)
  \/ LookupHit(a) \/ LookupMiss(a) \/ LookupError(a)
  \/ CheckMember(a) \/ NotMember(a)
  \/ Commit(a) \/ Rollback(a) \/ CommitLost(a)
  \/ Release(a) \/ ReleaseError(a) \/ ReleaseLost(a)
  \/ Ack(a) \/ Publish(a) \/ PublishError(a)

\* What Redis and the Kafka writer do on their own.
Background(a) == LateSetNX(a) \/ LateDel(a) \/ AppendEvent(a)

\* Every frame was submitted, or its connection is gone, and every send is over.
Finished ==
  /\ \A a \in Sends : pc[a] \in {"done", "dead"} \/ (pc[a] = "idle" /\ Gone(a))
  /\ UNCHANGED vars

Next ==
  \/ \E a \in Sends : Step(a) \/ Background(a) \/ Crash(a)
  \/ \E k \in Keys : Expire(k)
  \/ Finished

Spec == Init /\ [][Next]_vars

\* dispatch runs to its end: every call it makes returns or times out.
Fairness == \A a \in Sends : WF_vars(Step(a))
FairSpec == Spec /\ Fairness

-----------------------------------------------------------------------------
(* Properties *)

\* Types of the variables of the send path.
TypeOK ==
  /\ req \in [Sends -> Requests]
  /\ pc \in [Sends -> PCs]
  /\ idem \in [Keys -> Sends \cup {None}]
  /\ late \subseteq {"setnx", "del"} \X Sends
  /\ messages \subseteq Sends
  /\ at \in [Sends -> Times \cup {0}]
  /\ lastMsg \in [Convs -> [id : Sends \cup {None}, at : Times \cup {0}]]
  /\ unread \in [Convs -> [Users -> Nat]]
  /\ msg \in [Sends -> Sends \cup {None}]
  /\ lookups \in [Sends -> 0..MaxLookups]
  /\ reply \in [Sends -> {"none", "ackok", "error"}]
  /\ pending \subseteq Sends
  /\ topic \in Seq(Sends)

\* A client message is stored at most once, whatever retries, concurrent duplicates,
\* crashes, SETNXs executed late and DELs that fail its sends met (HandleSend's SETNX
\* claim).  It needs COMMIT to report what it did, the key to outlive the client's
\* retries, and no DEL to be executed again after the one that was answered.
AtMostOnce ==
  \A m, n \in messages : KeyOf(m) = KeyOf(n) => m = n

\* An ackok, to the first send or to a duplicate, names a stored message of that very
\* client_msg_id: the client may replace its draft by it (dispatch, ackok).
AckNamesStored ==
  \A a \in Sends : reply[a] = "ackok" =>
    msg[a] \in messages /\ KeyOf(msg[a]) = KeyOf(a)

\* The key of a stored message stays claimed by that message, so that every later
\* retry is recognised: no failing send deletes a key that another one owns by now
\* (DelValueByKey deletes whatever the key holds).  It needs what AtMostOnce needs: a
\* DEL that Redis executes late deletes whatever the key holds then.
StoredKeepsKey ==
  \A m \in messages : idem[KeyOf(m)] = m

\* The messages of one connection to one conversation are published in the order the
\* connection sent them, though the writer may hold an event that dispatch no longer
\* waits for, and may append one event twice.  Between conversations it does not hold.
ConnectionOrder ==
  \A i, j \in DOMAIN topic :
    /\ i < j
    /\ SameConn(topic[i], topic[j])
    /\ Conv(topic[i]) = Conv(topic[j])
    => topic[i] <= topic[j]

\* Only messages that are stored and acknowledged reach the topic, and each is published
\* by its own send only: a retry that finds the message published or not never
\* publishes it again (dispatch's created flag).
PublishedOnce ==
  /\ \A i \in DOMAIN topic : topic[i] \in messages /\ reply[topic[i]] = "ackok"
  /\ \A m \in messages : Copies(m) <= MaxWrites

\* The conversation rows agree with the messages whatever the order in which
\* concurrent transactions commit: last_msg_at is never older than a message, and
\* last_msg_id names the message with that time; none is named only while all are older
\* than the conversation by their servers' clocks.  A participant's unread count is the
\* number of messages of the others (UpdateLastMsgTx's guard, IncrUnreadExceptTx).
RowsMatchMessages ==
  \A c \in Convs :
    LET mine == {m \in messages : Conv(m) = c}
    IN  /\ \A m \in mine : at[m] <= lastMsg[c].at
        /\ IF lastMsg[c].id = None
           THEN \A m \in mine : at[m] < lastMsg[c].at
           ELSE lastMsg[c].id \in mine /\ at[lastMsg[c].id] = lastMsg[c].at
        /\ \A u \in StatesOf[c] :
             unread[c][u] = Cardinality({m \in mine : SenderOf[KeyOf(m)] # u})

\* A claimed key is resolved: the claim is given back or its message is stored, unless
\* the DEL that gives it back is on its way for ever.  So a client that retries is not
\* refused until the key expires.  It holds without the faults crash, setnxLost and
\* delErr: after one of them nobody may give the key back for 24 hours.
KeyResolved ==
  LET Open(k) == idem[k] # None /\ idem[k] \notin messages
      Leaving(k) == \E a \in Sends : KeyOf(a) = k /\ <<"del", a>> \in late
  IN  \A k \in Keys : Open(k) ~> (~Open(k) \/ Leaving(k))

-----------------------------------------------------------------------------
(* What SendPath implements *)

storedBar == [k \in Keys |-> {m \in messages : KeyOf(m) = k}]
ackedBar == {p \in Keys \X Sends :
               \E a \in Sends : reply[a] = "ackok" /\ p = <<KeyOf(a), msg[a]>>}
publishedBar == {topic[i] : i \in DOMAIN topic}

Abstract == INSTANCE SendOnce WITH
  Ids <- Sends, stored <- storedBar, acked <- ackedBar, published <- publishedBar

\* The send path implements SendOnce: stored once, acknowledged when stored,
\* published when acknowledged.
ImplementsSendOnce == Abstract!Spec

=============================================================================
