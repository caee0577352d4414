-------------------------------- MODULE Hub --------------------------------
(***************************************************************************)
(* The connection hub of one server instance: ws/hub.go, ws/client.go and  *)
(* ws/handler.go.  One goroutine (Run) owns the registry; every connection *)
(* has a handler that registers it, a readPump and a writePump; a full     *)
(* send buffer starts a goroutine that unregisters the connection (a kick);*)
(* the Kafka consumer hands events to Broadcast, which starts a goroutine  *)
(* of its own when the broadcast channel is full (a spill).                *)
(*                                                                         *)
(* Channels are sequences with a capacity; a goroutine that sends to a full*)
(* channel waits.  A step is what a goroutine does between two points where*)
(* another one can tell the difference.  removeClient deletes the entry and*)
(* closes the client under Hub.mu, and those who look at the client without*)
(* the lock see it open or closed: one step.                               *)
(***************************************************************************)
EXTENDS Integers, Sequences, FiniteSets

CONSTANTS
  Users, Conns,
  UserOf,        \* [Conns -> Users]
  MaxEvents,     \* bound: events the consumer hands over
  Targets,       \* [1..MaxEvents -> SUBSET Users]: ChatEvent.Targets
  MaxFrames,     \* bound: client frames per connection that are answered
  RegCap, UnregCap, BroadcastCap,  \* 64, 64 and 256 in NewHub
  SendCap        \* sendBufSize, 64 in the code

Events == 1..MaxEvents

ASSUME ConstantsAssumption ==
  /\ UserOf \in [Conns -> Users]
  /\ MaxEvents \in Nat /\ MaxFrames \in Nat
  /\ Targets \in [Events -> SUBSET Users]
  /\ RegCap \in Nat \ {0} /\ UnregCap \in Nat \ {0}
  /\ BroadcastCap \in Nat \ {0} /\ SendCap \in Nat \ {0}

VARIABLES
  clients,     \* Hub.clients: the registered connections
  register, unregister, broadcast,   \* the Hub's channels
  send,        \* Client.send of each connection
  closed,      \* Client.closed: its send channel and socket are closed too
  broken,      \* the peer is gone: reads and writes on the socket fail from now on
  handler,     \* WSLoginHandler: "off", "register", "done"
  reader,      \* readPump
  writer,      \* writePump
  kick,        \* kick goroutines per connection: before and after the closed check
  frames,      \* client frames still to come
  next,        \* events handed to Broadcast so far
  task,        \* what Run (0) and the spill of each event still have to deliver
  panicked,    \* a goroutine without recover panicked: the process is gone
  delivered,   \* what the socket of each connection was given, in order
  dropped      \* events that met a full send buffer, per connection

chans == <<register, unregister, broadcast>>
pumps == <<handler, reader, writer, frames>>
ghosts == <<delivered, dropped>>
vars == <<clients, chans, send, closed, broken, pumps, kick, next, task, panicked, ghosts>>

Run == 0
Reply == 0     \* a frame dispatch answers with (ackok, pong, error)
NoTask == [ev |-> 0, users |-> {}, conns |-> {}]
\* Mutant: buffers one larger than asked for.
MutHasRoomMore(ch, cap) == Len(ch) <= cap

HasRoom(ch, cap) == Len(ch) < cap

\* A panic nobody recovers ends the process and every goroutine in it.
Up == ~panicked

Init ==
  /\ clients = {}
  /\ register = <<>> /\ unregister = <<>> /\ broadcast = <<>>
  /\ send = [c \in Conns |-> <<>>]
  /\ closed = [c \in Conns |-> FALSE]
  /\ broken = [c \in Conns |-> FALSE]
  /\ handler = [c \in Conns |-> "off"]
  /\ reader = [c \in Conns |-> "off"]
  /\ writer = [c \in Conns |-> "off"]
  /\ kick = [c \in Conns |-> [check |-> 0, send |-> 0]]
  /\ frames = [c \in Conns |-> MaxFrames]
  /\ next = 0
  /\ task = [t \in {Run} \cup Events |-> NoTask]
  /\ panicked = FALSE
  /\ delivered = [c \in Conns |-> <<>>]
  /\ dropped = [c \in Conns |-> {}]

-----------------------------------------------------------------------------
(* WSLoginHandler *)

\* Upgrade and NewClient.
Connect(c) ==
  /\ Up
  /\ handler[c] = "off"
  /\ handler' = [handler EXCEPT ![c] = "register"]
  /\ UNCHANGED <<clients, chans, send, closed, broken, reader, writer, frames, kick, next,
                 task, panicked, ghosts>>

\* Register puts the client on the channel, then Serve starts the pumps: Run need not
\* have added the client yet.
RegisterAndServe(c) ==
  /\ Up
  /\ handler[c] = "register"
  /\ HasRoom(register, RegCap)
  /\ register' = Append(register, c)
  /\ handler' = [handler EXCEPT ![c] = "done"]
  /\ reader' = [reader EXCEPT ![c] = "read"]
  /\ writer' = [writer EXCEPT ![c] = "run"]
  /\ UNCHANGED <<clients, unregister, broadcast, send, closed, broken, frames, kick, next,
                 task, panicked, ghosts>>

\* The network or the peer breaks the connection.
PeerGone(c) ==
  /\ Up
  /\ handler[c] = "done"
  /\ ~broken[c]
  /\ broken' = [broken EXCEPT ![c] = TRUE]
  /\ UNCHANGED <<clients, chans, send, closed, pumps, kick, next, task, panicked, ghosts>>

Usable(c) == ~broken[c] /\ ~closed[c]

-----------------------------------------------------------------------------
(* readPump and dispatch *)

\* A client frame that dispatch will answer.
ReadFrame(c) ==
  /\ Up
  /\ reader[c] = "read"
  /\ Usable(c)
  /\ frames[c] > 0
  /\ frames' = [frames EXCEPT ![c] = @ - 1]
  /\ reader' = [reader EXCEPT ![c] = "reply"]
  /\ UNCHANGED <<clients, chans, send, closed, broken, handler, writer, kick, next, task,
                 panicked, ghosts>>

\* sendRaw looks at closed first.
ReplyCheck(c) ==
  /\ Up
  /\ reader[c] = "reply"
  /\ reader' = [reader EXCEPT ![c] = IF closed[c] THEN "read" ELSE "push"]
  /\ UNCHANGED <<clients, chans, send, closed, broken, handler, writer, frames, kick, next,
                 task, panicked, ghosts>>

\* sendRaw's select: a send on a channel closed meanwhile panics and is recovered; a
\* full buffer starts a kick.
ReplyPush(c) ==
  /\ Up
  /\ reader[c] = "push"
  /\ reader' = [reader EXCEPT ![c] = "read"]
  /\ \/ closed[c] /\ UNCHANGED <<send, kick>>
     \/ /\ ~closed[c] /\ HasRoom(send[c], SendCap)
        /\ send' = [send EXCEPT ![c] = Append(@, Reply)]
        /\ UNCHANGED kick
     \/ /\ ~closed[c] /\ ~HasRoom(send[c], SendCap)
        /\ kick' = [kick EXCEPT ![c].check = @ + 1]
        /\ UNCHANGED send
  /\ UNCHANGED <<clients, chans, closed, broken, handler, writer, frames, next, task,
                 panicked, ghosts>>

\* ReadMessage fails: readPump returns through its deferred Unregister.
ReadFails(c) ==
  /\ Up
  /\ reader[c] = "read"
  /\ ~Usable(c)
  /\ reader' = [reader EXCEPT ![c] = "check"]
  /\ UNCHANGED <<clients, chans, send, closed, broken, handler, writer, frames, kick, next,
                 task, panicked, ghosts>>

\* A read fails while writes still work: the peer said goodbye, or a frame is too large.
ReadBreaks(c) ==
  /\ Up
  /\ reader[c] = "read"
  /\ Usable(c)
  /\ reader' = [reader EXCEPT ![c] = "check"]
  /\ UNCHANGED <<clients, chans, send, closed, broken, handler, writer, frames, kick, next,
                 task, panicked, ghosts>>

-----------------------------------------------------------------------------
(* writePump *)

\* A frame is taken from the buffer and written.
Write(c) ==
  /\ Up
  /\ writer[c] = "run"
  /\ send[c] # <<>>
  /\ Usable(c)
  /\ send' = [send EXCEPT ![c] = Tail(@)]
  /\ delivered' = [delivered EXCEPT ![c] = Append(@, Head(send[c]))]
  /\ UNCHANGED <<clients, chans, closed, broken, pumps, kick, next, task, panicked, dropped>>

\* Mutant: writePump does not notice that its channel is closed.
MutWriteFailsBrokenOnly(c) ==
  /\ Up
  /\ writer[c] = "run"
  /\ broken[c]
  /\ writer' = [writer EXCEPT ![c] = "check"]
  /\ UNCHANGED <<clients, chans, send, closed, broken, handler, reader, frames, kick, next,
                 task, panicked, ghosts>>

\* A write or a ping fails, or the buffer is closed and drained: writePump returns
\* through its deferred Unregister.
WriteFails(c) ==
  /\ Up
  /\ writer[c] = "run"
  /\ ~Usable(c)
  /\ writer' = [writer EXCEPT ![c] = "check"]
  /\ UNCHANGED <<clients, chans, send, closed, broken, handler, reader, frames, kick, next,
                 task, panicked, ghosts>>

\* A write or a ping misses its deadline while frames can still be read.
WriteBreaks(c) ==
  /\ Up
  /\ writer[c] = "run"
  /\ Usable(c)
  /\ writer' = [writer EXCEPT ![c] = "check"]
  /\ UNCHANGED <<clients, chans, send, closed, broken, handler, reader, frames, kick, next,
                 task, panicked, ghosts>>

-----------------------------------------------------------------------------
(* Unregister, run by readPump, writePump and the kicks *)

ReaderUnregCheck(c) ==
  /\ Up
  /\ reader[c] = "check"
  /\ reader' = [reader EXCEPT ![c] = IF closed[c] THEN "done" ELSE "send"]
  /\ UNCHANGED <<clients, chans, send, closed, broken, handler, writer, frames, kick, next,
                 task, panicked, ghosts>>

ReaderUnregSend(c) ==
  /\ Up
  /\ reader[c] = "send"
  /\ HasRoom(unregister, UnregCap)
  /\ unregister' = Append(unregister, c)
  /\ reader' = [reader EXCEPT ![c] = "done"]
  /\ UNCHANGED <<clients, register, broadcast, send, closed, broken, handler, writer, frames,
                 kick, next, task, panicked, ghosts>>

WriterUnregCheck(c) ==
  /\ Up
  /\ writer[c] = "check"
  /\ writer' = [writer EXCEPT ![c] = IF closed[c] THEN "done" ELSE "send"]
  /\ UNCHANGED <<clients, chans, send, closed, broken, handler, reader, frames, kick, next,
                 task, panicked, ghosts>>

WriterUnregSend(c) ==
  /\ Up
  /\ writer[c] = "send"
  /\ HasRoom(unregister, UnregCap)
  /\ unregister' = Append(unregister, c)
  /\ writer' = [writer EXCEPT ![c] = "done"]
  /\ UNCHANGED <<clients, register, broadcast, send, closed, broken, handler, reader, frames,
                 kick, next, task, panicked, ghosts>>

\* Mutant: a kick closes the client itself instead of leaving that to Run.
MutKickCheckCloses(c) ==
  /\ Up
  /\ kick[c].check > 0
  /\ kick' = [kick EXCEPT ![c].check = @ - 1]
  /\ closed' = [closed EXCEPT ![c] = TRUE]
  /\ UNCHANGED <<clients, chans, send, broken, pumps, next, task, panicked, ghosts>>

KickCheck(c) ==
  /\ Up
  /\ kick[c].check > 0
  /\ kick' = [kick EXCEPT ![c] = [check |-> @.check - 1,
                                  send |-> IF closed[c] THEN @.send ELSE @.send + 1]]
  /\ UNCHANGED <<clients, chans, send, closed, broken, pumps, next, task, panicked, ghosts>>

KickSend(c) ==
  /\ Up
  /\ kick[c].send > 0
  /\ HasRoom(unregister, UnregCap)
  /\ unregister' = Append(unregister, c)
  /\ kick' = [kick EXCEPT ![c].send = @ - 1]
  /\ UNCHANGED <<clients, register, broadcast, send, closed, broken, pumps, next, task,
                 panicked, ghosts>>

-----------------------------------------------------------------------------
(* The Kafka consumer: HandleEvent, Broadcast *)

\* Mutant: every event gets a goroutine, none waits for Run.
MutHandleEventAsync ==
  /\ Up
  /\ next < MaxEvents
  /\ next' = next + 1
  /\ task' = [task EXCEPT ![next + 1] =
                [ev |-> next + 1, users |-> Targets[next + 1], conns |-> {}]]
  /\ UNCHANGED <<clients, chans, send, closed, broken, pumps, kick, panicked, ghosts>>

\* Events come in partition order, one at a time.
HandleEvent ==
  /\ Up
  /\ next < MaxEvents
  /\ next' = next + 1
  /\ LET e == next + 1 IN
     \/ Targets[e] = {} /\ UNCHANGED <<broadcast, task>>
     \/ /\ Targets[e] # {} /\ HasRoom(broadcast, BroadcastCap)
        /\ broadcast' = Append(broadcast, e)
        /\ UNCHANGED task
     \/ /\ Targets[e] # {} /\ ~HasRoom(broadcast, BroadcastCap)
        /\ task' = [task EXCEPT ![e] = [ev |-> e, users |-> Targets[e], conns |-> {}]]
        /\ UNCHANGED broadcast
  /\ UNCHANGED <<clients, register, unregister, send, closed, broken, pumps, kick, panicked,
                 ghosts>>

-----------------------------------------------------------------------------
(* SendToUser, run by Run and by the spills *)

Settled(e, us, cs) ==
  IF us = {} /\ cs = {} THEN NoTask ELSE [ev |-> e, users |-> us, conns |-> cs]

\* The next target's connections are copied under the read lock.
Snapshot(t) ==
  /\ Up
  /\ task[t].conns = {}
  /\ \E u \in task[t].users :
       task' = [task EXCEPT ![t] =
                  Settled(@.ev, @.users \ {u}, {c \in clients : UserOf[c] = u})]
  /\ UNCHANGED <<clients, chans, send, closed, broken, pumps, kick, next, panicked, ghosts>>

\* Mutant: the loop over the copy does not advance.
MutDeliverRepeats(t) ==
  \E c \in task[t].conns :
    /\ Up
    /\ ~closed[c] /\ HasRoom(send[c], SendCap)
    /\ send' = [send EXCEPT ![c] = Append(@, task[t].ev)]
    /\ UNCHANGED <<clients, chans, closed, broken, pumps, kick, next, task, panicked, ghosts>>

\* Mutant: a full buffer gives up its last frame for the new one.
MutDeliverOverwrites(t) ==
  \E c \in task[t].conns :
    /\ Up
    /\ task' = [task EXCEPT ![t] = Settled(@.ev, @.users, @.conns \ {c})]
    /\ ~closed[c]
    /\ send' = [send EXCEPT ![c] = IF HasRoom(@, SendCap) THEN Append(@, task[t].ev)
                                   ELSE [@ EXCEPT ![Len(@)] = task[t].ev]]
    /\ UNCHANGED <<clients, chans, closed, broken, pumps, kick, next, panicked, ghosts>>

\* Mutant: an event that meets a full buffer is dropped and the connection kept.
MutDeliverNoKick(t) ==
  \E c \in task[t].conns :
    /\ Up
    /\ task' = [task EXCEPT ![t] = Settled(@.ev, @.users, @.conns \ {c})]
    /\ ~closed[c]
    /\ \/ /\ HasRoom(send[c], SendCap)
          /\ send' = [send EXCEPT ![c] = Append(@, task[t].ev)]
          /\ UNCHANGED dropped
       \/ /\ ~HasRoom(send[c], SendCap)
          /\ dropped' = [dropped EXCEPT ![c] = @ \cup {task[t].ev}]
          /\ UNCHANGED send
    /\ UNCHANGED <<clients, chans, closed, broken, pumps, kick, next, panicked, delivered>>

\* One connection of the copy is served without the lock.
Deliver(t) ==
  \E c \in task[t].conns :
    /\ Up
    /\ task' = [task EXCEPT ![t] = Settled(@.ev, @.users, @.conns \ {c})]
    /\ \/ closed[c] /\ panicked' = TRUE /\ UNCHANGED <<send, kick, dropped>>
       \/ /\ ~closed[c] /\ HasRoom(send[c], SendCap)
          /\ send' = [send EXCEPT ![c] = Append(@, task[t].ev)]
          /\ UNCHANGED <<kick, panicked, dropped>>
       \/ /\ ~closed[c] /\ ~HasRoom(send[c], SendCap)
          /\ kick' = [kick EXCEPT ![c].check = @ + 1]
          /\ dropped' = [dropped EXCEPT ![c] = @ \cup {task[t].ev}]
          /\ UNCHANGED <<send, panicked>>
    /\ UNCHANGED <<clients, chans, closed, broken, pumps, next, delivered>>

-----------------------------------------------------------------------------
(* Run *)

AddClient ==
  /\ Up
  /\ task[Run] = NoTask
  /\ register # <<>>
  /\ register' = Tail(register)
  /\ clients' = clients \cup {Head(register)}
  /\ UNCHANGED <<unregister, broadcast, send, closed, broken, pumps, kick, next, task,
                 panicked, ghosts>>

\* Mutant: the client is closed but stays in the registry.
MutRemoveClientKeeps ==
  /\ Up
  /\ task[Run] = NoTask
  /\ unregister # <<>>
  /\ unregister' = Tail(unregister)
  /\ closed' = [closed EXCEPT ![Head(unregister)] = @ \/ Head(unregister) \in clients]
  /\ UNCHANGED <<clients, register, broadcast, send, broken, pumps, kick, next, task,
                 panicked, ghosts>>

\* Mutant: the client leaves the registry but is not closed.
MutRemoveClientOpen ==
  /\ Up
  /\ task[Run] = NoTask
  /\ unregister # <<>>
  /\ unregister' = Tail(unregister)
  /\ clients' = clients \ {Head(unregister)}
  /\ UNCHANGED <<register, broadcast, send, closed, broken, pumps, kick, next, task,
                 panicked, ghosts>>

\* A client that is not registered (any more, or yet) is ignored.
RemoveClient ==
  /\ Up
  /\ task[Run] = NoTask
  /\ unregister # <<>>
  /\ unregister' = Tail(unregister)
  /\ LET c == Head(unregister) IN
     /\ clients' = clients \ {c}
     /\ closed' = [closed EXCEPT ![c] = @ \/ c \in clients]
  /\ UNCHANGED <<register, broadcast, send, broken, pumps, kick, next, task, panicked, ghosts>>

TakeEnvelope ==
  /\ Up
  /\ task[Run] = NoTask
  /\ broadcast # <<>>
  /\ broadcast' = Tail(broadcast)
  /\ LET e == Head(broadcast) IN
     task' = [task EXCEPT ![Run] = [ev |-> e, users |-> Targets[e], conns |-> {}]]
  /\ UNCHANGED <<clients, register, unregister, send, closed, broken, pumps, kick, next,
                 panicked, ghosts>>

RunStep == AddClient \/ RemoveClient \/ TakeEnvelope \/ Snapshot(Run) \/ Deliver(Run)

HandlerStep(c) == Connect(c) \/ RegisterAndServe(c)
ReaderRuns(c) == ReplyCheck(c) \/ ReplyPush(c) \/ ReadFails(c)
                 \/ ReaderUnregCheck(c) \/ ReaderUnregSend(c)
ReaderStep(c) == ReaderRuns(c) \/ ReadBreaks(c)
WriterRuns(c) == Write(c) \/ WriteFails(c) \/ WriterUnregCheck(c) \/ WriterUnregSend(c)
WriterStep(c) == WriterRuns(c) \/ WriteBreaks(c)
KickStep(c) == KickCheck(c) \/ KickSend(c)
SpillStep(e) == Snapshot(e) \/ Deliver(e)

\* Nothing is left to do, or the process is gone.
Quiet ==
  \/ panicked
  \/ /\ \A c \in Conns : /\ handler[c] = "done" /\ reader[c] = "done" /\ writer[c] = "done"
                         /\ kick[c] = [check |-> 0, send |-> 0]
     /\ register = <<>> /\ unregister = <<>> /\ broadcast = <<>>
     /\ next = MaxEvents
     /\ \A t \in {Run} \cup Events : task[t] = NoTask

Next ==
  \/ RunStep
  \/ HandleEvent
  \/ \E c \in Conns : \/ HandlerStep(c) \/ PeerGone(c) \/ ReadFrame(c) \/ ReaderStep(c)
                      \/ WriterStep(c) \/ KickStep(c)
  \/ \E e \in Events : SpillStep(e)
  \/ Quiet /\ UNCHANGED vars

Spec == Init /\ [][Next]_vars

\* Every started goroutine keeps running.  select picks any ready case of Run, so only
\* Run as a whole is fair; clients need not connect, send frames or leave, sockets need
\* not break, and the consumer need not get an event.
Fairness ==
  /\ WF_vars(RunStep)
  /\ \A c \in Conns : /\ WF_vars(RegisterAndServe(c))
                      /\ WF_vars(ReaderRuns(c))
                      /\ WF_vars(WriterRuns(c))
                      /\ WF_vars(KickStep(c))
  /\ \A e \in Events : WF_vars(SpillStep(e))

FairSpec == Spec /\ Fairness

-----------------------------------------------------------------------------
(* Properties *)

Tasks == [ev : {0} \cup Events, users : SUBSET Users, conns : SUBSET Conns]
PumpStates == {"off", "read", "run", "reply", "push", "check", "send", "done"}

\* Types of the variables, the channels within their capacities.
TypeOK ==
  /\ clients \subseteq Conns
  /\ register \in Seq(Conns) /\ Len(register) <= RegCap
  /\ unregister \in Seq(Conns) /\ Len(unregister) <= UnregCap
  /\ broadcast \in Seq(Events) /\ Len(broadcast) <= BroadcastCap
  /\ send \in [Conns -> Seq({Reply} \cup Events)]
  /\ \A c \in Conns : Len(send[c]) <= SendCap
  /\ closed \in [Conns -> BOOLEAN]
  /\ broken \in [Conns -> BOOLEAN]
  /\ handler \in [Conns -> {"off", "register", "done"}]
  /\ reader \in [Conns -> PumpStates]
  /\ writer \in [Conns -> PumpStates]
  /\ kick \in [Conns -> [check : Nat, send : Nat]]
  /\ frames \in [Conns -> 0..MaxFrames]
  /\ next \in 0..MaxEvents
  /\ task \in [{Run} \cup Events -> Tasks]
  /\ panicked \in BOOLEAN
  /\ delivered \in [Conns -> Seq({Reply} \cup Events)]
  /\ dropped \in [Conns -> SUBSET Events]

\* Run never holds a closed client, neither in the registry nor in the copy it is
\* serving without the lock: register, unregister and delivery may come in any order,
\* and one connection may be unregistered by both pumps and any number of kicks.  So
\* Run itself never sends on a closed channel (addClient, removeClient, SendToUser).
RunServesOpen ==
  \A c \in Conns : closed[c] => c \notin clients /\ c \notin task[Run].conns

\* The frames a connection was given, and the events among them.
Received(c) == delivered[c] \o send[c]
Given(c) == {Received(c)[i] : i \in DOMAIN Received(c)} \ {Reply}

\* However an event was fanned out, by Run or by a spill, a connection is given it at
\* most once (SendToUser's copy, Broadcast's two ways out).
GivenOnce ==
  \A c \in Conns : \A i, j \in DOMAIN Received(c) :
    Received(c)[i] = Received(c)[j] /\ Received(c)[i] # Reply => i = j

\* A connection is given the events in the order the consumer handed them over.  It
\* needs a broadcast channel that never fills.
InOrder ==
  \A c \in Conns : \A i, j \in DOMAIN Received(c) :
    i < j /\ Received(c)[i] # Reply /\ Received(c)[j] # Reply
      => Received(c)[i] < Received(c)[j]

\* An event between two that a connection was given was given too, unless it met a full
\* send buffer (SendToUser): registering, kicks and other connections lose none.
NoSilentGap ==
  \A c \in Conns : \A d, f \in Given(c) : \A e \in d + 1 .. f - 1 :
    UserOf[c] \in Targets[e] => e \in Given(c) \cup dropped[c]

\* No goroutine without recover panics: nobody sends on a channel that removeClient has
\* closed, other than under sendRaw's recover.
NoPanic == ~panicked

\* A connection that missed an event is closed in the end, so that its client reconnects
\* and reads the history (the kick in SendToUser).
MissedIsClosed ==
  \A c \in Conns : dropped[c] # {} ~> closed[c]

\* When the peer of a registered connection goes while its readPump runs, the
\* connection is closed in the end: Run never ends up waiting, and the unregister
\* channel drains.
LeaverIsClosed ==
  \A c \in Conns : c \in clients /\ broken[c] /\ reader[c] = "read" ~> closed[c]

\* Closing a connection ends both its pumps.
ClosedPumpsEnd ==
  \A c \in Conns : closed[c] ~> reader[c] = "done" /\ writer[c] = "done"

-----------------------------------------------------------------------------
(* What Hub implements *)

reachBar == [e \in Events |-> {c \in Conns : UserOf[c] \in Targets[e]}]
memberBar == [c \in Conns |-> IF closed[c] THEN "out" ELSE IF c \in clients THEN "in" ELSE "new"]
streamBar == [c \in Conns |-> Received(c)]

Abstract == INSTANCE Fanout WITH
  Reach <- reachBar, handed <- next, member <- memberBar, stream <- streamBar

\* The hub implements Fanout: with its channels, copies, spills and kicks, a connection
\* enters and leaves the registry once, is given events while it is in it only, those
\* of its user only, each once, and nothing after it is closed.
ImplementsFanout == Abstract!Spec

=============================================================================
