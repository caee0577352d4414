----------------------------- MODULE HubProofs -----------------------------
(***************************************************************************)
(* Theorems about Hub for every set of users and connections, any number   *)
(* of events and frames and any capacities.                                *)
(***************************************************************************)
EXTENDS Hub, SequenceTheorems, TLAPS

\* The typing invariant with the one fact it rests on: a task that has connections to
\* serve carries an event.
TypeInv ==
  /\ TypeOK
  /\ \A t \in {Run} \cup Events : task[t].conns # {} \/ task[t].users # {} => task[t].ev \in Events

\* Starting a kick, or finishing one that had started, leaves counts of kicks.
LEMMA KickCounts ==
  ASSUME kick \in [Conns -> [check : Nat, send : Nat]], NEW c \in Conns
  PROVE  /\ [kick EXCEPT ![c].check = @ + 1] \in [Conns -> [check : Nat, send : Nat]]
         /\ kick[c].send > 0 =>
              [kick EXCEPT ![c].send = @ - 1] \in [Conns -> [check : Nat, send : Nat]]
<1>1. kick[c] \in [check : Nat, send : Nat]
  OBVIOUS
<1>2. [kick[c] EXCEPT !.check = @ + 1] \in [check : Nat, send : Nat]
  BY <1>1
<1>3. kick[c].send > 0 => [kick[c] EXCEPT !.send = @ - 1] \in [check : Nat, send : Nat]
  BY <1>1
<1>. QED
  BY <1>2, <1>3

\* TypeInv holds in every reachable state.
LEMMA TypeInvariant == Spec => []TypeInv
<1> USE ConstantsAssumption DEF Run, Reply, Events
<1>1. Init => TypeInv
  <2> SUFFICES ASSUME Init PROVE TypeInv
    OBVIOUS
  <2>1. NoTask \in Tasks
    BY DEF NoTask, Tasks
  <2>2. task \in [{Run} \cup Events -> Tasks] /\ \A t \in {Run} \cup Events : task[t] = NoTask
    BY <2>1 DEF Init
  <2>3. kick \in [Conns -> [check : Nat, send : Nat]]
    BY DEF Init
  <2>4. <<>> \in Seq(Conns) /\ <<>> \in Seq(Events) /\ <<>> \in Seq({Reply} \cup Events)
        /\ Len(<<>>) = 0
    OBVIOUS
  <2>5. /\ send \in [Conns -> Seq({Reply} \cup Events)]
        /\ \A c \in Conns : Len(send[c]) <= SendCap
        /\ delivered \in [Conns -> Seq({Reply} \cup Events)]
    BY <2>4 DEF Init
  <2>6. /\ register \in Seq(Conns) /\ Len(register) <= RegCap
        /\ unregister \in Seq(Conns) /\ Len(unregister) <= UnregCap
        /\ broadcast \in Seq(Events) /\ Len(broadcast) <= BroadcastCap
    BY <2>4 DEF Init
  <2>7. clients \subseteq Conns /\ closed \in [Conns -> BOOLEAN]
        /\ broken \in [Conns -> BOOLEAN] /\ panicked \in BOOLEAN
    BY DEF Init
  <2>8. /\ handler \in [Conns -> {"off", "register", "done"}]
        /\ reader \in [Conns -> PumpStates] /\ writer \in [Conns -> PumpStates]
    BY DEF Init, PumpStates
  <2>9. frames \in [Conns -> 0..MaxFrames] /\ next \in 0..MaxEvents
        /\ dropped \in [Conns -> SUBSET Events]
    BY DEF Init
  <2>10. TypeOK
    BY <2>2, <2>3, <2>5, <2>6, <2>7, <2>8, <2>9 DEF TypeOK
  <2>11. \A t \in {Run} \cup Events : task[t].conns = {} /\ task[t].users = {}
    BY <2>2 DEF NoTask
  <2>. QED
    BY <2>10, <2>11 DEF TypeInv
<1>2. TypeInv /\ [Next]_vars => TypeInv'
  <2> SUFFICES ASSUME TypeInv, [Next]_vars
               PROVE  TypeInv'
    OBVIOUS
  <2> USE DEF TypeInv, TypeOK, chans, pumps, ghosts
  <2>1. ASSUME NEW c \in Conns, HandlerStep(c)
        PROVE  TypeInv'
    <3>1. CASE Connect(c)
      BY <3>1 DEF Connect
    <3>2. CASE RegisterAndServe(c)
      <4>1. register' \in Seq(Conns) /\ Len(register') <= RegCap
        BY <3>2 DEF RegisterAndServe, HasRoom
      <4>2. reader' \in [Conns -> PumpStates] /\ writer' \in [Conns -> PumpStates]
        BY <3>2 DEF RegisterAndServe, PumpStates
      <4>. QED
        BY <3>2, <4>1, <4>2 DEF RegisterAndServe
    <3>. QED
      BY <2>1, <3>1, <3>2 DEF HandlerStep
  <2>2. ASSUME NEW c \in Conns, PeerGone(c) \/ ReadFrame(c)
        PROVE  TypeInv'
    <3>1. CASE PeerGone(c)
      BY <3>1 DEF PeerGone
    <3>2. CASE ReadFrame(c)
      <4>1. reader' \in [Conns -> PumpStates]
        BY <3>2 DEF ReadFrame, PumpStates
      <4>2. frames' \in [Conns -> 0..MaxFrames]
        BY <3>2 DEF ReadFrame
      <4>. QED
        BY <3>2, <4>1, <4>2 DEF ReadFrame
    <3>. QED
      BY <2>2, <3>1, <3>2
  <2>3. ASSUME NEW c \in Conns, ReaderStep(c)
        PROVE  TypeInv'
    <3>1. CASE ReplyCheck(c) \/ ReadFails(c) \/ ReadBreaks(c) \/ ReaderUnregCheck(c)
      <4>1. reader' \in [Conns -> PumpStates]
        BY <3>1 DEF ReplyCheck, ReadFails, ReadBreaks, ReaderUnregCheck, PumpStates
      <4>. QED
        BY <3>1, <4>1 DEF ReplyCheck, ReadFails, ReadBreaks, ReaderUnregCheck
    <3>2. CASE ReplyPush(c)
      <4>1. reader' \in [Conns -> PumpStates]
        BY <3>2 DEF ReplyPush, PumpStates
      <4>2. send' \in [Conns -> Seq({Reply} \cup Events)]
            /\ \A b \in Conns : Len(send'[b]) <= SendCap
        <5>1. CASE send' = send
          BY <5>1
        <5>2. CASE HasRoom(send[c], SendCap) /\ send' = [send EXCEPT ![c] = Append(@, Reply)]
          <6>1. Append(send[c], Reply) \in Seq({Reply} \cup Events)
            OBVIOUS
          <6>2. Len(Append(send[c], Reply)) <= SendCap
            BY <5>2 DEF HasRoom
          <6>. QED
            BY <5>2, <6>1, <6>2
        <5>. QED
          BY <3>2, <5>1, <5>2 DEF ReplyPush
      <4>3. kick' \in [Conns -> [check : Nat, send : Nat]]
        <5>1. kick' = kick \/ kick' = [kick EXCEPT ![c].check = @ + 1]
          BY <3>2 DEF ReplyPush
        <5>2. [kick EXCEPT ![c].check = @ + 1] \in [Conns -> [check : Nat, send : Nat]]
          BY KickCounts
        <5>. QED
          BY <5>1, <5>2
      <4>. QED
        BY <3>2, <4>1, <4>2, <4>3 DEF ReplyPush
    <3>3. CASE ReaderUnregSend(c)
      <4>1. unregister' \in Seq(Conns) /\ Len(unregister') <= UnregCap
        BY <3>3 DEF ReaderUnregSend, HasRoom
      <4>2. reader' \in [Conns -> PumpStates]
        BY <3>3 DEF ReaderUnregSend, PumpStates
      <4>. QED
        BY <3>3, <4>1, <4>2 DEF ReaderUnregSend
    <3>. QED
      BY <2>3, <3>1, <3>2, <3>3 DEF ReaderStep, ReaderRuns
  <2>4. ASSUME NEW c \in Conns, WriterStep(c)
        PROVE  TypeInv'
    <3>1. CASE Write(c)
      <4>1. Tail(send[c]) \in Seq({Reply} \cup Events) /\ Len(Tail(send[c])) <= SendCap
        BY <3>1 DEF Write
      <4>2. send' \in [Conns -> Seq({Reply} \cup Events)]
            /\ \A b \in Conns : Len(send'[b]) <= SendCap
        BY <3>1, <4>1 DEF Write
      <4>3. Append(delivered[c], Head(send[c])) \in Seq({Reply} \cup Events)
        BY <3>1 DEF Write
      <4>4. delivered' \in [Conns -> Seq({Reply} \cup Events)]
        BY <3>1, <4>3 DEF Write
      <4>. QED
        BY <3>1, <4>2, <4>4 DEF Write
    <3>2. CASE WriteFails(c) \/ WriteBreaks(c) \/ WriterUnregCheck(c)
      <4>1. writer' \in [Conns -> PumpStates]
        BY <3>2 DEF WriteFails, WriteBreaks, WriterUnregCheck, PumpStates
      <4>. QED
        BY <3>2, <4>1 DEF WriteFails, WriteBreaks, WriterUnregCheck
    <3>3. CASE WriterUnregSend(c)
      <4>1. unregister' \in Seq(Conns) /\ Len(unregister') <= UnregCap
        BY <3>3 DEF WriterUnregSend, HasRoom
      <4>2. writer' \in [Conns -> PumpStates]
        BY <3>3 DEF WriterUnregSend, PumpStates
      <4>. QED
        BY <3>3, <4>1, <4>2 DEF WriterUnregSend
    <3>. QED
      BY <2>4, <3>1, <3>2, <3>3 DEF WriterStep, WriterRuns
  <2>5. ASSUME NEW c \in Conns, KickStep(c)
        PROVE  TypeInv'
    <3>1. CASE KickCheck(c)
      <4>1. kick' \in [Conns -> [check : Nat, send : Nat]]
        <5>1. kick[c] \in [check : Nat, send : Nat] /\ kick[c].check > 0
          BY <3>1 DEF KickCheck
        <5> DEFINE r == [check |-> kick[c].check - 1,
                         send |-> IF closed[c] THEN kick[c].send ELSE kick[c].send + 1]
        <5>2. r \in [check : Nat, send : Nat]
          BY <5>1
        <5>3. kick' = [kick EXCEPT ![c] = r]
          BY <3>1 DEF KickCheck
        <5> HIDE DEF r
        <5>. QED
          BY <5>2, <5>3
      <4>. QED
        BY <3>1, <4>1 DEF KickCheck
    <3>2. CASE KickSend(c)
      <4>1. unregister' \in Seq(Conns) /\ Len(unregister') <= UnregCap
        BY <3>2 DEF KickSend, HasRoom
      <4>2. kick' \in [Conns -> [check : Nat, send : Nat]]
        <5>1. kick[c].send > 0 /\ kick' = [kick EXCEPT ![c].send = @ - 1]
          BY <3>2 DEF KickSend
        <5>. QED
          BY <5>1, KickCounts
      <4>. QED
        BY <3>2, <4>1, <4>2 DEF KickSend
    <3>. QED
      BY <2>5, <3>1, <3>2 DEF KickStep
  <2>6. ASSUME HandleEvent
        PROVE  TypeInv'
    <3>1. next + 1 \in Events /\ next' \in 0..MaxEvents
      BY <2>6 DEF HandleEvent
    <3>2. CASE task' = task /\ broadcast' = broadcast
      BY <2>6, <3>1, <3>2 DEF HandleEvent
    <3>3. CASE task' = task /\ HasRoom(broadcast, BroadcastCap)
               /\ broadcast' = Append(broadcast, next + 1)
      <4>1. broadcast' \in Seq(Events) /\ Len(broadcast') <= BroadcastCap
        BY <3>1, <3>3 DEF HasRoom
      <4>. QED
        BY <2>6, <3>1, <3>3, <4>1 DEF HandleEvent
    <3>4. CASE broadcast' = broadcast /\
               task' = [task EXCEPT ![next + 1] =
                          [ev |-> next + 1, users |-> Targets[next + 1], conns |-> {}]]
      <4>1. [ev |-> next + 1, users |-> Targets[next + 1], conns |-> {}] \in Tasks
        BY <3>1 DEF Tasks
      <4>2. task' \in [{Run} \cup Events -> Tasks]
        BY <3>4, <4>1
      <4>. QED
        BY <2>6, <3>1, <3>4, <4>2 DEF HandleEvent
    <3>. QED
      BY <2>6, <3>2, <3>3, <3>4 DEF HandleEvent
  <2>7. ASSUME NEW t \in {Run} \cup Events, Snapshot(t)
        PROVE  TypeInv'
    <3>1. PICK u \in task[t].users :
            task' = [task EXCEPT ![t] =
                       Settled(@.ev, @.users \ {u}, {c \in clients : UserOf[c] = u})]
      BY <2>7 DEF Snapshot
    <3>2. task[t] \in Tasks /\ task[t].ev \in Events
      BY <3>1
    <3> DEFINE cs == {c \in clients : UserOf[c] = u}
               k == Settled(task[t].ev, task[t].users \ {u}, cs)
    <3>3. cs \subseteq Conns
      OBVIOUS
    <3> HIDE DEF cs
    <3>4. k \in Tasks /\ (k.conns # {} \/ k.users # {} => k.ev \in Events)
      BY <3>2, <3>3 DEF Settled, NoTask, Tasks
    <3>5. task' = [task EXCEPT ![t] = k]
      BY <3>1 DEF cs
    <3> HIDE DEF k
    <3>6. task' \in [{Run} \cup Events -> Tasks]
      BY <3>4, <3>5
    <3>. QED
      BY <2>7, <3>4, <3>5, <3>6 DEF Snapshot
  <2>8. ASSUME NEW t \in {Run} \cup Events, Deliver(t)
        PROVE  TypeInv'
    <3>1. PICK c \in task[t].conns :
            /\ task' = [task EXCEPT ![t] = Settled(@.ev, @.users, @.conns \ {c})]
            /\ \/ closed[c] /\ panicked' = TRUE /\ UNCHANGED <<send, kick, dropped>>
               \/ /\ ~closed[c] /\ HasRoom(send[c], SendCap)
                  /\ send' = [send EXCEPT ![c] = Append(@, task[t].ev)]
                  /\ UNCHANGED <<kick, panicked, dropped>>
               \/ /\ ~closed[c] /\ ~HasRoom(send[c], SendCap)
                  /\ kick' = [kick EXCEPT ![c].check = @ + 1]
                  /\ dropped' = [dropped EXCEPT ![c] = @ \cup {task[t].ev}]
                  /\ UNCHANGED <<send, panicked>>
      BY <2>8 DEF Deliver
    <3>2. task[t] \in Tasks /\ task[t].ev \in Events /\ c \in Conns
      BY <3>1 DEF Tasks
    <3> DEFINE k == Settled(task[t].ev, task[t].users, task[t].conns \ {c})
    <3>4. k \in Tasks /\ (k.conns # {} \/ k.users # {} => k.ev \in Events)
      BY <3>2 DEF Settled, NoTask, Tasks
    <3>5. task' = [task EXCEPT ![t] = k]
      BY <3>1
    <3> HIDE DEF k
    <3>6. task' \in [{Run} \cup Events -> Tasks]
      BY <3>4, <3>5
    <3>7. send' \in [Conns -> Seq({Reply} \cup Events)]
          /\ \A b \in Conns : Len(send'[b]) <= SendCap
      <4>1. CASE send' = send
        BY <4>1
      <4>2. CASE HasRoom(send[c], SendCap)
                 /\ send' = [send EXCEPT ![c] = Append(@, task[t].ev)]
        <5>1. Append(send[c], task[t].ev) \in Seq({Reply} \cup Events)
          BY <3>2
        <5>2. Len(Append(send[c], task[t].ev)) <= SendCap
          BY <3>2, <4>2 DEF HasRoom
        <5>. QED
          BY <3>2, <4>2, <5>1, <5>2
      <4>. QED
        BY <3>1, <4>1, <4>2
    <3>8. kick' \in [Conns -> [check : Nat, send : Nat]] /\ panicked' \in BOOLEAN
      <4>1. kick' = kick \/ kick' = [kick EXCEPT ![c].check = @ + 1]
        BY <3>1
      <4>2. [kick EXCEPT ![c].check = @ + 1] \in [Conns -> [check : Nat, send : Nat]]
        BY <3>2, KickCounts
      <4>3. panicked' \in BOOLEAN
        BY <3>1
      <4>. QED
        BY <4>1, <4>2, <4>3
    <3>9. dropped' \in [Conns -> SUBSET Events]
      <4>1. dropped' = dropped \/ dropped' = [dropped EXCEPT ![c] = @ \cup {task[t].ev}]
        BY <3>1
      <4>2. dropped[c] \cup {task[t].ev} \in SUBSET Events
        BY <3>2
      <4> HIDE DEF Events
      <4>3. [dropped EXCEPT ![c] = @ \cup {task[t].ev}] \in [Conns -> SUBSET Events]
        BY <4>2
      <4>. QED
        BY <4>1, <4>3
    <3>. QED
      BY <2>8, <3>4, <3>5, <3>6, <3>7, <3>8, <3>9 DEF Deliver
  <2>9. ASSUME AddClient \/ RemoveClient
        PROVE  TypeInv'
    <3>1. CASE AddClient
      <4>1. register # <<>> /\ register' = Tail(register) /\ register \in Seq(Conns)
        BY <3>1 DEF AddClient
      <4>2. Head(register) \in Conns
        BY <4>1
      <4>3. register' \in Seq(Conns) /\ Len(register') <= RegCap
        BY <4>1
      <4>. QED
        BY <3>1, <4>2, <4>3 DEF AddClient
    <3>2. CASE RemoveClient
      <4>1. unregister' \in Seq(Conns) /\ Len(unregister') <= UnregCap
        BY <3>2 DEF RemoveClient
      <4>2. closed' \in [Conns -> BOOLEAN] /\ clients' \subseteq Conns
        BY <3>2 DEF RemoveClient
      <4>. QED
        BY <3>2, <4>1, <4>2 DEF RemoveClient
    <3>. QED
      BY <2>9, <3>1, <3>2
  <2>10. ASSUME TakeEnvelope
         PROVE  TypeInv'
    <3> DEFINE k == [ev |-> Head(broadcast), users |-> Targets[Head(broadcast)], conns |-> {}]
    <3>1. broadcast' \in Seq(Events) /\ Len(broadcast') <= BroadcastCap
          /\ Head(broadcast) \in Events
      BY <2>10 DEF TakeEnvelope
    <3>2. k \in Tasks /\ k.ev \in Events
      BY <3>1 DEF Tasks
    <3>3. task' = [task EXCEPT ![Run] = k]
      BY <2>10 DEF TakeEnvelope
    <3>4. task' \in [{Run} \cup Events -> Tasks]
      BY <3>2, <3>3
    <3>. QED
      BY <2>10, <3>1, <3>2, <3>3, <3>4 DEF TakeEnvelope
  <2>11. CASE UNCHANGED vars
    BY <2>11 DEF vars
  <2>12. Run \in {Run} \cup Events /\ \A e \in Events : e \in {Run} \cup Events
    OBVIOUS
  <2>. QED
    BY <2>1, <2>2, <2>3, <2>4, <2>5, <2>6, <2>7, <2>8, <2>9, <2>10, <2>11, <2>12
    DEF Next, RunStep, SpillStep
<1>. QED
  BY <1>1, <1>2, PTL DEF Spec

\* Every variable keeps its type and every channel its capacity (TypeOK).
THEOREM TypeCorrect == Spec => []TypeOK
<1>1. TypeInv => TypeOK
  BY DEF TypeInv
<1>. QED
  BY <1>1, TypeInvariant, PTL

-----------------------------------------------------------------------------
(* Run serves open clients only *)

\* Why Run never holds a closed client: a connection is put on the register channel
\* once, so while it waits there it is neither registered nor closed; only Run
\* closes clients, only registered ones, and only when it has no copy in hand.
RegistryInv ==
  /\ \A i, j \in 1..Len(register) : register[i] = register[j] => i = j
  /\ \A i \in 1..Len(register) : /\ handler[register[i]] = "done"
                                 /\ register[i] \notin clients
                                 /\ ~closed[register[i]]
  /\ \A c \in Conns : handler[c] # "done" => c \notin clients /\ ~closed[c]
  /\ \A c \in Conns : closed[c] => c \notin clients
  /\ task[Run].conns \subseteq clients

\* The steps that touch neither the registry, nor its channel, nor what Run has in
\* hand preserve RegistryInv.
LEMMA RegistryFrame ==
  RegistryInv /\ UNCHANGED <<clients, register, closed, handler>> /\ task'[Run] = task[Run]
    => RegistryInv'
BY DEF RegistryInv

\* RegistryInv is preserved by every step.
LEMMA RegistryInductive ==
  TypeInv /\ RegistryInv /\ [Next]_vars => RegistryInv'
<1> SUFFICES ASSUME TypeInv, RegistryInv, [Next]_vars
             PROVE  RegistryInv'
  OBVIOUS
<1> USE ConstantsAssumption
<1>0. task[Run] \in Tasks /\ \A e \in Events : e # Run
  BY DEF TypeInv, TypeOK, Events, Run
<1>1. ASSUME NEW c \in Conns, Connect(c)
      PROVE  RegistryInv'
  <2>1. handler[c] = "off" /\ handler' = [handler EXCEPT ![c] = "register"]
    BY <1>1 DEF Connect
  <2>2. handler \in [Conns -> {"off", "register", "done"}]
    BY DEF TypeInv, TypeOK
  <2>3. \A d \in Conns : handler'[d] = IF d = c THEN "register" ELSE handler[d]
    BY <2>1, <2>2
  <2>4. UNCHANGED <<clients, register, closed, task>>
    BY <1>1 DEF Connect, chans
  <2>5. \A i \in 1..Len(register) : register[i] \in Conns
    BY DEF TypeInv, TypeOK
  <2>6. \A i \in 1..Len(register) : register[i] # c
    BY <2>1 DEF RegistryInv
  <2>7. \A i \in 1..Len(register) : handler'[register[i]] = "done"
    BY <2>3, <2>5, <2>6 DEF RegistryInv
  <2>8. \A d \in Conns : handler'[d] # "done" => handler[d] # "done"
    BY <2>1, <2>3
  <2>. QED
    BY <2>4, <2>7, <2>8 DEF RegistryInv
<1>2. ASSUME NEW c \in Conns, RegisterAndServe(c)
      PROVE  RegistryInv'
  <2>1. handler[c] = "register" /\ handler' = [handler EXCEPT ![c] = "done"]
        /\ register' = Append(register, c)
    BY <1>2 DEF RegisterAndServe
  <2>2. handler \in [Conns -> {"off", "register", "done"}] /\ register \in Seq(Conns)
    BY DEF TypeInv, TypeOK
  <2>3. \A d \in Conns : handler'[d] = IF d = c THEN "done" ELSE handler[d]
    BY <2>1, <2>2
  <2>4. UNCHANGED <<clients, closed, task>>
    BY <1>2 DEF RegisterAndServe
  <2>5. c \notin clients /\ ~closed[c]
    BY <2>1 DEF RegistryInv
  <2>6. \A i \in 1..Len(register) : register[i] # c
    BY <2>1 DEF RegistryInv
  <2>7. Len(register') = Len(register) + 1
        /\ \A i \in 1..Len(register') : register'[i] = IF i <= Len(register) THEN register[i]
                                                       ELSE c
    BY <2>1, <2>2
  <2>8. \A i \in 1..Len(register') : i <= Len(register) => i \in 1..Len(register)
    BY <2>2
  <2>9. \A i, j \in 1..Len(register') : register'[i] = register'[j] => i = j
    BY <2>2, <2>6, <2>7 DEF RegistryInv
  <2>10. \A i \in 1..Len(register) : register[i] \in Conns
    BY <2>2
  <2>11. \A i \in 1..Len(register') : /\ handler'[register'[i]] = "done"
                                      /\ register'[i] \notin clients
                                      /\ ~closed[register'[i]]
    BY <2>3, <2>5, <2>7, <2>8, <2>10 DEF RegistryInv
  <2>12. \A d \in Conns : handler'[d] # "done" => handler[d] # "done"
    BY <2>3
  <2>. QED
    BY <2>4, <2>9, <2>11, <2>12 DEF RegistryInv
<1>3. ASSUME NEW c \in Conns,
             PeerGone(c) \/ ReadFrame(c) \/ ReaderStep(c) \/ WriterStep(c) \/ KickStep(c)
      PROVE  RegistryInv'
  <2>1. UNCHANGED <<clients, register, closed, handler, task>>
    <3>1. CASE PeerGone(c) \/ ReadFrame(c)
      BY <3>1 DEF PeerGone, ReadFrame, chans, pumps
    <3>2. CASE ReaderStep(c)
      BY <3>2 DEF ReaderStep, ReaderRuns, ReadBreaks, ReplyCheck, ReplyPush, ReadFails,
                  ReaderUnregCheck,
                  ReaderUnregSend, chans
    <3>3. CASE WriterStep(c)
      BY <3>3 DEF WriterStep, WriterRuns, WriteBreaks, Write, WriteFails,
           WriterUnregCheck, WriterUnregSend, chans, pumps
    <3>4. CASE KickStep(c)
      BY <3>4 DEF KickStep, KickCheck, KickSend, chans, pumps
    <3>. QED
      BY <1>3, <3>1, <3>2, <3>3, <3>4
  <2>. QED
    BY <2>1, RegistryFrame
<1>4. CASE HandleEvent
  <2>1. UNCHANGED <<clients, register, closed, handler>>
    BY <1>4 DEF HandleEvent, pumps
  <2>2. next + 1 \in Events
    BY <1>4 DEF HandleEvent, TypeInv, TypeOK, Events
  <2>3. task'[Run] = task[Run]
    <3>1. next + 1 # Run
      BY <1>0, <2>2
    <3>2. task \in [{Run} \cup Events -> Tasks]
      BY DEF TypeInv, TypeOK
    <3>3. task' = task \/ task' = [task EXCEPT ![next + 1] =
                              [ev |-> next + 1, users |-> Targets[next + 1], conns |-> {}]]
      BY <1>4 DEF HandleEvent
    <3>. QED
      BY <3>1, <3>2, <3>3
  <2>. QED
    BY <2>1, <2>3, RegistryFrame
<1>5. ASSUME NEW t \in {Run} \cup Events, Snapshot(t)
      PROVE  RegistryInv'
  <2>1. UNCHANGED <<clients, register, closed, handler>>
    BY <1>5 DEF Snapshot, chans, pumps
  <2>2. PICK u \in task[t].users :
          task' = [task EXCEPT ![t] =
                     Settled(@.ev, @.users \ {u}, {c \in clients : UserOf[c] = u})]
    BY <1>5 DEF Snapshot
  <2>3. task \in [{Run} \cup Events -> Tasks]
    BY DEF TypeInv, TypeOK
  <2>4. task'[t].conns \subseteq clients
    <3> DEFINE cs == {c \in clients : UserOf[c] = u}
    <3>1. cs \subseteq clients
      OBVIOUS
    <3>2. task'[t] = Settled(task[t].ev, task[t].users \ {u}, cs)
      BY <2>2, <2>3
    <3> HIDE DEF cs
    <3>. QED
      BY <3>1, <3>2 DEF Settled, NoTask
  <2>5. t # Run => task'[Run] = task[Run]
    BY <2>2, <2>3
  <2>. QED
    BY <2>1, <2>4, <2>5, RegistryFrame DEF RegistryInv
<1>6. ASSUME NEW t \in {Run} \cup Events, Deliver(t)
      PROVE  RegistryInv'
  <2>1. UNCHANGED <<clients, register, closed, handler>>
    BY <1>6 DEF Deliver, chans, pumps
  <2>2. PICK c \in task[t].conns :
          task' = [task EXCEPT ![t] = Settled(@.ev, @.users, @.conns \ {c})]
    BY <1>6 DEF Deliver
  <2>3. task \in [{Run} \cup Events -> Tasks]
    BY DEF TypeInv, TypeOK
  <2>4. task'[t].conns \subseteq task[t].conns
    <3>1. task'[t] = Settled(task[t].ev, task[t].users, task[t].conns \ {c})
      BY <2>2, <2>3
    <3>. QED
      BY <3>1 DEF Settled, NoTask
  <2>5. t # Run => task'[Run] = task[Run]
    BY <2>2, <2>3
  <2>. QED
    BY <2>1, <2>4, <2>5, RegistryFrame DEF RegistryInv
<1>7. CASE AddClient
  <2>1. register # <<>> /\ register' = Tail(register) /\ clients' = clients \cup {Head(register)}
        /\ UNCHANGED <<closed, handler, task>>
    BY <1>7 DEF AddClient, pumps
  <2>2. register \in Seq(Conns)
    BY DEF TypeInv, TypeOK
  <2>3. Len(register) >= 1 /\ Head(register) = register[1]
    BY <2>1, <2>2
  <2>4. Len(register') = Len(register) - 1
        /\ \A i \in 1..Len(register') : register'[i] = register[i + 1]
    BY <2>1, <2>2, <2>3
  <2>5. \A i \in 1..Len(register') : i + 1 \in 1..Len(register) /\ i + 1 # 1
    BY <2>2, <2>4
  <2>6. 1 \in 1..Len(register)
    BY <2>2, <2>3
  <2>7. \A i \in 1..Len(register') : register[i + 1] # register[1]
    BY <2>5, <2>6 DEF RegistryInv
  <2>8. \A i, j \in 1..Len(register') : register'[i] = register'[j] => i = j
    <3> SUFFICES ASSUME NEW i \in 1..Len(register'), NEW j \in 1..Len(register'),
                        register'[i] = register'[j]
                 PROVE  i = j
      OBVIOUS
    <3>1. register[i + 1] = register[j + 1]
      BY <2>4
    <3>2. i + 1 = j + 1
      BY <2>5, <3>1 DEF RegistryInv
    <3>. QED
      BY <3>2
  <2>9. \A i \in 1..Len(register') : /\ handler[register'[i]] = "done"
                                     /\ register'[i] \notin clients'
                                     /\ ~closed[register'[i]]
    BY <2>1, <2>3, <2>4, <2>5, <2>7 DEF RegistryInv
  <2>10. handler[Head(register)] = "done" /\ ~closed[Head(register)]
    BY <2>3, <2>6 DEF RegistryInv
  <2>. QED
    BY <2>1, <2>8, <2>9, <2>10 DEF RegistryInv
<1>8. CASE RemoveClient
  <2> DEFINE c == Head(unregister)
  <2>1. /\ task[Run] = NoTask
        /\ clients' = clients \ {c}
        /\ closed' = [closed EXCEPT ![c] = @ \/ c \in clients]
        /\ UNCHANGED <<register, handler, task>>
    BY <1>8 DEF RemoveClient, pumps
  <2>2. c \in Conns
    BY <1>8 DEF RemoveClient, TypeInv, TypeOK
  <2> HIDE DEF c
  <2>3. closed \in [Conns -> BOOLEAN] /\ clients \subseteq Conns
    BY DEF TypeInv, TypeOK
  <2>4. \A d \in Conns : closed'[d] <=> closed[d] \/ (d = c /\ c \in clients)
    BY <2>1, <2>2, <2>3
  <2>5. \A i \in 1..Len(register) : register[i] \in Conns
    BY DEF TypeInv, TypeOK
  <2>6. \A i \in 1..Len(register) : register[i] \notin clients' /\ ~closed'[register[i]]
    BY <2>1, <2>4, <2>5 DEF RegistryInv
  <2>7. \A d \in Conns : handler[d] # "done" => d \notin clients' /\ ~closed'[d]
    BY <2>1, <2>4 DEF RegistryInv
  <2>8. \A d \in Conns : closed'[d] => d \notin clients'
    BY <2>1, <2>4 DEF RegistryInv
  <2>9. task'[Run].conns \subseteq clients'
    BY <2>1 DEF NoTask
  <2>. QED
    BY <2>1, <2>6, <2>7, <2>8, <2>9 DEF RegistryInv
<1>9. CASE TakeEnvelope
  <2>1. UNCHANGED <<clients, register, closed, handler>>
    BY <1>9 DEF TakeEnvelope, pumps
  <2>2. task \in [{Run} \cup Events -> Tasks]
    BY DEF TypeInv, TypeOK
  <2>3. task'[Run].conns = {}
    BY <1>9, <2>2 DEF TakeEnvelope
  <2>. QED
    BY <2>1, <2>3 DEF RegistryInv
<1>10. CASE UNCHANGED vars
  BY <1>10, RegistryFrame DEF vars, chans, pumps
<1>11. Run \in {Run} \cup Events /\ \A e \in Events : e \in {Run} \cup Events
  OBVIOUS
<1>. QED
  BY <1>1, <1>2, <1>3, <1>4, <1>5, <1>6, <1>7, <1>8, <1>9, <1>10, <1>11
  DEF Next, RunStep, SpillStep, HandlerStep

\* RegistryInv holds in every reachable state.
LEMMA RegistryInvariant == Spec => [](TypeInv /\ RegistryInv)
<1>1. Init => RegistryInv
  BY DEF Init, RegistryInv, NoTask
<1>. QED
  BY <1>1, RegistryInductive, TypeInvariant, PTL DEF Spec

\* Whatever the capacities, and in whatever order clients are registered, unregistered
\* and served, Run holds open clients only (RunServesOpen).
THEOREM RunSafe == Spec => []RunServesOpen
<1>1. RegistryInv => RunServesOpen
  BY DEF RegistryInv, RunServesOpen
<1>. QED
  BY <1>1, RegistryInvariant, PTL

-----------------------------------------------------------------------------
(* No panic while there is no spill *)

\* No spill has anything to deliver: no broadcast has found its channel full.
NoSpills == \A e \in Events : task[e] = NoTask

\* Without a spill no step panics: Run delivers to open connections only.
LEMMA CalmStep ==
  ASSUME TypeInv, RegistryInv, NoSpills, ~panicked, [Next]_vars
  PROVE  ~panicked'
<1>1. ASSUME NEW c \in Conns,
             HandlerStep(c) \/ PeerGone(c) \/ ReadFrame(c) \/ ReaderStep(c) \/ WriterStep(c)
               \/ KickStep(c)
      PROVE  panicked' = panicked
  <2>1. CASE HandlerStep(c) \/ PeerGone(c) \/ ReadFrame(c)
    BY <2>1 DEF HandlerStep, Connect, RegisterAndServe, PeerGone, ReadFrame
  <2>2. CASE ReaderStep(c)
    BY <2>2 DEF ReaderStep, ReaderRuns, ReadBreaks, ReplyCheck, ReplyPush, ReadFails,
                ReaderUnregCheck, ReaderUnregSend
  <2>3. CASE WriterStep(c)
    BY <2>3 DEF WriterStep, WriterRuns, WriteBreaks, Write, WriteFails, WriterUnregCheck,
                WriterUnregSend
  <2>4. CASE KickStep(c)
    BY <2>4 DEF KickStep, KickCheck, KickSend
  <2>. QED
    BY <1>1, <2>1, <2>2, <2>3, <2>4
<1>2. CASE HandleEvent
  BY <1>2 DEF HandleEvent
<1>3. ASSUME NEW e \in Events
      PROVE  ~SpillStep(e)
  <2>1. task[e].users = {} /\ task[e].conns = {}
    BY DEF NoSpills, NoTask
  <2>. QED
    BY <2>1 DEF SpillStep, Snapshot, Deliver
<1>4. CASE Snapshot(Run)
  BY <1>4 DEF Snapshot
<1>5. CASE Deliver(Run)
  <2>1. PICK c \in task[Run].conns : closed[c] \/ panicked' = panicked
    BY <1>5 DEF Deliver
  <2>2. c \in Conns
    BY DEF TypeInv, TypeOK, Tasks
  <2>3. ~closed[c]
    BY <2>2 DEF RegistryInv
  <2>. QED
    BY <2>1, <2>3
<1>6. CASE AddClient \/ RemoveClient \/ TakeEnvelope
  BY <1>6 DEF AddClient, RemoveClient, TakeEnvelope
<1>7. CASE UNCHANGED vars
  BY <1>7 DEF vars
<1>. QED
  BY <1>1, <1>2, <1>3, <1>4, <1>5, <1>6, <1>7 DEF Next, RunStep

\* As long as no broadcast finds its channel full no goroutine panics (NoPanic): the
\* panic of SendToUser needs a spill.
THEOREM PanicNeedsSpill == Spec /\ []NoSpills => []NoPanic
<1>1. Init => NoPanic
  BY DEF Init, NoPanic
<1>2. TypeInv /\ RegistryInv /\ NoSpills /\ NoPanic /\ [Next]_vars => NoPanic'
  BY CalmStep DEF NoPanic
<1>. QED
  BY <1>1, <1>2, RegistryInvariant, PTL DEF Spec

-----------------------------------------------------------------------------
(* What a step does to the frames a connection was given *)

\* The events of a sequence of frames, none twice, in the order of the consumer.
EventsIn(s) == {s[i] : i \in DOMAIN s} \ {Reply}
Distinct(s) == \A i, j \in DOMAIN s : s[i] = s[j] /\ s[i] # Reply => i = j
Sorted(s) == \A i, j \in DOMAIN s : i < j /\ s[i] # Reply /\ s[j] # Reply => s[i] < s[j]

\* A reply at the end of a buffer says nothing of the events in it.
LEMMA ReplyAppended ==
  ASSUME NEW s \in Seq({Reply} \cup Events)
  PROVE  /\ EventsIn(Append(s, Reply)) = EventsIn(s)
         /\ Distinct(s) => Distinct(Append(s, Reply))
         /\ Sorted(s) => Sorted(Append(s, Reply))
<1> DEFINE r == Append(s, Reply)
<1>1. /\ DOMAIN s = 1..Len(s) /\ DOMAIN r = 1..(Len(s) + 1) /\ Len(s) \in Nat
      /\ \A i \in 1..Len(s) : r[i] = s[i]
      /\ r[Len(s) + 1] = Reply
  BY DEF Reply
<1>2. \A i \in DOMAIN r : r[i] # Reply => i \in DOMAIN s /\ r[i] = s[i]
  BY <1>1
<1>3. \A i \in DOMAIN s : i \in DOMAIN r /\ r[i] = s[i]
  BY <1>1
<1> HIDE DEF r
<1>4. EventsIn(r) = EventsIn(s)
  BY <1>2, <1>3 DEF EventsIn
<1>5. Distinct(s) => Distinct(r)
  BY <1>2 DEF Distinct
<1>6. Sorted(s) => Sorted(r)
  BY <1>2 DEF Sorted
<1>. QED
  BY <1>4, <1>5, <1>6 DEF r

\* An event at the end of a buffer is one more of its events, and keeps them distinct or
\* sorted when it is new to them or after them.
LEMMA EventAppended ==
  ASSUME NEW s \in Seq({Reply} \cup Events), NEW x \in Events
  PROVE  /\ EventsIn(Append(s, x)) = EventsIn(s) \cup {x}
         /\ Distinct(s) /\ x \notin EventsIn(s) => Distinct(Append(s, x))
         /\ Sorted(s) /\ (\A y \in EventsIn(s) : y < x) => Sorted(Append(s, x))
<1> DEFINE r == Append(s, x)
<1>1. /\ DOMAIN s = 1..Len(s) /\ DOMAIN r = 1..(Len(s) + 1) /\ Len(s) \in Nat
      /\ \A i \in 1..Len(s) : r[i] = s[i]
      /\ r[Len(s) + 1] = x
  OBVIOUS
<1>2. x # Reply
  BY ConstantsAssumption DEF Events, Reply
<1> HIDE DEF r
<1>3. \A i \in DOMAIN s : i \in DOMAIN r /\ r[i] = s[i] /\ i < Len(s) + 1
  BY <1>1
<1>4. \A i \in DOMAIN r : \/ i = Len(s) + 1 /\ r[i] = x
                          \/ i \in DOMAIN s /\ r[i] = s[i]
  BY <1>1
<1>5. Len(s) + 1 \in DOMAIN r
  BY <1>1
<1>6. Len(s) + 1 \notin DOMAIN s /\ ~(Len(s) + 1 < Len(s) + 1)
      /\ \A i \in DOMAIN s : ~(Len(s) + 1 < i)
  BY <1>1
<1>7. r[Len(s) + 1] = x
  BY <1>1
<1> DEFINE n == Len(s) + 1
<1> HIDE DEF n
<1>8. EventsIn(r) = EventsIn(s) \cup {x}
  BY <1>2, <1>3, <1>4, <1>5, <1>7 DEF EventsIn, n
<1>9. Distinct(s) /\ x \notin EventsIn(s) => Distinct(r)
  <2> SUFFICES ASSUME Distinct(s), x \notin EventsIn(s),
                      NEW i \in DOMAIN r, NEW j \in DOMAIN r, r[i] = r[j], r[i] # Reply
               PROVE  i = j
    BY DEF Distinct
  <2>1. \A k \in DOMAIN s : s[k] # Reply => s[k] # x
    BY DEF EventsIn
  <2>. QED
    BY <1>4, <2>1 DEF Distinct, n
<1>10. Sorted(s) /\ (\A y \in EventsIn(s) : y < x) => Sorted(r)
  <2> SUFFICES ASSUME Sorted(s), \A y \in EventsIn(s) : y < x,
                      NEW i \in DOMAIN r, NEW j \in DOMAIN r, i < j,
                      r[i] # Reply, r[j] # Reply
               PROVE  r[i] < r[j]
    BY DEF Sorted
  <2>1. \A k \in DOMAIN s : s[k] # Reply => s[k] < x
    BY DEF EventsIn
  <2>2. i \in DOMAIN s /\ r[i] = s[i]
    BY <1>4, <1>6 DEF n
  <2>3. CASE j \in DOMAIN s /\ r[j] = s[j]
    BY <2>2, <2>3 DEF Sorted
  <2>4. CASE r[j] = x
    BY <2>1, <2>2, <2>4
  <2>. QED
    BY <1>4, <2>3, <2>4
<1>. QED
  BY <1>8, <1>9, <1>10 DEF r

\* What a connection was given are frames, and Given, GivenOnce and InOrder speak of the
\* events among them.
LEMMA ReceivedFrames ==
  ASSUME TypeInv
  PROVE  /\ \A c \in Conns : /\ Received(c) \in Seq({Reply} \cup Events)
                             /\ Given(c) \subseteq Events
                             /\ Given(c) = EventsIn(Received(c))
         /\ GivenOnce <=> \A c \in Conns : Distinct(Received(c))
         /\ InOrder <=> \A c \in Conns : Sorted(Received(c))
<1>1. ASSUME NEW c \in Conns
      PROVE  Received(c) \in Seq({Reply} \cup Events)
  <2>1. delivered[c] \in Seq({Reply} \cup Events) /\ send[c] \in Seq({Reply} \cup Events)
    BY DEF TypeInv, TypeOK
  <2>. QED
    BY <2>1 DEF Received
<1>2. ASSUME NEW c \in Conns
      PROVE  Given(c) = EventsIn(Received(c)) /\ Given(c) \subseteq Events
  <2>1. Given(c) = EventsIn(Received(c))
    BY DEF Given, EventsIn
  <2>2. \A i \in DOMAIN Received(c) : Received(c)[i] \in {Reply} \cup Events
    BY <1>1
  <2>. QED
    BY <2>1, <2>2 DEF EventsIn
<1>. QED
  BY <1>1, <1>2 DEF GivenOnce, InOrder, Distinct, Sorted

\* A frame moves from the buffer to the socket, or is put at the end of the buffer.
LEMMA ReceivedMoves ==
  ASSUME TypeInv, NEW c \in Conns
  PROVE  /\ send'[c] = send[c] /\ delivered'[c] = delivered[c] => Received(c)' = Received(c)
         /\ \A x \in {Reply} \cup Events :
              send'[c] = Append(send[c], x) /\ delivered'[c] = delivered[c]
                => Received(c)' = Append(Received(c), x)
         /\ /\ send[c] # <<>> /\ send'[c] = Tail(send[c])
            /\ delivered'[c] = Append(delivered[c], Head(send[c]))
            => Received(c)' = Received(c)
<1> DEFINE S == {Reply} \cup Events
           d == delivered[c]
           s == send[c]
<1>1. d \in Seq(S) /\ s \in Seq(S)
  BY DEF TypeInv, TypeOK
<1> HIDE DEF S, d, s
<1>2. \A x \in S : d \o Append(s, x) = Append(d \o s, x)
  <2> SUFFICES ASSUME NEW x \in S PROVE d \o Append(s, x) = Append(d \o s, x)
    OBVIOUS
  <2>1. Append(s, x) = s \o <<x>>
    BY <1>1, AppendIsConcat
  <2>2. d \o s \in Seq(S) /\ <<x>> \in Seq(S)
    BY <1>1
  <2>3. Append(d \o s, x) = (d \o s) \o <<x>>
    BY <2>2, AppendIsConcat
  <2>. QED
    BY <1>1, <2>1, <2>2, <2>3, ConcatAssociative
<1>3. s # <<>> => Append(d, Head(s)) \o Tail(s) = d \o s
  <2> SUFFICES ASSUME s # <<>> PROVE Append(d, Head(s)) \o Tail(s) = d \o s
    OBVIOUS
  <2>1. Head(s) \in S /\ Tail(s) \in Seq(S)
    BY <1>1
  <2>2. Append(d, Head(s)) = d \o <<Head(s)>> /\ <<Head(s)>> \in Seq(S)
    BY <1>1, <2>1, AppendIsConcat
  <2>3. <<Head(s)>> \o Tail(s) = s
    BY <1>1, <2>1
  <2>. QED
    BY <1>1, <2>1, <2>2, <2>3, ConcatAssociative
<1>. QED
  BY <1>2, <1>3 DEF Received, S, d, s

\* A task somebody still waits for, and whether a connection is among them.
Busy(t) == task[t].conns # {} \/ task[t].users # {}
Pending(t, c) == c \in task[t].conns \/ UserOf[c] \in task[t].users

Carriers == {Run} \cup Events

\* A step outside the fan-out leaves the events where they are; a connection is given a
\* reply at most.
QuietStep ==
  /\ UNCHANGED <<broadcast, next, task, dropped>>
  /\ \A d \in Conns : Received(d)' = Received(d) \/ Received(d)' = Append(Received(d), Reply)

\* The steps of handlers, pumps and kicks are quiet and leave the registry alone; only
\* the connection itself is given a reply, and not after it is closed.
LEMMA ConnStepQuiet ==
  ASSUME TypeInv, NEW c \in Conns,
         HandlerStep(c) \/ PeerGone(c) \/ ReadFrame(c) \/ ReaderStep(c) \/ WriterStep(c)
           \/ KickStep(c)
  PROVE  /\ QuietStep /\ UNCHANGED <<clients, closed>>
         /\ \A d \in Conns : \/ Received(d)' = Received(d)
                             \/ /\ d = c /\ ~closed[c]
                                /\ Received(d)' = Append(Received(d), Reply)
<1>1. UNCHANGED <<broadcast, next, task, dropped, clients, closed>>
  <2>1. CASE HandlerStep(c) \/ PeerGone(c) \/ ReadFrame(c)
    BY <2>1 DEF HandlerStep, Connect, RegisterAndServe, PeerGone, ReadFrame, chans, ghosts
  <2>2. CASE ReaderStep(c)
    BY <2>2 DEF ReaderStep, ReaderRuns, ReadBreaks, ReplyCheck, ReplyPush, ReadFails,
                  ReaderUnregCheck,
                ReaderUnregSend, chans, ghosts
  <2>3. CASE WriterStep(c)
    BY <2>3 DEF WriterStep, WriterRuns, WriteBreaks, Write, WriteFails,
           WriterUnregCheck, WriterUnregSend, chans, ghosts
  <2>4. CASE KickStep(c)
    BY <2>4 DEF KickStep, KickCheck, KickSend, chans, ghosts
  <2>. QED
    BY <2>1, <2>2, <2>3, <2>4
<1>2. \/ UNCHANGED <<send, delivered>>
      \/ ~closed[c] /\ UNCHANGED delivered /\ send' = [send EXCEPT ![c] = Append(@, Reply)]
      \/ Write(c)
  <2>1. CASE HandlerStep(c) \/ PeerGone(c) \/ ReadFrame(c)
    BY <2>1 DEF HandlerStep, Connect, RegisterAndServe, PeerGone, ReadFrame, ghosts
  <2>2. CASE ReaderStep(c)
    BY <2>2 DEF ReaderStep, ReaderRuns, ReadBreaks, ReplyCheck, ReplyPush, ReadFails,
                  ReaderUnregCheck,
                ReaderUnregSend, ghosts
  <2>3. CASE WriterStep(c)
    BY <2>3 DEF WriterStep, WriterRuns, WriteBreaks, WriteFails, WriterUnregCheck, WriterUnregSend, ghosts
  <2>4. CASE KickStep(c)
    BY <2>4 DEF KickStep, KickCheck, KickSend, ghosts
  <2>. QED
    BY <2>1, <2>2, <2>3, <2>4
<1>3. send \in [Conns -> Seq({Reply} \cup Events)]
      /\ delivered \in [Conns -> Seq({Reply} \cup Events)]
  BY DEF TypeInv, TypeOK
<1>4. ASSUME NEW d \in Conns
      PROVE  \/ Received(d)' = Received(d)
             \/ d = c /\ ~closed[c] /\ Received(d)' = Append(Received(d), Reply)
  <2>1. CASE UNCHANGED <<send, delivered>>
    BY <2>1, ReceivedMoves
  <2>2. CASE /\ ~closed[c] /\ UNCHANGED delivered
             /\ send' = [send EXCEPT ![c] = Append(@, Reply)]
    <3>1. send'[d] = IF d = c THEN Append(send[d], Reply) ELSE send[d]
      BY <1>3, <2>2
    <3>. QED
      BY <2>2, <3>1, ReceivedMoves
  <2>3. CASE Write(c)
    <3>1. /\ send[c] # <<>>
          /\ send'[d] = IF d = c THEN Tail(send[d]) ELSE send[d]
          /\ delivered'[d] = IF d = c THEN Append(delivered[d], Head(send[d])) ELSE delivered[d]
      BY <1>3, <2>3 DEF Write
    <3>. QED
      BY <3>1, ReceivedMoves
  <2>. QED
    BY <1>2, <2>1, <2>2, <2>3
<1>. QED
  BY <1>1, <1>4 DEF QuietStep

\* Run's work on the registry is quiet, and so is standing still.
LEMMA RegistryStepQuiet ==
  ASSUME TypeInv, AddClient \/ RemoveClient \/ UNCHANGED vars
  PROVE  QuietStep
<1>1. UNCHANGED <<broadcast, next, task, dropped, send, delivered>>
  BY DEF AddClient, RemoveClient, vars, chans, ghosts
<1>2. \A d \in Conns : Received(d)' = Received(d)
  BY <1>1, ReceivedMoves
<1>. QED
  BY <1>1, <1>2 DEF QuietStep

\* The remaining users and connections of a task, and its event while there are any.
LEMMA SettledTask ==
  ASSUME NEW e, NEW us, NEW cs
  PROVE  /\ Settled(e, us, cs).users = us /\ Settled(e, us, cs).conns = cs
         /\ us # {} \/ cs # {} => Settled(e, us, cs).ev = e
BY DEF Settled, NoTask

\* Snapshot moves the connections of one of the waiting users into the task.
LEMMA SnapshotMoves ==
  ASSUME TypeInv, NEW t \in Carriers, Snapshot(t)
  PROVE  /\ task[t].conns = {}
         /\ \E u \in task[t].users :
              /\ task'[t].users = task[t].users \ {u}
              /\ task'[t].conns = {c \in clients : UserOf[c] = u}
         /\ Busy(t)' => task'[t].ev = task[t].ev
         /\ \A s \in Carriers \ {t} : task'[s] = task[s]
         /\ UNCHANGED <<clients, register, closed, handler, broadcast, next, dropped>>
         /\ \A d \in Conns : Received(d)' = Received(d)
<1>1. task[t].conns = {} /\ UNCHANGED <<send, delivered>>
      /\ UNCHANGED <<clients, register, closed, handler, broadcast, next, dropped>>
  BY DEF Snapshot, chans, pumps, ghosts
<1>2. PICK u \in task[t].users :
        task' = [task EXCEPT ![t] =
                   Settled(@.ev, @.users \ {u}, {c \in clients : UserOf[c] = u})]
  BY DEF Snapshot
<1>3. task \in [Carriers -> Tasks]
  BY DEF TypeInv, TypeOK, Carriers
<1>4. task'[t] = Settled(task[t].ev, task[t].users \ {u}, {c \in clients : UserOf[c] = u})
      /\ \A s \in Carriers \ {t} : task'[s] = task[s]
  BY <1>2, <1>3
<1>5. /\ task'[t].users = task[t].users \ {u}
      /\ task'[t].conns = {c \in clients : UserOf[c] = u}
  BY <1>4, SettledTask
<1>6. Busy(t)' => task'[t].ev = task[t].ev
  <2> DEFINE us == task[t].users \ {u}
             cs == {c \in clients : UserOf[c] = u}
  <2>1. Busy(t)' <=> cs # {} \/ us # {}
    BY <1>5 DEF Busy
  <2> HIDE DEF cs, us
  <2>2. cs # {} \/ us # {} => Settled(task[t].ev, us, cs).ev = task[t].ev
    BY SettledTask
  <2>3. task'[t] = Settled(task[t].ev, us, cs)
    BY <1>4 DEF cs, us
  <2>. QED
    BY <2>1, <2>2, <2>3
<1>7. \A d \in Conns : Received(d)' = Received(d)
  BY <1>1, ReceivedMoves
<1>. QED
  BY <1>1, <1>4, <1>5, <1>6, <1>7

\* Deliver gives the event to one connection of the task, or drops it, or panics.
LEMMA DeliverGives ==
  ASSUME TypeInv, NEW t \in Carriers, Deliver(t)
  PROVE  \E c \in task[t].conns :
           /\ c \in Conns /\ task[t].ev \in Events
           /\ task'[t].users = task[t].users
           /\ task'[t].conns = task[t].conns \ {c}
           /\ Busy(t)' => task'[t].ev = task[t].ev
           /\ \A s \in Carriers \ {t} : task'[s] = task[s]
           /\ UNCHANGED <<clients, register, closed, handler, broadcast, next>>
           /\ \A d \in Conns \ {c} : Received(d)' = Received(d) /\ dropped'[d] = dropped[d]
           /\ \/ closed[c] /\ Received(c)' = Received(c) /\ dropped'[c] = dropped[c]
              \/ /\ ~closed[c] /\ Received(c)' = Append(Received(c), task[t].ev)
                 /\ dropped'[c] = dropped[c]
              \/ Received(c)' = Received(c) /\ dropped'[c] = dropped[c] \cup {task[t].ev}
<1>1. PICK c \in task[t].conns :
        /\ task' = [task EXCEPT ![t] = Settled(@.ev, @.users, @.conns \ {c})]
        /\ \/ closed[c] /\ panicked' = TRUE /\ UNCHANGED <<send, kick, dropped>>
           \/ /\ ~closed[c] /\ HasRoom(send[c], SendCap)
              /\ send' = [send EXCEPT ![c] = Append(@, task[t].ev)]
              /\ UNCHANGED <<kick, panicked, dropped>>
           \/ /\ ~closed[c] /\ ~HasRoom(send[c], SendCap)
              /\ kick' = [kick EXCEPT ![c].check = @ + 1]
              /\ dropped' = [dropped EXCEPT ![c] = @ \cup {task[t].ev}]
              /\ UNCHANGED <<send, panicked>>
  BY DEF Deliver
<1>2. /\ task \in [Carriers -> Tasks] /\ dropped \in [Conns -> SUBSET Events]
      /\ send \in [Conns -> Seq({Reply} \cup Events)]
  BY DEF TypeInv, TypeOK, Carriers
<1>3. c \in Conns /\ task[t].ev \in Events
  BY <1>1, <1>2 DEF TypeInv, Tasks, Carriers
<1>4. task'[t] = Settled(task[t].ev, task[t].users, task[t].conns \ {c})
      /\ \A s \in Carriers \ {t} : task'[s] = task[s]
  BY <1>1, <1>2
<1>5. task'[t].users = task[t].users /\ task'[t].conns = task[t].conns \ {c}
  BY <1>4, SettledTask
<1>6. Busy(t)' => task'[t].ev = task[t].ev
  <2> DEFINE cs == task[t].conns \ {c}
  <2>1. Busy(t)' <=> cs # {} \/ task[t].users # {}
    BY <1>5 DEF Busy
  <2> HIDE DEF cs
  <2>2. cs # {} \/ task[t].users # {} => Settled(task[t].ev, task[t].users, cs).ev = task[t].ev
    BY SettledTask
  <2>3. task'[t] = Settled(task[t].ev, task[t].users, cs)
    BY <1>4 DEF cs
  <2>. QED
    BY <2>1, <2>2, <2>3
<1>7. UNCHANGED <<clients, register, closed, handler, broadcast, next, delivered>>
  BY DEF Deliver, chans, pumps
<1>8. \/ closed[c] /\ UNCHANGED <<send, dropped>>
      \/ ~closed[c] /\ send' = [send EXCEPT ![c] = Append(@, task[t].ev)] /\ UNCHANGED dropped
      \/ UNCHANGED send /\ dropped' = [dropped EXCEPT ![c] = @ \cup {task[t].ev}]
  BY <1>1
<1>9. \A d \in Conns \ {c} : Received(d)' = Received(d) /\ dropped'[d] = dropped[d]
  <2> SUFFICES ASSUME NEW d \in Conns \ {c}
               PROVE  Received(d)' = Received(d) /\ dropped'[d] = dropped[d]
    OBVIOUS
  <2>1. send'[d] = send[d] /\ dropped'[d] = dropped[d]
    BY <1>2, <1>8
  <2>. QED
    BY <1>7, <2>1, ReceivedMoves
<1>10. \/ closed[c] /\ Received(c)' = Received(c) /\ dropped'[c] = dropped[c]
       \/ /\ ~closed[c] /\ Received(c)' = Append(Received(c), task[t].ev)
          /\ dropped'[c] = dropped[c]
       \/ Received(c)' = Received(c) /\ dropped'[c] = dropped[c] \cup {task[t].ev}
  <2>1. CASE closed[c] /\ UNCHANGED <<send, dropped>>
    BY <1>3, <1>7, <2>1, ReceivedMoves
  <2>2. CASE /\ ~closed[c] /\ send' = [send EXCEPT ![c] = Append(@, task[t].ev)]
             /\ UNCHANGED dropped
    <3>1. send'[c] = Append(send[c], task[t].ev)
      BY <1>2, <1>3, <2>2
    <3>. QED
      BY <1>3, <1>7, <2>2, <3>1, ReceivedMoves
  <2>3. CASE UNCHANGED send /\ dropped' = [dropped EXCEPT ![c] = @ \cup {task[t].ev}]
    <3>1. dropped'[c] = dropped[c] \cup {task[t].ev}
      BY <1>2, <1>3, <2>3
    <3>. QED
      BY <1>3, <1>7, <2>3, <3>1, ReceivedMoves
  <2>. QED
    BY <1>8, <2>1, <2>2, <2>3
<1>. QED
  BY <1>3, <1>4, <1>5, <1>6, <1>7, <1>9, <1>10

\* What the registered connections were given after each kind of step.
LEMMA GivenMoves ==
  ASSUME TypeInv, TypeInv', NEW c \in Conns
  PROVE  /\ Received(c)' = Received(c) => Given(c)' = Given(c)
         /\ Received(c)' = Append(Received(c), Reply) => Given(c)' = Given(c)
         /\ \A x \in Events : Received(c)' = Append(Received(c), x)
              => Given(c)' = Given(c) \cup {x}
<1> DEFINE s == Received(c)
<1>1. s \in Seq({Reply} \cup Events) /\ Given(c) = EventsIn(s)
  BY ReceivedFrames
<1>2. Given(c)' = EventsIn(s')
  BY DEF Given, EventsIn
<1> HIDE DEF s
<1>3. s' = s => EventsIn(s') = EventsIn(s)
  BY DEF EventsIn
<1>4. s' = Append(s, Reply) => EventsIn(s') = EventsIn(s)
  BY <1>1, ReplyAppended
<1>5. \A x \in Events : s' = Append(s, x) => EventsIn(s') = EventsIn(s) \cup {x}
  BY <1>1, EventAppended
<1>. QED
  BY <1>1, <1>2, <1>3, <1>4, <1>5 DEF s

-----------------------------------------------------------------------------
(* An event is given once *)

\* Where the events still to be fanned out are: in the channel or with Run or a spill,
\* each in one place only, and never with a number that is yet to come.
PlacesInv ==
  /\ \A i \in 1..Len(broadcast) : broadcast[i] <= next
  /\ \A i, j \in 1..Len(broadcast) : broadcast[i] = broadcast[j] => i = j
  /\ \A t \in Carriers : Busy(t) => /\ task[t].ev <= next
                                    /\ \A i \in 1..Len(broadcast) : broadcast[i] # task[t].ev
  /\ \A s, t \in Carriers : Busy(s) /\ Busy(t) /\ task[s].ev = task[t].ev => s = t
  /\ \A t \in Carriers : \A c \in task[t].conns : UserOf[c] \notin task[t].users

\* A connection was not given what is still to come to it, from wherever it may come.
GivenInv ==
  /\ \A c \in Conns : Distinct(Received(c))
  /\ \A c \in Conns : \A x \in Given(c) :
       /\ x <= next
       /\ \A i \in 1..Len(broadcast) : broadcast[i] # x
       /\ \A t \in Carriers : Pending(t, c) => task[t].ev # x

\* A quiet step changes nothing of this.
LEMMA QuietGiven ==
  ASSUME TypeInv, TypeInv', QuietStep
  PROVE  /\ \A c \in Conns : Given(c)' = Given(c)
         /\ PlacesInv => PlacesInv'
         /\ GivenInv => GivenInv'
<1>1. \A c \in Conns : Given(c)' = Given(c)
  BY GivenMoves DEF QuietStep
<1>2. UNCHANGED <<broadcast, next, task>>
  BY DEF QuietStep
<1>3. PlacesInv => PlacesInv'
  BY <1>2 DEF PlacesInv, Busy
<1>4. ASSUME GivenInv, NEW c \in Conns
      PROVE  Distinct(Received(c))'
  <2> DEFINE s == Received(c)
  <2>1. Distinct(s) /\ s \in Seq({Reply} \cup Events)
    BY <1>4, ReceivedFrames DEF GivenInv
  <2>2. s' = s \/ s' = Append(s, Reply)
    BY DEF QuietStep
  <2> HIDE DEF s
  <2>3. Distinct(s')
    BY <2>1, <2>2, ReplyAppended
  <2>. QED
    BY <2>3 DEF s, Distinct
<1>5. GivenInv => GivenInv'
  <2> SUFFICES ASSUME GivenInv PROVE GivenInv'
    OBVIOUS
  <2>1. \A c \in Conns : Distinct(Received(c))'
    BY <1>4
  <2>2. \A c \in Conns : \A t \in Carriers : Pending(t, c)' = Pending(t, c)
    BY <1>2 DEF Pending
  <2>3. \A c \in Conns : \A x \in Given(c)' :
          /\ x <= next'
          /\ \A i \in 1..Len(broadcast') : broadcast'[i] # x
          /\ \A t \in Carriers : Pending(t, c)' => task'[t].ev # x
    BY <1>1, <1>2, <2>2 DEF GivenInv
  <2>. QED
    BY <2>1, <2>3 DEF GivenInv
<1>. QED
  BY <1>1, <1>3, <1>5

\* PlacesInv depends on the events of the tasks somebody waits for.
LEMMA PlacesFrame ==
  ASSUME PlacesInv, UNCHANGED <<broadcast, next>>,
         \A s \in Carriers : Busy(s)' => Busy(s) /\ task'[s].ev = task[s].ev,
         \A s \in Carriers : \A c \in task'[s].conns : UserOf[c] \notin task'[s].users
  PROVE  PlacesInv'
<1>1. \A t \in Carriers : Busy(t)' => /\ task'[t].ev <= next'
                                      /\ \A i \in 1..Len(broadcast') : broadcast'[i] # task'[t].ev
  BY DEF PlacesInv
<1>2. \A s, t \in Carriers : Busy(s)' /\ Busy(t)' /\ task'[s].ev = task'[t].ev => s = t
  BY DEF PlacesInv
<1>3. /\ \A i \in 1..Len(broadcast') : broadcast'[i] <= next'
      /\ \A i, j \in 1..Len(broadcast') : broadcast'[i] = broadcast'[j] => i = j
  BY DEF PlacesInv
<1>. QED
  BY <1>1, <1>2, <1>3 DEF PlacesInv

\* PlacesInv and GivenInv are preserved by every step.
LEMMA GivenInductive ==
  ASSUME TypeInv, TypeInv', PlacesInv, GivenInv, [Next]_vars
  PROVE  PlacesInv' /\ GivenInv'
<1> USE ConstantsAssumption
<1>0. /\ task \in [Carriers -> Tasks] /\ next \in 0..MaxEvents /\ broadcast \in Seq(Events)
      /\ \A e \in Events : e \in Carriers /\ e # Run
      /\ Run \in Carriers
      /\ \A c \in Conns : Given(c) \subseteq Events
  <2>1. /\ task \in [Carriers -> Tasks] /\ next \in 0..MaxEvents /\ broadcast \in Seq(Events)
    BY DEF TypeInv, TypeOK, Carriers
  <2>2. \A e \in Events : e # Run
    BY DEF Events, Run
  <2>3. (\A e \in Events : e \in Carriers) /\ Run \in Carriers
    BY DEF Carriers
  <2>. QED
    BY <2>1, <2>2, <2>3, ReceivedFrames
<1>1. ASSUME NEW c \in Conns,
             HandlerStep(c) \/ PeerGone(c) \/ ReadFrame(c) \/ ReaderStep(c) \/ WriterStep(c)
               \/ KickStep(c)
      PROVE  PlacesInv' /\ GivenInv'
  BY <1>1, ConnStepQuiet, QuietGiven
<1>2. CASE AddClient \/ RemoveClient \/ UNCHANGED vars
  BY <1>2, RegistryStepQuiet, QuietGiven
<1>3. CASE HandleEvent
  <2> DEFINE e == next + 1
             k == [ev |-> e, users |-> Targets[e], conns |-> {}]
  <2>1. e \in Events /\ next' = e /\ \A x \in Int : x <= next => x < e
    BY <1>0, <1>3 DEF HandleEvent, Events
  <2>2. /\ UNCHANGED <<send, delivered>>
        /\ \/ UNCHANGED <<broadcast, task>>
           \/ broadcast' = Append(broadcast, e) /\ UNCHANGED task
           \/ UNCHANGED broadcast /\ task' = [task EXCEPT ![e] = k]
    BY <1>3 DEF HandleEvent, ghosts
  <2> HIDE DEF e
  <2>3. \A c \in Conns : Received(c)' = Received(c) /\ Given(c)' = Given(c)
    BY <2>2, ReceivedMoves, GivenMoves
  <2>4. \A i \in 1..Len(broadcast) : broadcast[i] \in Int /\ broadcast[i] < e
    <3>1. \A i \in 1..Len(broadcast) : broadcast[i] \in Int
      BY <1>0 DEF Events
    <3>. QED
      BY <2>1, <3>1 DEF PlacesInv
  <2>5. \A t \in Carriers : Busy(t) => task[t].ev \in Int /\ task[t].ev < e
    <3>1. \A t \in Carriers : Busy(t) => task[t].ev \in Int
      BY DEF TypeInv, Busy, Events, Carriers
    <3>. QED
      BY <2>1, <3>1 DEF PlacesInv
  <2>6. \A c \in Conns : \A x \in Given(c) : x \in Int /\ x < e
    <3>1. \A c \in Conns : \A x \in Given(c) : x \in Int
      BY <1>0 DEF Events
    <3>. QED
      BY <2>1, <3>1 DEF GivenInv
  <2>7. e \in Int
    BY <2>1 DEF Events
  \* The new event goes to one place, where it meets smaller ones only.
  <2>8. \A i \in 1..Len(broadcast') :
          \/ i \in 1..Len(broadcast) /\ broadcast'[i] = broadcast[i]
          \/ i = Len(broadcast) + 1 /\ broadcast'[i] = e /\ UNCHANGED task
    BY <1>0, <2>1, <2>2
  <2>9. \A t \in Carriers : \/ task'[t] = task[t]
                            \/ t = e /\ task'[t] = k /\ UNCHANGED broadcast
    BY <1>0, <2>1, <2>2
  <2>10. \A t \in Carriers : Busy(t)' =>
           \/ Busy(t) /\ task'[t].ev = task[t].ev
           \/ t = e /\ task'[t].ev = e /\ UNCHANGED broadcast
    BY <2>9 DEF Busy
  <2>11. PlacesInv'
    <3>1. \A i \in 1..Len(broadcast') : broadcast'[i] <= next'
      BY <2>1, <2>4, <2>7, <2>8
    <3>2. \A i, j \in 1..Len(broadcast') : broadcast'[i] = broadcast'[j] => i = j
      BY <2>4, <2>7, <2>8 DEF PlacesInv
    <3>3. \A t \in Carriers : Busy(t)' => task'[t].ev <= next'
      BY <2>1, <2>5, <2>7, <2>10
    <3>4. ASSUME NEW t \in Carriers, Busy(t)', NEW i \in 1..Len(broadcast')
          PROVE  broadcast'[i] # task'[t].ev
      <4>1. CASE Busy(t) /\ task'[t].ev = task[t].ev
        BY <2>5, <2>7, <2>8, <4>1 DEF PlacesInv
      <4>2. CASE task'[t].ev = e /\ UNCHANGED broadcast
        BY <2>4, <2>7, <4>2
      <4>. QED
        BY <2>10, <3>4, <4>1, <4>2
    <3>5. \A s, t \in Carriers : Busy(s)' /\ Busy(t)' /\ task'[s].ev = task'[t].ev => s = t
      BY <2>5, <2>7, <2>10 DEF PlacesInv
    <3>6. \A t \in Carriers : \A c \in task'[t].conns : UserOf[c] \notin task'[t].users
      BY <2>9 DEF PlacesInv
    <3>. QED
      BY <3>1, <3>2, <3>3, <3>4, <3>5, <3>6 DEF PlacesInv
  <2>12. GivenInv'
    <3>1. \A c \in Conns : Distinct(Received(c))'
      BY <2>3 DEF GivenInv, Distinct
    <3>2. ASSUME NEW c \in Conns, NEW x \in Given(c)
          PROVE  /\ x <= next'
                 /\ \A i \in 1..Len(broadcast') : broadcast'[i] # x
                 /\ \A t \in Carriers : Pending(t, c)' => task'[t].ev # x
      <4>1. x \in Int /\ x < e /\ x <= next'
        BY <2>1, <2>6, <2>7
      <4>2. \A i \in 1..Len(broadcast') : broadcast'[i] # x
        BY <2>7, <2>8, <4>1 DEF GivenInv
      <4>3. \A t \in Carriers : Pending(t, c)' => task'[t].ev # x
        BY <2>7, <2>9, <4>1 DEF GivenInv, Pending
      <4>. QED
        BY <4>1, <4>2, <4>3
    <3>. QED
      BY <2>3, <3>1, <3>2 DEF GivenInv
  <2>. QED
    BY <2>11, <2>12
<1>4. CASE TakeEnvelope
  <2> DEFINE e == Head(broadcast)
             k == [ev |-> e, users |-> Targets[e], conns |-> {}]
  <2>1. /\ broadcast # <<>> /\ broadcast' = Tail(broadcast)
        /\ task' = [task EXCEPT ![Run] = k]
        /\ UNCHANGED <<send, delivered, next>>
    BY <1>4 DEF TakeEnvelope, ghosts
  <2>2. \A c \in Conns : Received(c)' = Received(c) /\ Given(c)' = Given(c)
    BY <2>1, ReceivedMoves, GivenMoves
  <2>3. /\ 1 \in 1..Len(broadcast) /\ e = broadcast[1]
        /\ \A i \in 1..Len(broadcast') : /\ broadcast'[i] = broadcast[i + 1]
                                         /\ i + 1 \in 1..Len(broadcast) /\ i + 1 # 1
                                         /\ i \in Int
    BY <1>0, <2>1
  <2>4. task'[Run] = k /\ \A t \in Carriers \ {Run} : task'[t] = task[t]
    BY <1>0, <2>1
  <2> HIDE DEF e
  <2>5. /\ task'[Run].ev = e /\ task'[Run].conns = {}
        /\ \A t \in Carriers \ {Run} : Busy(t)' = Busy(t)
    BY <2>4 DEF Busy
  <2>6. PlacesInv'
    <3>1. \A i \in 1..Len(broadcast') : broadcast'[i] <= next'
      BY <2>1, <2>3 DEF PlacesInv
    <3>2. ASSUME NEW i \in 1..Len(broadcast'), NEW j \in 1..Len(broadcast'),
                 broadcast'[i] = broadcast'[j]
          PROVE  i = j
      <4>1. i + 1 = j + 1
        BY <2>3, <3>2 DEF PlacesInv
      <4>. QED
        BY <2>3, <4>1
    <3>3. \A i \in 1..Len(broadcast') : broadcast'[i] # e
      BY <2>3 DEF PlacesInv
    <3>4. \A t \in Carriers : Busy(t)' =>
            /\ task'[t].ev <= next'
            /\ \A i \in 1..Len(broadcast') : broadcast'[i] # task'[t].ev
      BY <2>1, <2>3, <2>4, <2>5, <3>3 DEF PlacesInv
    <3>5. \A t \in Carriers \ {Run} : Busy(t)' => task'[t].ev # e
      BY <2>3, <2>4, <2>5 DEF PlacesInv
    <3>6. \A s, t \in Carriers : Busy(s)' /\ Busy(t)' /\ task'[s].ev = task'[t].ev => s = t
      BY <2>4, <2>5, <3>5 DEF PlacesInv
    <3>7. \A t \in Carriers : \A c \in task'[t].conns : UserOf[c] \notin task'[t].users
      BY <2>4, <2>5 DEF PlacesInv
    <3>. QED
      BY <3>1, <3>2, <3>4, <3>6, <3>7 DEF PlacesInv
  <2>7. GivenInv'
    <3>1. \A c \in Conns : Distinct(Received(c))'
      BY <2>2 DEF GivenInv, Distinct
    <3>2. ASSUME NEW c \in Conns, NEW x \in Given(c)
          PROVE  /\ x <= next'
                 /\ \A i \in 1..Len(broadcast') : broadcast'[i] # x
                 /\ \A t \in Carriers : Pending(t, c)' => task'[t].ev # x
      <4>1. x <= next' /\ e # x
        BY <2>1, <2>3 DEF GivenInv
      <4>2. \A i \in 1..Len(broadcast') : broadcast'[i] # x
        BY <2>3 DEF GivenInv
      <4>3. \A t \in Carriers \ {Run} : Pending(t, c)' = Pending(t, c)
        BY <2>4 DEF Pending
      <4>4. \A t \in Carriers : Pending(t, c)' => task'[t].ev # x
        BY <2>4, <2>5, <4>1, <4>3 DEF GivenInv
      <4>. QED
        BY <4>1, <4>2, <4>4
    <3>. QED
      BY <2>2, <3>1, <3>2 DEF GivenInv
  <2>. QED
    BY <2>6, <2>7
<1>5. ASSUME NEW t \in Carriers, Snapshot(t)
      PROVE  PlacesInv' /\ GivenInv'
  <2>1. PICK u \in task[t].users :
          /\ task'[t].users = task[t].users \ {u}
          /\ task'[t].conns = {c \in clients : UserOf[c] = u}
    BY <1>5, SnapshotMoves
  <2>2. /\ Busy(t)' => task'[t].ev = task[t].ev
        /\ \A s \in Carriers \ {t} : task'[s] = task[s]
        /\ UNCHANGED <<broadcast, next>>
        /\ \A d \in Conns : Received(d)' = Received(d) /\ Given(d)' = Given(d)
    BY <1>5, SnapshotMoves, GivenMoves
  <2>3. \A s \in Carriers : Busy(s)' => Busy(s) /\ task'[s].ev = task[s].ev
    BY <2>1, <2>2 DEF Busy
  <2>4. \A s \in Carriers : \A c \in task'[s].conns : UserOf[c] \notin task'[s].users
    BY <2>1, <2>2 DEF PlacesInv
  <2>5. PlacesInv'
    BY <2>2, <2>3, <2>4, PlacesFrame
  <2>6. ASSUME NEW s \in Carriers, NEW d \in Conns, Pending(s, d)'
        PROVE  Pending(s, d) /\ task'[s].ev = task[s].ev
    <3>1. d \in task'[s].conns \/ UserOf[d] \in task'[s].users
      BY <2>6 DEF Pending
    <3>2. Busy(s)'
      BY <3>1 DEF Busy
    <3>. QED
      BY <2>1, <2>2, <2>3, <3>1, <3>2 DEF Pending
  <2>7. \A c \in Conns : Distinct(Received(c))'
    BY <2>2 DEF GivenInv, Distinct
  <2>. QED
    BY <2>2, <2>5, <2>6, <2>7 DEF GivenInv
<1>6. ASSUME NEW t \in Carriers, Deliver(t)
      PROVE  PlacesInv' /\ GivenInv'
  <2> DEFINE x == task[t].ev
  <2>1. PICK c \in task[t].conns :
          /\ c \in Conns /\ x \in Events
          /\ task'[t].users = task[t].users
          /\ task'[t].conns = task[t].conns \ {c}
          /\ Busy(t)' => task'[t].ev = x
          /\ \A s \in Carriers \ {t} : task'[s] = task[s]
          /\ UNCHANGED <<broadcast, next>>
          /\ \A d \in Conns \ {c} : Received(d)' = Received(d)
          /\ Received(c)' = Received(c) \/ Received(c)' = Append(Received(c), x)
    BY <1>6, DeliverGives
  <2>2. \A s \in Carriers : Busy(s)' => Busy(s) /\ task'[s].ev = task[s].ev
    BY <2>1 DEF Busy
  <2>3. \A s \in Carriers : \A d \in task'[s].conns : UserOf[d] \notin task'[s].users
    BY <2>1 DEF PlacesInv
  <2>4. PlacesInv'
    BY <2>1, <2>2, <2>3, PlacesFrame
  <2>5. Busy(t) /\ Pending(t, c)
    BY <2>1 DEF Busy, Pending
  <2>6. x \notin Given(c) /\ x <= next /\ \A i \in 1..Len(broadcast) : broadcast[i] # x
    BY <2>1, <2>5 DEF GivenInv, PlacesInv
  <2>7. \A d \in Conns : Given(d)' \subseteq Given(d) \cup (IF d = c THEN {x} ELSE {})
    BY <2>1, GivenMoves
  <2>8. \A d \in Conns : Distinct(Received(d))'
    <3>1. Distinct(Received(c)')
      <4>1. Received(c) \in Seq({Reply} \cup Events) /\ Given(c) = EventsIn(Received(c))
        BY <2>1, ReceivedFrames
      <4>2. Distinct(Received(c))
        BY <2>1 DEF GivenInv
      <4>3. Received(c)' = Append(Received(c), x) => Distinct(Received(c)')
        BY <2>1, <2>6, <4>1, <4>2, EventAppended
      <4>. QED
        BY <2>1, <4>2, <4>3
    <3>2. \A d \in Conns \ {c} : Distinct(Received(d)')
      BY <2>1 DEF GivenInv
    <3>. QED
      BY <3>1, <3>2 DEF Distinct
  <2>9. ASSUME NEW s \in Carriers, NEW d \in Conns, Pending(s, d)'
        PROVE  Pending(s, d) /\ task'[s].ev = task[s].ev
    <3>1. d \in task'[s].conns \/ UserOf[d] \in task'[s].users
      BY <2>9 DEF Pending
    <3>2. Busy(s)'
      BY <3>1 DEF Busy
    <3>. QED
      BY <2>1, <2>2, <3>1, <3>2 DEF Pending
  \* The event is nowhere else on its way to this connection.
  <2>10. ASSUME NEW s \in Carriers, Pending(s, c)'
         PROVE  task'[s].ev # x
    <3>1. s # t
      <4>1. c \notin task'[t].conns /\ UserOf[c] \notin task'[t].users
        BY <2>1 DEF PlacesInv
      <4>. QED
        BY <2>10, <4>1 DEF Pending
    <3>2. Pending(s, c) /\ task'[s].ev = task[s].ev
      BY <2>1, <2>9, <2>10
    <3>3. Busy(s)
      BY <3>2 DEF Busy, Pending
    <3>. QED
      BY <2>5, <3>1, <3>2, <3>3 DEF PlacesInv
  <2>11. ASSUME NEW d \in Conns, NEW y \in Given(d)'
         PROVE  /\ y <= next'
                /\ \A i \in 1..Len(broadcast') : broadcast'[i] # y
                /\ \A s \in Carriers : Pending(s, d)' => task'[s].ev # y
    <3>1. CASE y \in Given(d)
      BY <2>1, <2>9, <3>1 DEF GivenInv
    <3>2. CASE d = c /\ y = x
      BY <2>1, <2>6, <2>10, <3>2
    <3>. QED
      BY <2>7, <2>11, <3>1, <3>2
  <2>. QED
    BY <2>4, <2>8, <2>11 DEF GivenInv
<1>. QED
  BY <1>0, <1>1, <1>2, <1>3, <1>4, <1>5, <1>6 DEF Next, RunStep, SpillStep

\* PlacesInv and GivenInv hold in every reachable state.
LEMMA GivenInvariant == Spec => [](TypeInv /\ PlacesInv /\ GivenInv)
<1>1. Init => PlacesInv /\ GivenInv
  <2> SUFFICES ASSUME Init PROVE PlacesInv /\ GivenInv
    OBVIOUS
  <2>1. /\ Len(broadcast) = 0 /\ \A t \in Carriers : task[t] = NoTask
        /\ \A c \in Conns : delivered[c] = <<>> /\ send[c] = <<>>
    BY DEF Init, Carriers
  <2>2. \A c \in Conns : Received(c) = <<>>
    BY <2>1 DEF Received
  <2>3. \A c \in Conns : Distinct(Received(c)) /\ Given(c) = {}
    BY <2>2 DEF Distinct, Given
  <2>4. \A t \in Carriers : ~Busy(t) /\ task[t].conns = {}
    BY <2>1 DEF Busy, NoTask
  <2>. QED
    BY <2>1, <2>3, <2>4 DEF PlacesInv, GivenInv
<1>2. TypeInv /\ TypeInv' /\ PlacesInv /\ GivenInv /\ [Next]_vars => PlacesInv' /\ GivenInv'
  BY GivenInductive
<1>. QED
  BY <1>1, <1>2, TypeInvariant, PTL DEF Spec

\* Whatever the capacities, and whether Run or spills fan the events out, no connection is
\* given an event twice (GivenOnce).
THEOREM NeverTwice == Spec => []GivenOnce
<1>1. TypeInv /\ GivenInv => GivenOnce
  BY ReceivedFrames DEF GivenInv
<1>. QED
  BY <1>1, GivenInvariant, PTL

-----------------------------------------------------------------------------
(* The events come in order while there is no spill *)

\* Why the order is kept: the channel is sorted, what Run has in hand precedes it, and
\* what a connection was given precedes both.
OrderInv ==
  /\ \A c \in Conns : Sorted(Received(c))
  /\ \A i, j \in 1..Len(broadcast) : i < j => broadcast[i] < broadcast[j]
  /\ Busy(Run) => \A i \in 1..Len(broadcast) : task[Run].ev < broadcast[i]
  /\ \A c \in Conns : \A x \in Given(c) :
       /\ \A i \in 1..Len(broadcast) : x < broadcast[i]
       /\ Pending(Run, c) => x < task[Run].ev

\* A spill without a task does nothing.
LEMMA SpillsRest ==
  ASSUME NoSpills, NEW e \in Events
  PROVE  ~SpillStep(e)
<1>1. task[e].users = {} /\ task[e].conns = {}
  BY DEF NoSpills, NoTask
<1>. QED
  BY <1>1 DEF SpillStep, Snapshot, Deliver

\* Without a spill an event with targets is put at the end of the broadcast channel.
LEMMA EventQueued ==
  ASSUME TypeInv, NoSpills, NoSpills', HandleEvent
  PROVE  /\ next + 1 \in Events /\ next' = next + 1
         /\ UNCHANGED <<clients, register, closed, handler, task, send, delivered, dropped>>
         /\ \/ UNCHANGED broadcast /\ Targets[next + 1] = {}
            \/ broadcast' = Append(broadcast, next + 1)
<1> DEFINE e == next + 1
           k == [ev |-> e, users |-> Targets[e], conns |-> {}]
<1>1. e \in Events
  BY ConstantsAssumption DEF HandleEvent, TypeInv, TypeOK, Events
<1>2. /\ next' = e
      /\ UNCHANGED <<clients, register, closed, handler, send, delivered, dropped>>
      /\ \/ UNCHANGED <<broadcast, task>> /\ Targets[e] = {}
         \/ broadcast' = Append(broadcast, e) /\ UNCHANGED task
         \/ Targets[e] # {} /\ task' = [task EXCEPT ![e] = k]
  BY DEF HandleEvent, pumps, ghosts
<1> HIDE DEF e
<1>3. ~(Targets[e] # {} /\ task' = [task EXCEPT ![e] = k])
  <2> SUFFICES ASSUME Targets[e] # {}, task' = [task EXCEPT ![e] = k] PROVE FALSE
    OBVIOUS
  <2>1. task'[e] = k
    BY <1>1 DEF TypeInv, TypeOK
  <2>2. k.users = {}
    BY <1>1, <2>1 DEF NoSpills, NoTask
  <2>. QED
    BY <2>2
<1>. QED
  BY <1>1, <1>2, <1>3 DEF e

\* OrderInv is preserved by every step from and to a state without spills.
LEMMA OrderInductive ==
  ASSUME TypeInv, TypeInv', PlacesInv, GivenInv, NoSpills, NoSpills', OrderInv, [Next]_vars
  PROVE  OrderInv'
<1> USE ConstantsAssumption
<1>0. /\ task \in [Carriers -> Tasks] /\ next \in 0..MaxEvents /\ broadcast \in Seq(Events)
      /\ Run \in Carriers
      /\ \A c \in Conns : Given(c) \subseteq Events
      /\ Events \subseteq Int
  <2>1. task \in [Carriers -> Tasks] /\ next \in 0..MaxEvents /\ broadcast \in Seq(Events)
    BY DEF TypeInv, TypeOK, Carriers
  <2>2. Events \subseteq Int
    BY DEF Events
  <2>3. Run \in Carriers
    BY DEF Carriers
  <2>. QED
    BY <2>1, <2>2, <2>3, ReceivedFrames
<1>1. ASSUME QuietStep
      PROVE  OrderInv'
  <2>1. UNCHANGED <<broadcast, next, task>> /\ \A c \in Conns : Given(c)' = Given(c)
    BY <1>1, QuietGiven DEF QuietStep
  <2>2. ASSUME NEW c \in Conns
        PROVE  Sorted(Received(c)')
    <3> DEFINE s == Received(c)
    <3>1. Sorted(s) /\ s \in Seq({Reply} \cup Events)
      BY ReceivedFrames DEF OrderInv
    <3>2. s' = s \/ s' = Append(s, Reply)
      BY <1>1 DEF QuietStep
    <3> HIDE DEF s
    <3>3. Sorted(s')
      BY <3>1, <3>2, ReplyAppended
    <3>. QED
      BY <3>3 DEF s
  <2>3. \A c \in Conns : Sorted(Received(c))'
    BY <2>2 DEF Sorted
  <2>4. Busy(Run)' = Busy(Run) /\ \A c \in Conns : Pending(Run, c)' = Pending(Run, c)
    BY <2>1 DEF Busy, Pending
  <2>. QED
    BY <2>1, <2>3, <2>4 DEF OrderInv
<1>2. ASSUME NEW c \in Conns,
             HandlerStep(c) \/ PeerGone(c) \/ ReadFrame(c) \/ ReaderStep(c) \/ WriterStep(c)
               \/ KickStep(c)
      PROVE  OrderInv'
  BY <1>1, <1>2, ConnStepQuiet
<1>3. CASE AddClient \/ RemoveClient \/ UNCHANGED vars
  BY <1>1, <1>3, RegistryStepQuiet
<1>4. CASE HandleEvent
  <2> DEFINE e == next + 1
  <2>1. /\ e \in Events /\ UNCHANGED <<task, send, delivered>>
        /\ broadcast' = broadcast \/ broadcast' = Append(broadcast, e)
        /\ \A x \in Int : x <= next => x < e
    BY <1>0, <1>4, EventQueued
  <2> HIDE DEF e
  <2>2. \A c \in Conns : Received(c)' = Received(c) /\ Given(c)' = Given(c)
    BY <2>1, ReceivedMoves, GivenMoves
  <2>3. \A i \in 1..Len(broadcast') :
          \/ i \in 1..Len(broadcast) /\ broadcast'[i] = broadcast[i]
          \/ i = Len(broadcast) + 1 /\ broadcast'[i] = e
    BY <1>0, <2>1
  <2>4. \A i \in 1..Len(broadcast) : broadcast[i] < e
    <3>1. \A i \in 1..Len(broadcast) : broadcast[i] \in Int
      BY <1>0 DEF Events
    <3>. QED
      BY <2>1, <3>1 DEF PlacesInv
  <2>5. Busy(Run) => task[Run].ev < e
    <3>1. Busy(Run) => task[Run].ev \in Int
      BY <1>0 DEF TypeInv, Busy, Carriers
    <3>. QED
      BY <1>0, <2>1, <3>1 DEF PlacesInv
  <2>6. \A c \in Conns : \A x \in Given(c) : x < e
    BY <1>0, <2>1 DEF GivenInv
  <2>7. \A c \in Conns : Sorted(Received(c))'
    BY <2>2 DEF OrderInv, Sorted
  <2>8. ASSUME NEW i \in 1..Len(broadcast'), NEW j \in 1..Len(broadcast'), i < j
        PROVE  broadcast'[i] < broadcast'[j]
    <3>1. i \in 1..Len(broadcast) /\ broadcast'[i] = broadcast[i]
      BY <1>0, <2>1, <2>3, <2>8
    <3>. QED
      BY <2>3, <2>4, <2>8, <3>1 DEF OrderInv
  <2>9. Busy(Run)' => \A i \in 1..Len(broadcast') : task'[Run].ev < broadcast'[i]
    BY <2>1, <2>3, <2>5 DEF OrderInv, Busy
  <2>10. \A c \in Conns : \A x \in Given(c) :
           /\ \A i \in 1..Len(broadcast') : x < broadcast'[i]
           /\ Pending(Run, c)' => x < task'[Run].ev
    BY <2>1, <2>3, <2>6 DEF OrderInv, Pending
  <2>. QED
    BY <2>2, <2>7, <2>8, <2>9, <2>10 DEF OrderInv
<1>5. CASE TakeEnvelope
  <2> DEFINE e == Head(broadcast)
             k == [ev |-> e, users |-> Targets[e], conns |-> {}]
  <2>1. /\ broadcast # <<>> /\ broadcast' = Tail(broadcast)
        /\ task' = [task EXCEPT ![Run] = k]
        /\ UNCHANGED <<send, delivered>>
    BY <1>5 DEF TakeEnvelope, ghosts
  <2>2. \A c \in Conns : Received(c)' = Received(c) /\ Given(c)' = Given(c)
    BY <2>1, ReceivedMoves, GivenMoves
  <2>3. /\ 1 \in 1..Len(broadcast) /\ e = broadcast[1]
        /\ \A i \in 1..Len(broadcast') : /\ broadcast'[i] = broadcast[i + 1]
                                         /\ i + 1 \in 1..Len(broadcast) /\ 1 < i + 1
                                         /\ i \in Int
    BY <1>0, <2>1
  <2>4. task'[Run].ev = e
    BY <1>0, <2>1
  <2> HIDE DEF e
  <2>5. \A c \in Conns : Sorted(Received(c))'
    BY <2>2 DEF OrderInv, Sorted
  <2>6. ASSUME NEW i \in 1..Len(broadcast'), NEW j \in 1..Len(broadcast'), i < j
        PROVE  broadcast'[i] < broadcast'[j]
    <3>1. i + 1 < j + 1
      BY <2>3, <2>6
    <3>. QED
      BY <2>3, <3>1 DEF OrderInv
  <2>7. \A i \in 1..Len(broadcast') : e < broadcast'[i]
    BY <2>3 DEF OrderInv
  <2>8. \A c \in Conns : \A x \in Given(c) :
          (\A i \in 1..Len(broadcast') : x < broadcast'[i]) /\ x < e
    BY <2>3 DEF OrderInv
  <2>. QED
    BY <2>2, <2>4, <2>5, <2>6, <2>7, <2>8 DEF OrderInv
<1>6. CASE Snapshot(Run)
  <2>1. PICK u \in task[Run].users :
          /\ task'[Run].users = task[Run].users \ {u}
          /\ task'[Run].conns = {c \in clients : UserOf[c] = u}
    BY <1>0, <1>6, SnapshotMoves
  <2>2. /\ Busy(Run)' => task'[Run].ev = task[Run].ev
        /\ UNCHANGED broadcast
        /\ \A d \in Conns : Received(d)' = Received(d) /\ Given(d)' = Given(d)
    BY <1>0, <1>6, SnapshotMoves, GivenMoves
  <2>3. Busy(Run)
    BY <2>1 DEF Busy
  <2>4. \A c \in Conns : Pending(Run, c)' => Pending(Run, c) /\ task'[Run].ev = task[Run].ev
    BY <2>1, <2>2 DEF Pending, Busy
  <2>5. \A c \in Conns : Sorted(Received(c))'
    BY <2>2 DEF OrderInv, Sorted
  <2>. QED
    BY <2>2, <2>3, <2>4, <2>5 DEF OrderInv
<1>7. CASE Deliver(Run)
  <2> DEFINE x == task[Run].ev
  <2>1. PICK c \in task[Run].conns :
          /\ c \in Conns /\ x \in Events
          /\ task'[Run].users = task[Run].users
          /\ task'[Run].conns = task[Run].conns \ {c}
          /\ Busy(Run)' => task'[Run].ev = x
          /\ UNCHANGED broadcast
          /\ \A d \in Conns \ {c} : Received(d)' = Received(d)
          /\ Received(c)' = Received(c) \/ Received(c)' = Append(Received(c), x)
    BY <1>0, <1>7, DeliverGives
  <2>2. Busy(Run) /\ Pending(Run, c)
    BY <2>1 DEF Busy, Pending
  <2>3. \A d \in Conns : Given(d)' \subseteq Given(d) \cup (IF d = c THEN {x} ELSE {})
    BY <2>1, GivenMoves
  <2>4. \A y \in Given(c) : y < x
    BY <2>1, <2>2 DEF OrderInv
  <2>5. \A d \in Conns : Sorted(Received(d))'
    <3>1. Sorted(Received(c)')
      <4>1. Received(c) \in Seq({Reply} \cup Events) /\ Given(c) = EventsIn(Received(c))
        BY <2>1, ReceivedFrames
      <4>2. Sorted(Received(c))
        BY <2>1 DEF OrderInv
      <4>3. Received(c)' = Append(Received(c), x) => Sorted(Received(c)')
        BY <2>1, <2>4, <4>1, <4>2, EventAppended
      <4>. QED
        BY <2>1, <4>2, <4>3
    <3>2. \A d \in Conns \ {c} : Sorted(Received(d)')
      BY <2>1 DEF OrderInv
    <3>. QED
      BY <3>1, <3>2 DEF Sorted
  <2>6. \A d \in Conns : Pending(Run, d)' => Pending(Run, d) /\ d # c /\ task'[Run].ev = x
    <3>1. UserOf[c] \notin task[Run].users
      BY <1>0, <2>1 DEF PlacesInv
    <3>. QED
      BY <2>1, <3>1 DEF Pending, Busy
  <2>7. Busy(Run)' => \A i \in 1..Len(broadcast') : task'[Run].ev < broadcast'[i]
    BY <2>1, <2>2 DEF OrderInv
  <2>8. ASSUME NEW d \in Conns, NEW y \in Given(d)'
        PROVE  /\ \A i \in 1..Len(broadcast') : y < broadcast'[i]
               /\ Pending(Run, d)' => y < task'[Run].ev
    <3>1. CASE y \in Given(d)
      BY <2>1, <2>6, <3>1 DEF OrderInv
    <3>2. CASE d = c /\ y = x
      BY <2>1, <2>2, <2>6, <3>2 DEF OrderInv
    <3>. QED
      BY <2>3, <2>8, <3>1, <3>2
  <2>9. \A i, j \in 1..Len(broadcast') : i < j => broadcast'[i] < broadcast'[j]
    BY <2>1 DEF OrderInv
  <2>. QED
    BY <2>5, <2>7, <2>8, <2>9 DEF OrderInv
<1>. QED
  BY <1>2, <1>3, <1>4, <1>5, <1>6, <1>7, SpillsRest DEF Next, RunStep

\* OrderInv holds in every reachable state of a behaviour without spills.
LEMMA OrderInvariant == Spec /\ []NoSpills => [](TypeInv /\ PlacesInv /\ GivenInv /\ OrderInv)
<1>1. Init => OrderInv
  <2> SUFFICES ASSUME Init PROVE OrderInv
    OBVIOUS
  <2>1. /\ Len(broadcast) = 0 /\ task[Run] = NoTask
        /\ \A c \in Conns : delivered[c] = <<>> /\ send[c] = <<>>
    BY DEF Init
  <2>2. \A c \in Conns : Received(c) = <<>>
    BY <2>1 DEF Received
  <2>3. \A c \in Conns : Sorted(Received(c)) /\ Given(c) = {}
    BY <2>2 DEF Sorted, Given
  <2>4. ~Busy(Run)
    BY <2>1 DEF Busy, NoTask
  <2>. QED
    BY <2>1, <2>3, <2>4 DEF OrderInv
<1>2. TypeInv /\ TypeInv' /\ PlacesInv /\ GivenInv /\ NoSpills /\ NoSpills' /\ OrderInv
        /\ [Next]_vars => OrderInv'
  BY OrderInductive
<1>. QED
  BY <1>1, <1>2, GivenInvariant, PTL DEF Spec

\* As long as no broadcast finds its channel full, every connection is given the events
\* in the order the consumer handed them over (InOrder).
THEOREM OrderWithoutSpills == Spec /\ []NoSpills => []InOrder
<1>1. TypeInv /\ OrderInv => InOrder
  BY ReceivedFrames DEF OrderInv
<1>. QED
  BY <1>1, OrderInvariant, PTL

-----------------------------------------------------------------------------
(* No event is missing between two while there is no spill *)

Queued(e) == \E i \in 1..Len(broadcast) : broadcast[i] = e

\* A connection that Run has yet to take from the register channel.
Newcomer(c) == handler[c] # "done" \/ \E i \in 1..Len(register) : register[i] = c

\* Why none is missing: a newcomer was given nothing; what comes after an event that is
\* in the channel or with Run is in the channel; and what comes after an event that a
\* registered connection was given was given, met its full buffer, is in the channel, or
\* is with Run and still to come to it.
GapInv ==
  /\ NoSilentGap
  /\ \A c \in Conns : Newcomer(c) => Given(c) = {}
  /\ \A i \in 1..Len(broadcast) : \A e \in broadcast[i] + 1 .. next :
       Targets[e] # {} => Queued(e)
  /\ Busy(Run) => \A e \in task[Run].ev + 1 .. next : Targets[e] # {} => Queued(e)
  /\ \A c \in clients : \A d \in Given(c) : \A e \in d + 1 .. next :
       UserOf[c] \in Targets[e] => \/ e \in Given(c) \cup dropped[c]
                                   \/ Queued(e)
                                   \/ task[Run].ev = e /\ Pending(Run, c)

\* Nobody becomes a newcomer again, those who enter the registry were newcomers, and
\* newcomers are not registered.
LEMMA RegistryMoves ==
  ASSUME TypeInv, RegistryInv, [Next]_vars
  PROVE  /\ \A c \in clients' \ clients : Newcomer(c)
         /\ \A c \in Conns : Newcomer(c)' => Newcomer(c)
         /\ \A c \in Conns : Newcomer(c) => c \notin clients
<1>0. register \in Seq(Conns) /\ handler \in [Conns -> {"off", "register", "done"}]
  BY DEF TypeInv, TypeOK
<1>1. \A c \in Conns : Newcomer(c) => c \notin clients
  BY DEF Newcomer, RegistryInv
<1>2. ASSUME NEW c \in Conns, HandlerStep(c)
      PROVE  clients' = clients /\ \A d \in Conns : Newcomer(d)' => Newcomer(d)
  <2>1. CASE Connect(c)
    BY <1>0, <2>1 DEF Connect, Newcomer, chans
  <2>2. CASE RegisterAndServe(c)
    <3>1. /\ clients' = clients /\ handler[c] # "done" /\ register' = Append(register, c)
          /\ \A d \in Conns : handler'[d] # "done" => handler[d] # "done"
      BY <1>0, <2>2 DEF RegisterAndServe
    <3>2. \A i \in 1..Len(register') : \/ i \in 1..Len(register) /\ register'[i] = register[i]
                                       \/ register'[i] = c
      BY <1>0, <3>1
    <3>. QED
      BY <3>1, <3>2 DEF Newcomer
  <2>. QED
    BY <1>2, <2>1, <2>2 DEF HandlerStep
<1>3. CASE AddClient
  <2>1. /\ register # <<>> /\ register' = Tail(register)
        /\ clients' = clients \cup {Head(register)} /\ handler' = handler
    BY <1>3 DEF AddClient, pumps
  <2>2. 1 \in 1..Len(register) /\ Head(register) = register[1]
    BY <1>0, <2>1
  <2>3. \A i \in 1..Len(register') : i + 1 \in 1..Len(register)
                                     /\ register[i + 1] = register'[i]
    BY <1>0, <2>1
  <2>. QED
    BY <1>1, <2>1, <2>2, <2>3 DEF Newcomer
<1>4. ASSUME UNCHANGED <<register, handler>>, clients' \subseteq clients
      PROVE  /\ \A c \in clients' \ clients : Newcomer(c)
             /\ \A c \in Conns : Newcomer(c)' => Newcomer(c)
  BY <1>4 DEF Newcomer
<1>5. ASSUME NEW c \in Conns,
             PeerGone(c) \/ ReadFrame(c) \/ ReaderStep(c) \/ WriterStep(c) \/ KickStep(c)
      PROVE  UNCHANGED <<register, handler, clients>>
  <2>1. CASE PeerGone(c) \/ ReadFrame(c)
    BY <2>1 DEF PeerGone, ReadFrame, chans, pumps
  <2>2. CASE ReaderStep(c)
    BY <2>2 DEF ReaderStep, ReaderRuns, ReadBreaks, ReplyCheck, ReplyPush, ReadFails,
                  ReaderUnregCheck,
                ReaderUnregSend, chans
  <2>3. CASE WriterStep(c)
    BY <2>3 DEF WriterStep, WriterRuns, WriteBreaks, Write, WriteFails,
           WriterUnregCheck, WriterUnregSend, chans, pumps
  <2>4. CASE KickStep(c)
    BY <2>4 DEF KickStep, KickCheck, KickSend, chans, pumps
  <2>. QED
    BY <1>5, <2>1, <2>2, <2>3, <2>4
<1>6. ASSUME HandleEvent \/ TakeEnvelope \/ RemoveClient \/ UNCHANGED vars
      PROVE  UNCHANGED <<register, handler>> /\ clients' \subseteq clients
  BY <1>6 DEF HandleEvent, TakeEnvelope, RemoveClient, vars, chans, pumps
<1>7. ASSUME NEW t, Snapshot(t) \/ Deliver(t)
      PROVE  UNCHANGED <<register, handler, clients>>
  BY <1>7 DEF Snapshot, Deliver, chans, pumps
<1>8. \/ \E c \in Conns : HandlerStep(c)
      \/ \E c \in Conns : PeerGone(c) \/ ReadFrame(c) \/ ReaderStep(c) \/ WriterStep(c)
                          \/ KickStep(c)
      \/ AddClient
      \/ HandleEvent \/ TakeEnvelope \/ RemoveClient \/ UNCHANGED vars
      \/ \E t : Snapshot(t) \/ Deliver(t)
  BY DEF Next, RunStep, SpillStep
<1>9. CASE \/ \E c \in Conns : PeerGone(c) \/ ReadFrame(c) \/ ReaderStep(c) \/ WriterStep(c)
                               \/ KickStep(c)
           \/ HandleEvent \/ TakeEnvelope \/ RemoveClient \/ UNCHANGED vars
           \/ \E t : Snapshot(t) \/ Deliver(t)
  <2>1. UNCHANGED <<register, handler>> /\ clients' \subseteq clients
    BY <1>5, <1>6, <1>7, <1>9
  <2>. QED
    BY <1>1, <1>4, <2>1
<1>. QED
  BY <1>1, <1>2, <1>3, <1>8, <1>9

\* A quiet step, whatever it does to the registry, leaves GapInv alone.
LEMMA GapQuiet ==
  ASSUME TypeInv, TypeInv', RegistryInv, GapInv, QuietStep, [Next]_vars
  PROVE  GapInv'
<1>1. UNCHANGED <<broadcast, next, task, dropped>> /\ \A c \in Conns : Given(c)' = Given(c)
  BY QuietGiven DEF QuietStep
<1>2. Busy(Run)' = Busy(Run) /\ \A c : Pending(Run, c)' = Pending(Run, c)
  BY <1>1 DEF Busy, Pending
<1>3. \A e : Queued(e)' = Queued(e)
  BY <1>1 DEF Queued
<1>4. NoSilentGap'
  BY <1>1 DEF GapInv, NoSilentGap
<1>5. \A c \in Conns : Newcomer(c)' => Given(c)' = {}
  BY <1>1, RegistryMoves DEF GapInv
<1>6. clients' \subseteq Conns /\ \A c \in clients' \ clients : Given(c)' = {}
  <2>1. clients' \subseteq Conns
    BY DEF TypeInv, TypeOK
  <2>. QED
    BY <1>1, <2>1, RegistryMoves DEF GapInv
<1>7. \A c \in clients' : \A d \in Given(c)' : \A e \in d + 1 .. next' :
        UserOf[c] \in Targets[e] => \/ e \in Given(c)' \cup dropped'[c]
                                    \/ Queued(e)'
                                    \/ task'[Run].ev = e /\ Pending(Run, c)'
  BY <1>1, <1>2, <1>3, <1>6 DEF GapInv
<1>8. /\ \A i \in 1..Len(broadcast') : \A e \in broadcast'[i] + 1 .. next' :
           Targets[e] # {} => Queued(e)'
      /\ Busy(Run)' => \A e \in task'[Run].ev + 1 .. next' : Targets[e] # {} => Queued(e)'
  BY <1>1, <1>2, <1>3 DEF GapInv
<1>. QED
  BY <1>4, <1>5, <1>7, <1>8 DEF GapInv

\* GapInv is preserved by every step from and to a state without spills.
LEMMA GapInductive ==
  ASSUME TypeInv, TypeInv', RegistryInv, PlacesInv, GivenInv, NoSpills, NoSpills', OrderInv,
         GapInv, [Next]_vars
  PROVE  GapInv'
<1> USE ConstantsAssumption
<1>0. /\ task \in [Carriers -> Tasks] /\ next \in 0..MaxEvents /\ broadcast \in Seq(Events)
      /\ Run \in Carriers /\ clients \subseteq Conns
      /\ \A c \in Conns : Given(c) \subseteq Events
      /\ Events \subseteq Int
      /\ \A c \in Conns : UserOf[c] \in Users
  <2>1. /\ task \in [Carriers -> Tasks] /\ next \in 0..MaxEvents /\ broadcast \in Seq(Events)
        /\ clients \subseteq Conns
    BY DEF TypeInv, TypeOK, Carriers
  <2>2. Events \subseteq Int
    BY DEF Events
  <2>3. Run \in Carriers
    BY DEF Carriers
  <2>. QED
    BY <2>1, <2>2, <2>3, ReceivedFrames
<1>1. ASSUME NEW c \in Conns,
             HandlerStep(c) \/ PeerGone(c) \/ ReadFrame(c) \/ ReaderStep(c) \/ WriterStep(c)
               \/ KickStep(c)
      PROVE  GapInv'
  BY <1>1, ConnStepQuiet, GapQuiet
<1>2. CASE AddClient \/ RemoveClient \/ UNCHANGED vars
  BY <1>2, RegistryStepQuiet, GapQuiet
<1>3. CASE HandleEvent
  <2>0. PICK n : n = next + 1
    OBVIOUS
  <2>1. /\ n \in Events /\ next' = n
        /\ UNCHANGED <<clients, register, closed, handler, task, send, delivered, dropped>>
        /\ \/ UNCHANGED broadcast /\ Targets[n] = {}
           \/ broadcast' = Append(broadcast, n)
        /\ n = next + 1 /\ next \in Int
    BY <1>0, <1>3, <2>0, EventQueued
  <2>2. \A c \in Conns : Given(c)' = Given(c)
    BY <2>1, ReceivedMoves, GivenMoves
  <2>3. \A i \in 1..Len(broadcast') :
          \/ i \in 1..Len(broadcast) /\ broadcast'[i] = broadcast[i]
          \/ broadcast'[i] = n
    BY <1>0, <2>1
  <2>4. \A i \in 1..Len(broadcast) : i \in 1..Len(broadcast') /\ broadcast'[i] = broadcast[i]
    BY <1>0, <2>1
  <2>5. Targets[n] # {} => Queued(n)'
    <3>1. Targets[n] # {} => Len(broadcast') \in 1..Len(broadcast')
                             /\ broadcast'[Len(broadcast')] = n
      BY <1>0, <2>1
    <3>2. Targets[n] # {} => \E i \in 1..Len(broadcast') : broadcast'[i] = n
      BY <3>1, Zenon
    <3>. QED
      BY <3>2 DEF Queued
  <2>6. \A e : Queued(e) => Queued(e)'
    BY <2>4 DEF Queued
  <2>7. Busy(Run)' = Busy(Run) /\ \A c : Pending(Run, c)' = Pending(Run, c)
    BY <2>1 DEF Busy, Pending
  <2>8. NoSilentGap'
    BY <2>1, <2>2 DEF GapInv, NoSilentGap
  <2>9. \A c \in Conns : Newcomer(c)' => Given(c)' = {}
    BY <2>2, RegistryMoves DEF GapInv
  <2>10. ASSUME NEW x \in Int, NEW e \in x + 1 .. next'
         PROVE  e \in x + 1 .. next \/ e = n
    BY <2>1
  <2>11. ASSUME NEW i \in 1..Len(broadcast'), NEW e \in broadcast'[i] + 1 .. next',
                Targets[e] # {}
         PROVE  Queued(e)'
    <3>1. CASE i \in 1..Len(broadcast) /\ broadcast'[i] = broadcast[i]
      <4>1. broadcast[i] \in Int
        <5>1. broadcast[i] \in Events
          BY <1>0, <3>1
        <5>. QED
          BY <1>0, <5>1
      <4>2. e \in broadcast[i] + 1 .. next \/ e = n
        BY <2>10, <3>1, <4>1
      <4>3. e \in broadcast[i] + 1 .. next => Queued(e)
        BY <2>11, <3>1 DEF GapInv
      <4>. QED
        BY <2>5, <2>6, <2>11, <4>2, <4>3
    <3>2. CASE broadcast'[i] = n
      <4>1. n + 1 .. n = {}
        BY <1>0, <2>1
      <4>. QED
        BY <2>1, <2>11, <3>2, <4>1
    <3>. QED
      BY <2>3, <3>1, <3>2
  <2>12. Busy(Run)' => \A e \in task'[Run].ev + 1 .. next' : Targets[e] # {} => Queued(e)'
    <3>1. Busy(Run) => task[Run].ev \in Int
      BY <1>0 DEF TypeInv, Busy, Carriers
    <3>2. ASSUME Busy(Run), NEW e \in task[Run].ev + 1 .. next', Targets[e] # {}
          PROVE  Queued(e)'
      <4>1. e \in task[Run].ev + 1 .. next \/ e = n
        BY <2>10, <3>1, <3>2
      <4>2. e \in task[Run].ev + 1 .. next => Queued(e)
        BY <3>2 DEF GapInv
      <4>. QED
        BY <2>5, <2>6, <3>2, <4>1, <4>2
    <3>. QED
      BY <2>1, <2>7, <3>2
  <2>13. ASSUME NEW c \in clients', NEW d \in Given(c)', NEW e \in d + 1 .. next',
                UserOf[c] \in Targets[e]
         PROVE  \/ e \in Given(c)' \cup dropped'[c]
                \/ Queued(e)'
                \/ task'[Run].ev = e /\ Pending(Run, c)'
    <3>1. c \in clients /\ c \in Conns /\ d \in Given(c) /\ Given(c)' = Given(c) /\ d \in Int
      BY <1>0, <2>1, <2>2
    <3>2. e \in d + 1 .. next \/ e = n
      BY <2>10, <3>1
    <3>3. CASE e = n
      BY <2>5, <2>13, <3>3
    <3>4. CASE e \in d + 1 .. next
      BY <2>1, <2>6, <2>7, <2>13, <3>1, <3>4 DEF GapInv
    <3>. QED
      BY <3>2, <3>3, <3>4
  <2>. QED
    BY <2>8, <2>9, <2>11, <2>12, <2>13 DEF GapInv
<1>4. CASE TakeEnvelope
  <2> DEFINE n == Head(broadcast)
             k == [ev |-> n, users |-> Targets[n], conns |-> {}]
  <2>1. /\ broadcast # <<>> /\ broadcast' = Tail(broadcast)
        /\ task' = [task EXCEPT ![Run] = k] /\ task[Run] = NoTask
        /\ UNCHANGED <<clients, register, closed, handler, next, send, delivered, dropped>>
    BY <1>4 DEF TakeEnvelope, pumps, ghosts
  <2>2. \A c \in Conns : Given(c)' = Given(c)
    BY <2>1, ReceivedMoves, GivenMoves
  <2>3. /\ 1 \in 1..Len(broadcast) /\ n = broadcast[1] /\ n \in Events
        /\ \A i \in 1..Len(broadcast') : /\ broadcast'[i] = broadcast[i + 1]
                                         /\ i + 1 \in 1..Len(broadcast)
    BY <1>0, <2>1
  <2>4. \A i \in 1..Len(broadcast) :
          i = 1 \/ (i - 1 \in 1..Len(broadcast') /\ broadcast'[i - 1] = broadcast[i])
    BY <1>0, <2>1
  <2>5. task'[Run].ev = n /\ task'[Run].users = Targets[n] /\ task'[Run].conns = {}
    BY <1>0, <2>1
  <2> HIDE DEF n
  \* Everything but the event taken is still in the channel.
  <2>6. \A e : Queued(e) => Queued(e)' \/ e = n
    BY <2>3, <2>4 DEF Queued
  <2>7. NoSilentGap'
    BY <2>1, <2>2 DEF GapInv, NoSilentGap
  <2>8. \A c \in Conns : Newcomer(c)' => Given(c)' = {}
    BY <2>2, RegistryMoves DEF GapInv
  <2>9. \A e \in n + 1 .. next : Targets[e] # {} => Queued(e)'
    <3>1. \A e \in n + 1 .. next : e # n
      BY <1>0, <2>3
    <3>2. \A e \in n + 1 .. next : Targets[e] # {} => Queued(e)
      BY <2>3 DEF GapInv
    <3>. QED
      BY <2>6, <3>1, <3>2
  <2>10. ASSUME NEW i \in 1..Len(broadcast'), NEW e \in broadcast'[i] + 1 .. next',
                Targets[e] # {}
         PROVE  Queued(e)'
    <3>1. Queued(e)
      BY <2>1, <2>3, <2>10 DEF GapInv
    <3>2. n < broadcast'[i]
      <4>1. i + 1 \in 1..Len(broadcast) /\ 1 < i + 1 /\ broadcast'[i] = broadcast[i + 1]
        BY <2>3
      <4>. QED
        BY <2>3, <4>1 DEF OrderInv
    <3>3. e # n
      <4>1. broadcast'[i] \in Int /\ n \in Int
        <5>1. i + 1 \in 1..Len(broadcast) /\ broadcast'[i] = broadcast[i + 1]
          BY <2>3
        <5>2. broadcast[i + 1] \in Events
          BY <1>0, <5>1
        <5>. QED
          BY <1>0, <2>3, <5>1, <5>2
      <4>. QED
        BY <2>10, <3>2, <4>1
    <3>. QED
      BY <2>6, <3>1, <3>3
  <2>11. ASSUME NEW c \in clients', NEW d \in Given(c)', NEW e \in d + 1 .. next',
                UserOf[c] \in Targets[e]
         PROVE  \/ e \in Given(c)' \cup dropped'[c]
                \/ Queued(e)'
                \/ task'[Run].ev = e /\ Pending(Run, c)'
    <3>1. c \in clients /\ c \in Conns /\ d \in Given(c) /\ Given(c)' = Given(c)
      BY <1>0, <2>1, <2>2
    <3>2. ~Pending(Run, c)
      BY <2>1 DEF Pending, NoTask
    <3>3. e \in Given(c) \cup dropped[c] \/ Queued(e)
      BY <2>1, <2>11, <3>1, <3>2 DEF GapInv
    <3>4. CASE e = n
      BY <2>5, <2>11, <3>4 DEF Pending
    <3>. QED
      BY <2>1, <2>6, <3>1, <3>3, <3>4
  <2>. QED
    BY <2>1, <2>5, <2>7, <2>8, <2>9, <2>10, <2>11 DEF GapInv
<1>5. CASE Snapshot(Run)
  <2>1. PICK u \in task[Run].users :
          /\ task'[Run].users = task[Run].users \ {u}
          /\ task'[Run].conns = {c \in clients : UserOf[c] = u}
    BY <1>0, <1>5, SnapshotMoves
  <2>2. /\ Busy(Run)' => task'[Run].ev = task[Run].ev
        /\ task[Run].conns = {}
        /\ UNCHANGED <<clients, register, closed, handler, broadcast, next, dropped>>
        /\ \A d \in Conns : Given(d)' = Given(d)
    BY <1>0, <1>5, SnapshotMoves, GivenMoves
  <2>3. Busy(Run)
    BY <2>1 DEF Busy
  <2>4. \A e : Queued(e)' = Queued(e)
    BY <2>2 DEF Queued
  <2>5. \A c \in clients : Pending(Run, c) => Pending(Run, c)' /\ task'[Run].ev = task[Run].ev
    BY <2>1, <2>2 DEF Pending, Busy
  <2>6. NoSilentGap'
    BY <2>2 DEF GapInv, NoSilentGap
  <2>7. \A c \in Conns : Newcomer(c)' => Given(c)' = {}
    BY <2>2, RegistryMoves DEF GapInv
  <2>8. \A c \in clients' : \A d \in Given(c)' : \A e \in d + 1 .. next' :
          UserOf[c] \in Targets[e] => \/ e \in Given(c)' \cup dropped'[c]
                                      \/ Queued(e)'
                                      \/ task'[Run].ev = e /\ Pending(Run, c)'
    BY <1>0, <2>2, <2>4, <2>5 DEF GapInv
  <2>. QED
    BY <2>2, <2>3, <2>4, <2>6, <2>7, <2>8 DEF GapInv
<1>6. CASE Deliver(Run)
  <2> DEFINE x == task[Run].ev
  <2>1. PICK c \in task[Run].conns :
          /\ c \in Conns /\ x \in Events
          /\ task'[Run].users = task[Run].users
          /\ task'[Run].conns = task[Run].conns \ {c}
          /\ Busy(Run)' => task'[Run].ev = x
          /\ UNCHANGED <<clients, register, closed, handler, broadcast, next>>
          /\ \A d \in Conns \ {c} : Received(d)' = Received(d) /\ dropped'[d] = dropped[d]
          /\ \/ closed[c] /\ Received(c)' = Received(c) /\ dropped'[c] = dropped[c]
             \/ Received(c)' = Append(Received(c), x) /\ dropped'[c] = dropped[c]
             \/ Received(c)' = Received(c) /\ dropped'[c] = dropped[c] \cup {x}
    BY <1>0, <1>6, DeliverGives
  <2>2. Busy(Run) /\ Pending(Run, c) /\ c \in clients /\ ~closed[c]
    BY <2>1 DEF Busy, Pending, RegistryInv
  <2>3. \/ Given(c)' = Given(c) \cup {x} /\ dropped'[c] = dropped[c]
        \/ Given(c)' = Given(c) /\ dropped'[c] = dropped[c] \cup {x}
    BY <2>1, <2>2, GivenMoves
  <2>4. \A d \in Conns \ {c} : Given(d)' = Given(d) /\ dropped'[d] = dropped[d]
    BY <2>1, GivenMoves
  <2>5. \A e : Queued(e)' = Queued(e)
    BY <2>1 DEF Queued
  <2>6. x \in Int /\ \A y \in Given(c) : y \in Int /\ y < x
    BY <1>0, <2>1, <2>2 DEF OrderInv
  \* What lies before the event is no longer on its way.
  <2>7. \A e : Queued(e) => x < e
    BY <2>2 DEF OrderInv, Queued
  <2>8. x <= next
    BY <1>0, <2>2 DEF PlacesInv
  <2>9. NoSilentGap'
    <3>1. ASSUME NEW d \in Given(c)', NEW f \in Given(c)', NEW e \in d + 1 .. f - 1,
                 UserOf[c] \in Targets[e]
          PROVE  e \in Given(c)' \cup dropped'[c]
      <4>1. CASE d \in Given(c) /\ f \in Given(c)
        BY <2>1, <2>3, <3>1, <4>1 DEF GapInv, NoSilentGap
      <4>2. CASE d = x
        <5>1. f <= x /\ f \in Int
          BY <2>3, <2>6
        <5>2. d + 1 .. f - 1 = {}
          BY <2>6, <4>2, <5>1
        <5>. QED
          BY <3>1, <5>2
      <4>3. CASE d \in Given(c) /\ f = x
        <5>1. e \in d + 1 .. next /\ e < x
          BY <1>0, <2>6, <2>8, <4>3
        <5>2. e \in Given(c) \cup dropped[c] \/ Queued(e) \/ e = x
          BY <2>2, <3>1, <4>3, <5>1 DEF GapInv
        <5>3. ~Queued(e) /\ e # x
          <6>1. e \in Int
            BY <5>1
          <6>. QED
            BY <2>6, <2>7, <5>1, <6>1
        <5>. QED
          BY <2>3, <5>2, <5>3
      <4>. QED
        BY <2>3, <4>1, <4>2, <4>3
    <3>2. ASSUME NEW b \in Conns \ {c}, NEW d \in Given(b)', NEW f \in Given(b)',
                 NEW e \in d + 1 .. f - 1, UserOf[b] \in Targets[e]
          PROVE  e \in Given(b)' \cup dropped'[b]
      BY <2>4, <3>2 DEF GapInv, NoSilentGap
    <3>. QED
      BY <3>1, <3>2 DEF NoSilentGap
  <2>10. \A b \in Conns : Newcomer(b)' => Given(b)' = {}
    BY <2>2, <2>4, RegistryMoves DEF GapInv
  <2>11. ASSUME NEW b \in clients', NEW d \in Given(b)', NEW e \in d + 1 .. next',
                UserOf[b] \in Targets[e]
         PROVE  \/ e \in Given(b)' \cup dropped'[b]
                \/ Queued(e)'
                \/ task'[Run].ev = e /\ Pending(Run, b)'
    <3>1. b \in clients /\ b \in Conns
      BY <1>0, <2>1
    <3>2. CASE b # c
      <4>1. d \in Given(b) /\ e \in d + 1 .. next
        BY <2>1, <2>4, <3>1, <3>2
      <4>2. \/ e \in Given(b) \cup dropped[b]
            \/ Queued(e)
            \/ task[Run].ev = e /\ Pending(Run, b)
        BY <2>11, <3>1, <4>1 DEF GapInv
      <4>3. Pending(Run, b) => Pending(Run, b)' /\ task'[Run].ev = x
        BY <2>1, <3>2 DEF Pending, Busy
      <4>. QED
        BY <2>4, <2>5, <3>1, <3>2, <4>2, <4>3
    <3>3. CASE b = c /\ d \in Given(c)
      <4>1. \/ e \in Given(c) \cup dropped[c]
            \/ Queued(e)
            \/ x = e
        BY <2>1, <2>2, <2>11, <3>3 DEF GapInv
      <4>. QED
        BY <2>3, <2>5, <3>3, <4>1
    <3>4. CASE b = c /\ d = x
      <4>1. Targets[e] # {} /\ e \in x + 1 .. next
        BY <2>1, <2>11, <3>4
      <4>2. Queued(e)
        BY <2>2, <4>1 DEF GapInv
      <4>. QED
        BY <2>5, <4>2
    <3>. QED
      BY <2>3, <2>11, <3>2, <3>3, <3>4
  <2>12. Busy(Run)' => \A e \in task'[Run].ev + 1 .. next' : Targets[e] # {} => Queued(e)'
    BY <2>1, <2>2, <2>5 DEF GapInv
  <2>13. \A i \in 1..Len(broadcast') : \A e \in broadcast'[i] + 1 .. next' :
           Targets[e] # {} => Queued(e)'
    BY <2>1, <2>5 DEF GapInv
  <2>. QED
    BY <2>9, <2>10, <2>11, <2>12, <2>13 DEF GapInv
<1>. QED
  BY <1>1, <1>2, <1>3, <1>4, <1>5, <1>6, SpillsRest DEF Next, RunStep

\* As long as no broadcast finds its channel full, an event between two that a connection
\* was given was given to it too, or met its full buffer (NoSilentGap).
THEOREM NoGapWithoutSpills == Spec /\ []NoSpills => []NoSilentGap
<1>1. Init => GapInv
  <2> SUFFICES ASSUME Init PROVE GapInv
    OBVIOUS
  <2>1. /\ Len(broadcast) = 0 /\ task[Run] = NoTask /\ clients = {}
        /\ \A c \in Conns : delivered[c] = <<>> /\ send[c] = <<>>
    BY DEF Init
  <2>2. \A c \in Conns : Received(c) = <<>>
    BY <2>1 DEF Received
  <2>3. \A c \in Conns : Given(c) = {}
    BY <2>2 DEF Given
  <2>4. ~Busy(Run)
    BY <2>1 DEF Busy, NoTask
  <2>. QED
    BY <2>1, <2>3, <2>4 DEF GapInv, NoSilentGap
<1>2. TypeInv /\ TypeInv' /\ RegistryInv /\ PlacesInv /\ GivenInv /\ NoSpills /\ NoSpills'
        /\ OrderInv /\ GapInv /\ [Next]_vars => GapInv'
  BY GapInductive
<1>3. GapInv => NoSilentGap
  BY DEF GapInv
<1>. QED
  BY <1>1, <1>2, <1>3, RegistryInvariant, OrderInvariant, PTL DEF Spec

-----------------------------------------------------------------------------
(* The hub implements Fanout *)

\* What a task holds: copies of the registry, of which some may have been closed since,
\* and targets of its event.
CopyInv ==
  \A t \in Carriers :
    /\ \A c \in task[t].conns : c \in clients \/ closed[c]
    /\ \A c \in Conns : Pending(t, c) => UserOf[c] \in Targets[task[t].ev]

\* A step that keeps those in the registry who are in it, or closes them, and adds
\* nobody to a task, preserves CopyInv.
LEMMA CopyFrame ==
  ASSUME CopyInv,
         \A c : c \in clients \/ closed[c] => c \in clients' \/ closed'[c],
         \A t \in Carriers : task'[t].conns \subseteq task[t].conns,
         \A t \in Carriers : \A c \in Conns : Pending(t, c)' =>
           Pending(t, c) /\ task'[t].ev = task[t].ev
  PROVE  CopyInv'
<1>1. \A t \in Carriers : \A c \in task'[t].conns : c \in clients' \/ closed'[c]
  BY DEF CopyInv
<1>2. \A t \in Carriers : \A c \in Conns : Pending(t, c)' => UserOf[c] \in Targets[task'[t].ev]
  BY DEF CopyInv
<1>. QED
  BY <1>1, <1>2 DEF CopyInv

\* CopyInv is preserved by every step.
LEMMA CopyInductive ==
  ASSUME TypeInv, CopyInv, [Next]_vars
  PROVE  CopyInv'
<1> USE ConstantsAssumption
<1>0. /\ task \in [Carriers -> Tasks] /\ closed \in [Conns -> BOOLEAN] /\ clients \subseteq Conns
      /\ \A t \in Carriers : task[t].conns \subseteq Conns
  BY DEF TypeInv, TypeOK, Carriers, Tasks
<1>1. ASSUME UNCHANGED <<clients, closed, task>>
      PROVE  CopyInv'
  <2>1. \A t \in Carriers : \A c \in Conns : Pending(t, c)' = Pending(t, c)
    BY <1>1 DEF Pending
  <2>. QED
    BY <1>1, <2>1, CopyFrame
<1>2. ASSUME NEW c \in Conns,
             HandlerStep(c) \/ PeerGone(c) \/ ReadFrame(c) \/ ReaderStep(c) \/ WriterStep(c)
               \/ KickStep(c)
      PROVE  CopyInv'
  BY <1>1, <1>2, ConnStepQuiet DEF QuietStep
<1>3. CASE UNCHANGED vars
  BY <1>1, <1>3 DEF vars
<1>4. CASE AddClient \/ RemoveClient
  <2>1. task' = task
    BY <1>4 DEF AddClient, RemoveClient
  <2>2. \A c \in Conns : c \in clients \/ closed[c] => c \in clients' \/ closed'[c]
    <3>1. CASE AddClient
      BY <3>1 DEF AddClient
    <3>2. CASE RemoveClient
      <4>1. PICK h : h = Head(unregister)
        OBVIOUS
      <4>2. clients' = clients \ {h} /\ closed' = [closed EXCEPT ![h] = @ \/ h \in clients]
        BY <3>2, <4>1 DEF RemoveClient
      <4>. QED
        BY <1>0, <4>2
    <3>. QED
      BY <1>4, <3>1, <3>2
  <2>3. \A t \in Carriers : \A c \in Conns : Pending(t, c)' = Pending(t, c)
    BY <2>1 DEF Pending
  <2>4. \A t \in Carriers : \A c \in task'[t].conns : c \in clients' \/ closed'[c]
    BY <1>0, <2>1, <2>2 DEF CopyInv
  <2>. QED
    BY <2>1, <2>3, <2>4 DEF CopyInv
<1>5. CASE HandleEvent
  <2>1. PICK e : e = next + 1
    OBVIOUS
  <2>2. /\ UNCHANGED <<clients, closed>>
        /\ \/ task' = task
           \/ task' = [task EXCEPT ![e] = [ev |-> e, users |-> Targets[e], conns |-> {}]]
    BY <1>5, <2>1 DEF HandleEvent
  <2>3. \A t \in Carriers :
          \/ task'[t] = task[t]
          \/ task'[t] = [ev |-> e, users |-> Targets[e], conns |-> {}]
    BY <1>0, <2>2
  <2>. QED
    BY <2>2, <2>3 DEF CopyInv, Pending
<1>6. CASE TakeEnvelope
  <2>1. PICK e : e = Head(broadcast)
    OBVIOUS
  <2>2. /\ UNCHANGED <<clients, closed>>
        /\ task' = [task EXCEPT ![Run] = [ev |-> e, users |-> Targets[e], conns |-> {}]]
    BY <1>6, <2>1 DEF TakeEnvelope
  <2>3. \A t \in Carriers :
          \/ task'[t] = task[t]
          \/ task'[t] = [ev |-> e, users |-> Targets[e], conns |-> {}]
    BY <1>0, <2>2
  <2>. QED
    BY <2>2, <2>3 DEF CopyInv, Pending
<1>7. ASSUME NEW t \in Carriers, Snapshot(t)
      PROVE  CopyInv'
  <2>1. PICK u \in task[t].users :
          /\ task'[t].users = task[t].users \ {u}
          /\ task'[t].conns = {c \in clients : UserOf[c] = u}
    BY <1>7, SnapshotMoves
  <2>2. /\ Busy(t)' => task'[t].ev = task[t].ev
        /\ \A s \in Carriers \ {t} : task'[s] = task[s]
        /\ UNCHANGED <<clients, closed>>
    BY <1>7, SnapshotMoves
  <2>3. \A c \in Conns : Pending(t, c)' => Pending(t, c) /\ task'[t].ev = task[t].ev
    BY <2>1, <2>2 DEF Pending, Busy
  <2>4. \A s \in Carriers \ {t} : \A c \in Conns : Pending(s, c)' = Pending(s, c)
    BY <2>2 DEF Pending
  <2>5. \A s \in Carriers : \A c \in task'[s].conns : c \in clients' \/ closed'[c]
    BY <2>1, <2>2 DEF CopyInv
  <2>6. \A s \in Carriers : \A c \in Conns :
          Pending(s, c)' => UserOf[c] \in Targets[task'[s].ev]
    BY <2>2, <2>3, <2>4 DEF CopyInv
  <2>. QED
    BY <2>5, <2>6 DEF CopyInv
<1>8. ASSUME NEW t \in Carriers, Deliver(t)
      PROVE  CopyInv'
  <2>1. PICK c \in task[t].conns :
          /\ task'[t].users = task[t].users
          /\ task'[t].conns = task[t].conns \ {c}
          /\ Busy(t)' => task'[t].ev = task[t].ev
          /\ \A s \in Carriers \ {t} : task'[s] = task[s]
          /\ UNCHANGED <<clients, closed>>
    BY <1>8, DeliverGives
  <2>2. \A d \in Conns : Pending(t, d)' => Pending(t, d) /\ task'[t].ev = task[t].ev
    BY <2>1 DEF Pending, Busy
  <2>3. \A s \in Carriers \ {t} : \A d \in Conns : Pending(s, d)' = Pending(s, d)
    BY <2>1 DEF Pending
  <2>4. \A s \in Carriers : task'[s].conns \subseteq task[s].conns
    BY <2>1
  <2>5. \A s \in Carriers : \A d \in Conns :
          Pending(s, d)' => Pending(s, d) /\ task'[s].ev = task[s].ev
    BY <2>1, <2>2, <2>3
  <2>. QED
    BY <2>1, <2>4, <2>5, CopyFrame
<1>9. Run \in Carriers /\ \A e \in Events : e \in Carriers
  BY DEF Carriers
<1>. QED
  BY <1>2, <1>3, <1>4, <1>5, <1>6, <1>7, <1>8, <1>9 DEF Next, RunStep, SpillStep

\* A step that gives one connection one more frame does so to the stream of Fanout, one
\* that gives nothing leaves it alone.
LEMMA StreamMoves ==
  /\ (\A d \in Conns : Received(d)' = Received(d)) => streamBar' = streamBar
  /\ \A c \in Conns : \A x :
       /\ Received(c)' = Append(Received(c), x)
       /\ \A d \in Conns \ {c} : Received(d)' = Received(d)
       => streamBar' = [streamBar EXCEPT ![c] = Append(@, x)]
<1>1. streamBar = [d \in Conns |-> Received(d)] /\ streamBar' = [d \in Conns |-> Received(d)']
  BY DEF streamBar
<1>2. ASSUME \A d \in Conns : Received(d)' = Received(d)
      PROVE  streamBar' = streamBar
  BY <1>1, <1>2
<1>3. ASSUME NEW c \in Conns, NEW x, Received(c)' = Append(Received(c), x),
             \A d \in Conns \ {c} : Received(d)' = Received(d)
      PROVE  streamBar' = [streamBar EXCEPT ![c] = Append(@, x)]
  <2>1. \A d \in Conns : Received(d)' = IF d = c THEN Append(Received(c), x) ELSE Received(d)
    BY <1>3
  <2>2. streamBar[c] = Received(c)
    BY <1>1
  <2>. QED
    BY <1>1, <2>1, <2>2
<1>. QED
  BY <1>2, <1>3

\* Each step of the hub is a step of Fanout or leaves its variables alone.
LEMMA StepSimulation ==
  ASSUME TypeInv, RegistryInv, GivenInv, PlacesInv, CopyInv, [Next]_vars
  PROVE  [Abstract!Next]_(Abstract!vars)
<1> USE ConstantsAssumption
<1>0. /\ next \in 0..MaxEvents /\ closed \in [Conns -> BOOLEAN] /\ clients \subseteq Conns
      /\ task \in [Carriers -> Tasks]
  BY DEF TypeInv, TypeOK, Carriers
<1>1. \A c \in Conns :
        /\ memberBar[c] = IF closed[c] THEN "out" ELSE IF c \in clients THEN "in" ELSE "new"
        /\ streamBar[c] = Received(c)
  BY DEF memberBar, streamBar
<1>2. ASSUME UNCHANGED <<clients, closed>>
      PROVE  memberBar' = memberBar
  BY <1>2 DEF memberBar
<1>3. ASSUME NEW c \in Conns,
             HandlerStep(c) \/ PeerGone(c) \/ ReadFrame(c) \/ ReaderStep(c) \/ WriterStep(c)
               \/ KickStep(c)
      PROVE  [Abstract!Next]_(Abstract!vars)
  <2>1. UNCHANGED <<next, clients, closed>> /\ memberBar' = memberBar
    BY <1>2, <1>3, ConnStepQuiet DEF QuietStep
  <2>2. \A d \in Conns : \/ Received(d)' = Received(d)
                         \/ d = c /\ ~closed[c] /\ Received(d)' = Append(Received(d), Reply)
    BY <1>3, ConnStepQuiet
  <2>3. CASE \A d \in Conns : Received(d)' = Received(d)
    BY <2>1, <2>3, StreamMoves DEF Abstract!vars
  <2>4. CASE ~closed[c] /\ Received(c)' = Append(Received(c), Reply)
             /\ \A d \in Conns \ {c} : Received(d)' = Received(d)
    <3>1. streamBar' = [streamBar EXCEPT ![c] = Append(@, Reply)]
      BY <2>4, StreamMoves
    <3>2. memberBar[c] # "out"
      BY <1>1, <2>4
    <3>3. Abstract!Answer(c)
      BY <2>1, <3>1, <3>2 DEF Abstract!Answer
    <3>. QED
      BY <3>3 DEF Abstract!Next
  <2>. QED
    BY <2>2, <2>3, <2>4
<1>4. CASE HandleEvent
  <2>1. /\ next < MaxEvents /\ next' = next + 1
        /\ UNCHANGED <<clients, closed, send, delivered>>
    BY <1>4 DEF HandleEvent, ghosts
  <2>2. memberBar' = memberBar /\ streamBar' = streamBar
    BY <1>2, <2>1, ReceivedMoves, StreamMoves
  <2>3. Abstract!HandOver
    BY <2>1, <2>2 DEF Abstract!HandOver
  <2>. QED
    BY <2>3 DEF Abstract!Next
<1>5. CASE AddClient
  <2>1. PICK h : h = Head(register)
    OBVIOUS
  <2>2. /\ register # <<>> /\ clients' = clients \cup {h}
        /\ UNCHANGED <<next, closed, send, delivered>>
    BY <1>5, <2>1 DEF AddClient, ghosts
  <2>3. h \in Conns /\ h \notin clients /\ ~closed[h]
    <3>1. register \in Seq(Conns)
      BY DEF TypeInv, TypeOK
    <3>2. 1 \in 1..Len(register) /\ h = register[1] /\ h \in Conns
      BY <2>1, <2>2, <3>1
    <3>. QED
      BY <3>2 DEF RegistryInv
  <2>4. streamBar' = streamBar
    BY <2>2, ReceivedMoves, StreamMoves
  <2>5. memberBar[h] = "new" /\ memberBar' = [memberBar EXCEPT ![h] = "in"]
    BY <2>2, <2>3 DEF memberBar
  <2>6. Abstract!Enter(h)
    BY <2>2, <2>4, <2>5 DEF Abstract!Enter
  <2>. QED
    BY <2>3, <2>6 DEF Abstract!Next
<1>6. CASE RemoveClient
  <2>1. PICK h : h = Head(unregister)
    OBVIOUS
  <2>2. /\ unregister # <<>> /\ clients' = clients \ {h}
        /\ closed' = [closed EXCEPT ![h] = @ \/ h \in clients]
        /\ UNCHANGED <<next, send, delivered>>
    BY <1>6, <2>1 DEF RemoveClient, ghosts
  <2>3. h \in Conns
    BY <2>1, <2>2 DEF TypeInv, TypeOK
  <2>4. streamBar' = streamBar
    BY <2>2, ReceivedMoves, StreamMoves
  <2>5. CASE h \in clients
    <3>1. ~closed[h]
      BY <2>3, <2>5 DEF RegistryInv
    <3>2. \A c \in Conns : /\ closed'[c] = IF c = h THEN TRUE ELSE closed[c]
                           /\ c # h => (c \in clients' <=> c \in clients)
      BY <1>0, <2>2, <2>5
    <3>3. memberBar[h] = "in" /\ memberBar' = [memberBar EXCEPT ![h] = "out"]
      BY <2>3, <2>5, <3>1, <3>2 DEF memberBar
    <3>4. Abstract!Leave(h)
      BY <2>2, <2>4, <3>3 DEF Abstract!Leave
    <3>. QED
      BY <2>3, <3>4 DEF Abstract!Next
  <2>6. CASE h \notin clients
    <3>1. clients' = clients /\ \A c \in Conns : closed'[c] = closed[c]
      BY <1>0, <2>2, <2>6
    <3>2. memberBar' = memberBar
      BY <3>1 DEF memberBar
    <3>. QED
      BY <2>2, <2>4, <3>2 DEF Abstract!vars
  <2>. QED
    BY <2>5, <2>6
<1>7. CASE TakeEnvelope \/ UNCHANGED vars
  <2>1. UNCHANGED <<clients, closed, next, send, delivered>>
    BY <1>7 DEF TakeEnvelope, vars, ghosts
  <2>2. memberBar' = memberBar /\ streamBar' = streamBar
    BY <1>2, <2>1, ReceivedMoves, StreamMoves
  <2>. QED
    BY <2>1, <2>2 DEF Abstract!vars
<1>8. ASSUME NEW t \in Carriers, Snapshot(t)
      PROVE  [Abstract!Next]_(Abstract!vars)
  <2>1. UNCHANGED <<clients, closed, next>> /\ \A d \in Conns : Received(d)' = Received(d)
    BY <1>8, SnapshotMoves
  <2>2. memberBar' = memberBar /\ streamBar' = streamBar
    BY <1>2, <2>1, StreamMoves
  <2>. QED
    BY <2>1, <2>2 DEF Abstract!vars
<1>9. ASSUME NEW t \in Carriers, Deliver(t)
      PROVE  [Abstract!Next]_(Abstract!vars)
  <2>1. PICK x : x = task[t].ev
    OBVIOUS
  <2>2. PICK c \in task[t].conns :
          /\ c \in Conns /\ x \in Events
          /\ UNCHANGED <<clients, closed, next>>
          /\ \A d \in Conns \ {c} : Received(d)' = Received(d)
          /\ \/ Received(c)' = Received(c)
             \/ ~closed[c] /\ Received(c)' = Append(Received(c), x)
    <3>1. PICK c \in task[t].conns : 
            /\ c \in Conns /\ task[t].ev \in Events
            /\ UNCHANGED <<clients, closed, next>>
            /\ \A d \in Conns \ {c} : Received(d)' = Received(d)
            /\ \/ Received(c)' = Received(c)
               \/ ~closed[c] /\ Received(c)' = Append(Received(c), task[t].ev)
      BY <1>9, DeliverGives
    <3>. QED
      BY <2>1, <3>1
  <2>3. memberBar' = memberBar
    BY <1>2, <2>2
  <2>4. CASE Received(c)' = Received(c)
    <3>1. streamBar' = streamBar
      BY <2>2, <2>4, StreamMoves
    <3>. QED
      BY <2>2, <2>3, <3>1 DEF Abstract!vars
  <2>5. CASE ~closed[c] /\ Received(c)' = Append(Received(c), x)
    <3>1. streamBar' = [streamBar EXCEPT ![c] = Append(@, x)]
      BY <2>2, <2>5, StreamMoves
    <3>2. Pending(t, c) /\ Busy(t)
      BY <2>2 DEF Pending, Busy
    <3>3. memberBar[c] = "in"
      BY <1>1, <2>2, <2>5 DEF CopyInv
    <3>4. x \in 1..next
      <4>1. x <= next
        BY <2>1, <3>2 DEF PlacesInv
      <4>. QED
        BY <1>0, <2>2, <4>1 DEF Events
    <3>5. c \in reachBar[x]
      BY <2>1, <2>2, <3>2 DEF CopyInv, reachBar
    <3>6. \A i \in DOMAIN streamBar[c] : streamBar[c][i] # x
      <4>1. x \notin Given(c)
        BY <2>1, <2>2, <3>2 DEF GivenInv
      <4>2. x # Reply
        BY <2>2 DEF Events, Reply
      <4>. QED
        BY <1>1, <2>2, <4>1, <4>2 DEF Given
    <3>7. Abstract!Give(c, x)
      BY <2>2, <2>3, <3>1, <3>3, <3>5, <3>6 DEF Abstract!Give
    <3>. QED
      BY <2>2, <3>4, <3>7 DEF Abstract!Next
  <2>. QED
    BY <2>2, <2>4, <2>5
<1>10. Run \in Carriers /\ \A e \in Events : e \in Carriers
  BY DEF Carriers
<1>. QED
  BY <1>3, <1>4, <1>5, <1>6, <1>7, <1>8, <1>9, <1>10 DEF Next, RunStep, SpillStep

\* Whatever the capacities, the hub implements Fanout: a connection is given, while it is
\* registered, events of its user that were handed over, each once, and after it is closed
\* nothing (Hub.Run, SendToUser, removeClient).
THEOREM Implementation == Spec => ImplementsFanout
<1>1. Init => CopyInv /\ Abstract!Init
  <2> SUFFICES ASSUME Init PROVE CopyInv /\ Abstract!Init
    OBVIOUS
  <2>1. CopyInv
    <3>1. \A t \in Carriers : task[t] = NoTask
      BY DEF Init, Carriers
    <3>. QED
      BY <3>1 DEF CopyInv, Pending, NoTask
  <2>2. \A c \in Conns : Received(c) = <<>> /\ ~closed[c] /\ c \notin clients
    BY DEF Init, Received
  <2>3. next = 0
    BY DEF Init
  <2>. QED
    BY <2>1, <2>2, <2>3 DEF Abstract!Init, memberBar, streamBar
<1>2. TypeInv /\ CopyInv /\ [Next]_vars => CopyInv'
  BY CopyInductive
<1>3. TypeInv /\ RegistryInv /\ GivenInv /\ PlacesInv /\ CopyInv /\ [Next]_vars
        => [Abstract!Next]_(Abstract!vars)
  BY StepSimulation
<1>. QED
  BY <1>1, <1>2, <1>3, RegistryInvariant, GivenInvariant, PTL
  DEF Spec, ImplementsFanout, Abstract!Spec

=============================================================================
