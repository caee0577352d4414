--------------------------- MODULE SendPathProofs ---------------------------
(***************************************************************************)
(* Theorems about SendPath for every set of users, connections, keys and   *)
(* conversations and any number of sends.                                  *)
(***************************************************************************)
EXTENDS SendPath, FiniteSetTheorems, TLAPS

\* The typing invariant with the two facts about the control state it rests on: a
\* send that may still look up the old message has a lookup left, and a send that
\* looks up, stores, acknowledges or publishes a message, or whose event the writer
\* holds, knows its msg_id.
TypeInv ==
  /\ TypeOK
  /\ \A a \in Sends : pc[a] \in {"idle", "setnx", "get", "wait"} => lookups[a] < MaxLookups
  /\ \A a \in Sends :
       pc[a] \in {"wait", "tx", "ack", "publish"} \/ a \in pending => msg[a] # None

\* TypeInv holds in every reachable state.
LEMMA TypeInvariant == Spec => []TypeInv
<1> USE ConstantsAssumption
<1>1. Init => TypeInv
  BY DEF Init, TypeInv, TypeOK, Sends, None, PCs, Requests
<1>2. TypeInv /\ [Next]_vars => TypeInv'
  <2> SUFFICES ASSUME TypeInv, [Next]_vars
               PROVE  TypeInv'
    OBVIOUS
  <2> USE DEF TypeInv, TypeOK, PCs, None, Goto, Fail, redis, mysql, kafka, Requests
  <2>1. ASSUME NEW a \in Sends, Reject(a) \/ Begin(a)
        PROVE  TypeInv'
    BY <2>1 DEF Reject, Begin, Accept
  <2>2. ASSUME NEW a \in Sends, Claim(a) \/ Taken(a) \/ SetNXError(a) \/ SetNXLost(a)
        PROVE  TypeInv'
    <3>1. KeyOf(a) \in Keys
      BY DEF KeyOf
    <3>2. CASE Claim(a)
      BY <3>1, <3>2 DEF Claim
    <3>3. CASE Taken(a) \/ SetNXError(a)
      BY <3>1, <3>3 DEF Taken, SetNXError
    <3>4. CASE SetNXLost(a)
      <4>1. late' \subseteq {"setnx", "del"} \X Sends
        BY <3>4 DEF SetNXLost
      <4>2. /\ pc' \in [Sends -> PCs] /\ reply' \in [Sends -> {"none", "ackok", "error"}]
            /\ \A b \in Sends : pc'[b] = pc[b] \/ pc'[b] = "done"
        BY <3>4 DEF SetNXLost
      <4>3. UNCHANGED <<req, idem, messages, at, lastMsg, unread, msg, lookups, pending, topic>>
        BY <3>4 DEF SetNXLost
      <4>. QED
        BY <4>1, <4>2, <4>3
    <3>. QED
      BY <2>2, <3>1, <3>2, <3>3, <3>4
  <2>3. ASSUME NEW a \in Sends, ReadKey(a) \/ ReadKeyError(a)
        PROVE  TypeInv'
    <3>1. KeyOf(a) \in Keys
      BY DEF KeyOf
    <3>2. CASE ReadKey(a)
      <4>1. CASE idem[KeyOf(a)] = None
        BY <3>2, <4>1 DEF ReadKey
      <4>2. CASE idem[KeyOf(a)] # None
        <5>1. /\ msg' = [msg EXCEPT ![a] = idem[KeyOf(a)]] /\ pc' = [pc EXCEPT ![a] = "wait"]
              /\ pc[a] = "get"
              /\ UNCHANGED <<req, idem, late, messages, at, lastMsg, unread, lookups, reply,
                             pending, topic>>
          BY <3>2, <4>2 DEF ReadKey
        <5>2. msg' \in [Sends -> Sends \cup {None}] /\ msg'[a] # None
          BY <3>1, <4>2, <5>1
        <5>3. \A b \in Sends \ {a} : pc'[b] = pc[b] /\ msg'[b] = msg[b]
          BY <5>1
        <5>4. pc' \in [Sends -> PCs] /\ pc'[a] = "wait"
          BY <5>1
        <5>. QED
          BY <5>1, <5>2, <5>3, <5>4
      <4>. QED
        BY <4>1, <4>2
    <3>3. CASE ReadKeyError(a)
      BY <3>3 DEF ReadKeyError
    <3>. QED
      BY <2>3, <3>2, <3>3
  <2>4. ASSUME NEW a \in Sends, LookupHit(a) \/ LookupMiss(a) \/ LookupError(a)
        PROVE  TypeInv'
    <3>1. CASE LookupHit(a) \/ LookupError(a)
      BY <3>1 DEF LookupHit, LookupError
    <3>2. CASE LookupMiss(a)
      <4>1. lookups[a] \in 0..MaxLookups /\ lookups[a] < MaxLookups
        BY <3>2 DEF LookupMiss
      <4>2. lookups' \in [Sends -> 0..MaxLookups]
        BY <3>2, <4>1 DEF LookupMiss
      <4>3. CASE lookups'[a] = MaxLookups
        <5>1. /\ pc' = [pc EXCEPT ![a] = "done"] /\ reply' = [reply EXCEPT ![a] = "error"]
              /\ \A b \in Sends \ {a} : lookups'[b] = lookups[b]
              /\ UNCHANGED <<req, idem, late, messages, at, lastMsg, unread, msg, pending, topic>>
          BY <3>2, <4>3 DEF LookupMiss
        <5>2. \A b \in Sends : pc'[b] = IF b = a THEN "done" ELSE pc[b]
          BY <5>1
        <5>3. pc' \in [Sends -> PCs] /\ reply' \in [Sends -> {"none", "ackok", "error"}]
          BY <5>1
        <5>4. \A b \in Sends : pc'[b] \in {"idle", "setnx", "get", "wait"} => lookups'[b] < MaxLookups
          BY <5>1, <5>2
        <5>5. \A b \in Sends : pc'[b] \in {"wait", "tx", "ack", "publish"} \/ b \in pending' => msg'[b] # None
          BY <5>1, <5>2
        <5>6. TypeOK'
          BY <4>2, <5>1, <5>3 DEF TypeOK
        <5>. QED
          BY <5>4, <5>5, <5>6
      <4>4. CASE lookups'[a] # MaxLookups
        <5>1. /\ lookups'[a] < MaxLookups
              /\ \A b \in Sends \ {a} : lookups'[b] = lookups[b]
              /\ UNCHANGED <<req, pc, idem, late, messages, at, lastMsg, unread, msg, reply,
                             pending, topic>>
          BY <3>2, <4>1, <4>2, <4>4 DEF LookupMiss
        <5>2. \A b \in Sends : pc'[b] \in {"idle", "setnx", "get", "wait"} => lookups'[b] < MaxLookups
          BY <5>1
        <5>3. TypeOK'
          BY <4>2, <5>1 DEF TypeOK
        <5>. QED
          BY <5>1, <5>2, <5>3
      <4>. QED
        BY <4>3, <4>4
    <3>. QED
      BY <2>4, <3>1, <3>2
  <2>5. ASSUME NEW a \in Sends, CheckMember(a) \/ NotMember(a)
        PROVE  TypeInv'
    <3>1. CASE CheckMember(a)
      <4>1. PICK t \in Times : at' = [at EXCEPT ![a] = t]
        BY <3>1 DEF CheckMember
      <4>2. at' \in [Sends -> Times \cup {0}]
        BY <4>1
      <4>. QED
        <5>1. pc' \in [Sends -> PCs] /\ \A b \in Sends : pc'[b] = IF b = a THEN "tx" ELSE pc[b]
          BY <3>1 DEF CheckMember
        <5>2. msg' \in [Sends -> Sends \cup {None}]
          BY <3>1 DEF CheckMember
        <5>3. \A b \in Sends : msg'[b] = IF b = a THEN a ELSE msg[b]
          BY <3>1 DEF CheckMember
        <5>4. a # None
          BY DEF Sends
        <5>. QED
          BY <3>1, <4>2, <5>1, <5>2, <5>3, <5>4 DEF CheckMember
    <3>2. CASE NotMember(a)
      BY <3>2 DEF NotMember
    <3>. QED
      BY <2>5, <3>1, <3>2
  <2>6. ASSUME NEW a \in Sends, Commit(a) \/ CommitLost(a) \/ Rollback(a)
        PROVE  TypeInv'
    <3>1. CASE Rollback(a)
      BY <3>1 DEF Rollback
    <3>2. CASE Commit(a) \/ CommitLost(a)
      <4>1. Conv(a) \in Convs /\ at[a] \in Times \cup {0}
        BY DEF Conv, KeyOf
      <4>2. WriteRows(a)
        BY <3>2 DEF Commit, CommitLost
      <4>3. messages' \subseteq Sends
        BY <4>2 DEF WriteRows
      <4>4. lastMsg' \in [Convs -> [id : Sends \cup {None}, at : Times \cup {0}]]
        BY <4>1, <4>2 DEF WriteRows
      <4>5. unread' \in [Convs -> [Users -> Nat]]
        BY <4>1, <4>2 DEF WriteRows
      <4>. QED
        BY <3>2, <4>3, <4>4, <4>5 DEF Commit, CommitLost
    <3>. QED
      BY <2>6, <3>1, <3>2
  <2>7. ASSUME NEW a \in Sends, Release(a) \/ ReleaseError(a) \/ ReleaseLost(a)
        PROVE  TypeInv'
    <3>1. KeyOf(a) \in Keys
      BY DEF KeyOf
    <3>2. CASE Release(a) \/ ReleaseError(a)
      BY <3>1, <3>2 DEF Release, ReleaseError
    <3>3. CASE ReleaseLost(a)
      <4>1. late' \subseteq {"setnx", "del"} \X Sends
        BY <3>3 DEF ReleaseLost
      <4>2. /\ pc' \in [Sends -> PCs] /\ reply' \in [Sends -> {"none", "ackok", "error"}]
            /\ \A b \in Sends : pc'[b] = pc[b] \/ pc'[b] = "done"
        BY <3>3 DEF ReleaseLost
      <4>3. UNCHANGED <<req, idem, messages, at, lastMsg, unread, msg, lookups, pending, topic>>
        BY <3>3 DEF ReleaseLost
      <4>. QED
        BY <4>1, <4>2, <4>3
    <3>. QED
      BY <2>7, <3>2, <3>3
  <2>8. ASSUME NEW a \in Sends, Ack(a)
        PROVE  TypeInv'
    BY <2>8 DEF Ack
  <2>9. ASSUME NEW a \in Sends, Publish(a) \/ PublishError(a)
        PROVE  TypeInv'
    <3>1. CASE Publish(a)
      BY <3>1 DEF Publish
    <3>2. CASE PublishError(a)
      BY <3>2 DEF PublishError
    <3>. QED
      BY <2>9, <3>1, <3>2
  <2>10. ASSUME NEW a \in Sends, Crash(a)
         PROVE  TypeInv'
    BY <2>10 DEF Crash, InFlight
  <2>11. ASSUME NEW k \in Keys, Expire(k)
         PROVE  TypeInv'
    BY <2>11 DEF Expire
  <2>12. ASSUME NEW a \in Sends, LateSetNX(a) \/ LateDel(a)
         PROVE  TypeInv'
    <3>1. KeyOf(a) \in Keys
      BY DEF KeyOf
    <3>. QED
      BY <2>12, <3>1 DEF LateSetNX, LateDel
  <2>13. ASSUME NEW a \in Sends, AppendEvent(a)
         PROVE  TypeInv'
    <3>1. /\ a \in pending /\ topic' = Append(topic, msg[a]) /\ pending' \subseteq pending
          /\ UNCHANGED <<req, pc, idem, late, messages, at, lastMsg, unread, msg, lookups, reply>>
      BY <2>13 DEF AppendEvent
    <3>2. topic' \in Seq(Sends)
      <4>1. msg[a] \in Sends
        BY <3>1
      <4>. QED
        BY <3>1, <4>1
    <3>. QED
      BY <3>1, <3>2
  <2>14. CASE UNCHANGED vars
    BY <2>14 DEF vars
  <2>. QED
    BY <2>1, <2>2, <2>3, <2>4, <2>5, <2>6, <2>7, <2>8, <2>9, <2>10, <2>11, <2>12, <2>13,
       <2>14 DEF Next, Step, Background, Finished
<1>. QED
  BY <1>1, <1>2, PTL DEF Spec

\* HandleSend and dispatch keep every variable of the send path well-typed.
THEOREM TypeCorrect == Spec => []TypeOK
<1>1. TypeInv => TypeOK
  BY DEF TypeInv
<1>. QED
  BY <1>1, TypeInvariant, PTL

-----------------------------------------------------------------------------
(* What an ackok means.  Nothing is assumed about the failures. *)

\* Keys name sends of that key; the message being looked up, stored, acknowledged or
\* published is one of the send's own key; an acknowledged send is past its ack, and so is
\* one whose event the writer holds.
AckSend(a) ==
  /\ pc[a] = "wait" => KeyOf(msg[a]) = KeyOf(a)
  /\ pc[a] = "tx" => msg[a] = a
  /\ pc[a] = "ack" \/ reply[a] = "ackok" =>
       msg[a] \in messages /\ KeyOf(msg[a]) = KeyOf(a)
  /\ pc[a] = "publish" \/ a \in pending => reply[a] = "ackok" /\ msg[a] = a
  /\ reply[a] = "ackok" => pc[a] \in {"publish", "done", "dead"}
  /\ a \in pending => pc[a] # "publish"

AckInv ==
  /\ \A k \in Keys : idem[k] # None => KeyOf(idem[k]) = k
  /\ \A a \in Sends : AckSend(a)

\* AckInv is preserved by every step of every send.
LEMMA AckInductive ==
  ASSUME TypeInv, TypeInv', AckInv, [Next]_vars
  PROVE  AckInv'
<1> USE ConstantsAssumption DEF TypeInv, TypeOK, AckInv, AckSend, KeyOf, None, redis, mysql, kafka
<1>0. \A a \in Sends : KeyOf(a) \in Keys /\ a # None
  BY DEF Requests, Sends
<1>1. ASSUME NEW a \in Sends, Reject(a) \/ Begin(a) \/ Taken(a) \/ SetNXError(a)
      PROVE  AckInv'
  <2>1. pc[a] \in {"idle", "setnx"} /\ UNCHANGED <<req, idem, messages, msg, pending>>
    BY <1>1 DEF Reject, Begin, Taken, SetNXError, Accept
  <2>2. /\ pc' = [pc EXCEPT ![a] = "setnx"] \/ pc' = [pc EXCEPT ![a] = "get"]
           \/ pc' = [pc EXCEPT ![a] = "done"]
        /\ UNCHANGED reply \/ reply' = [reply EXCEPT ![a] = "error"]
    BY <1>1 DEF Reject, Begin, Taken, SetNXError, Goto, Fail
  <2>. QED
    BY <2>1, <2>2
<1>2. ASSUME NEW a \in Sends, Claim(a) \/ SetNXLost(a) \/ LateSetNX(a) \/ LateDel(a)
      PROVE  AckInv'
  <2>1. /\ \/ idem' = [idem EXCEPT ![KeyOf(a)] = a] \/ UNCHANGED idem
           \/ idem' = [idem EXCEPT ![KeyOf(a)] = None]
        /\ UNCHANGED req
    <3>1. CASE LateSetNX(a)
      <4>1. UNCHANGED req /\ idem' = [idem EXCEPT ![KeyOf(a)] = IF @ = None THEN a ELSE @]
        BY <3>1 DEF LateSetNX
      <4>2. CASE idem[KeyOf(a)] = None
        BY <4>1, <4>2
      <4>3. CASE idem[KeyOf(a)] # None
        BY <4>1, <4>3
      <4>. QED
        BY <4>1, <4>2, <4>3
    <3>2. CASE Claim(a)
      BY <3>2 DEF Claim
    <3>3. CASE SetNXLost(a)
      BY <3>3 DEF SetNXLost
    <3>4. CASE LateDel(a)
      BY <3>4 DEF LateDel
    <3>. QED
      BY <1>2, <3>1, <3>2, <3>3, <3>4
  <2>2. \A k \in Keys : idem'[k] # None => req'[idem'[k]].key = k
    <3>1. CASE idem' = [idem EXCEPT ![KeyOf(a)] = a]
      BY <1>0, <2>1, <3>1
    <3>2. CASE UNCHANGED idem
      BY <2>1, <3>2
    <3>3. CASE idem' = [idem EXCEPT ![KeyOf(a)] = None]
      BY <1>0, <2>1, <3>3
    <3>. QED
      BY <2>1, <3>1, <3>2, <3>3
  <2>3. CASE Claim(a)
    BY <2>2, <2>3 DEF Claim, Goto
  <2>4. CASE SetNXLost(a)
    BY <2>2, <2>4 DEF SetNXLost, Goto, Fail
  <2>5. CASE LateSetNX(a) \/ LateDel(a)
    BY <2>2, <2>5 DEF LateSetNX, LateDel
  <2>. QED
    BY <1>2, <2>3, <2>4, <2>5
<1>3. ASSUME NEW a \in Sends, ReadKey(a) \/ ReadKeyError(a)
      PROVE  AckInv'
  <2>1. CASE ReadKey(a)
    <3>1. CASE idem[KeyOf(a)] = None
      BY <2>1, <3>1 DEF ReadKey, Goto, Fail
    <3>2. CASE idem[KeyOf(a)] # None
      <4>1. /\ \A b \in Sends : msg'[b] = IF b = a THEN idem[KeyOf(a)] ELSE msg[b]
            /\ \A b \in Sends : pc'[b] = IF b = a THEN "wait" ELSE pc[b]
            /\ pc[a] = "get"
            /\ UNCHANGED <<req, idem, messages, reply, pending>>
        BY <2>1, <3>2 DEF ReadKey, Goto
      <4>2. idem[KeyOf(a)] \in Sends /\ KeyOf(idem[KeyOf(a)]) = KeyOf(a)
        BY <1>0, <3>2
      <4>3. reply[a] # "ackok"
        BY <4>1
      <4>4. \A k \in Keys : idem'[k] # None => KeyOf(idem[k]) = k
        BY <4>1
      <4>5. \A b \in Sends \ {a} : pc'[b] = pc[b] /\ msg'[b] = msg[b]
        BY <4>1
      <4>6. pc'[a] = "wait" /\ msg'[a] = idem[KeyOf(a)]
        BY <4>1
      <4>7. AckSend(a)'
        BY <4>1, <4>2, <4>3, <4>6
      <4>8. ASSUME NEW b \in Sends \ {a} PROVE AckSend(b)'
        BY <4>1, <4>5
      <4>. QED
        BY <4>1, <4>4, <4>7, <4>8 DEF AckInv
    <3>. QED
      BY <3>1, <3>2
  <2>2. CASE ReadKeyError(a)
    BY <2>2 DEF ReadKeyError, Fail, Goto
  <2>. QED
    BY <1>3, <2>1, <2>2
<1>4. ASSUME NEW a \in Sends, LookupHit(a) \/ LookupMiss(a) \/ LookupError(a)
      PROVE  AckInv'
  <2>1. CASE LookupHit(a)
    BY <2>1 DEF LookupHit, Goto
  <2>2. CASE LookupMiss(a)
    BY <2>2 DEF LookupMiss, Goto, Fail
  <2>3. CASE LookupError(a)
    BY <2>3 DEF LookupError, Goto, Fail
  <2>. QED
    BY <1>4, <2>1, <2>2, <2>3
<1>5. ASSUME NEW a \in Sends, CheckMember(a) \/ NotMember(a)
      PROVE  AckInv'
  <2>1. CASE CheckMember(a)
    <3>1. /\ \A b \in Sends : msg'[b] = IF b = a THEN a ELSE msg[b]
          /\ \A b \in Sends : pc'[b] = IF b = a THEN "tx" ELSE pc[b]
          /\ pc[a] = "member"
          /\ UNCHANGED <<req, idem, messages, reply, pending>>
      BY <2>1 DEF CheckMember, Goto
    <3>2. reply[a] # "ackok"
      BY <3>1
    <3>3. \A b \in Sends \ {a} : pc'[b] = pc[b] /\ msg'[b] = msg[b]
      BY <3>1
    <3>4. pc'[a] = "tx" /\ msg'[a] = a
      BY <3>1
    <3>5. AckSend(a)'
      BY <3>1, <3>2, <3>4
    <3>6. ASSUME NEW b \in Sends \ {a} PROVE AckSend(b)'
      BY <3>1, <3>3
    <3>. QED
      BY <3>1, <3>5, <3>6
  <2>2. CASE NotMember(a)
    BY <2>2 DEF NotMember, Goto
  <2>. QED
    BY <1>5, <2>1, <2>2
<1>6. ASSUME NEW a \in Sends, Commit(a) \/ CommitLost(a)
      PROVE  AckInv'
  <2>1. messages' = messages \cup {a} /\ UNCHANGED <<req, idem, msg, reply, pending>>
    BY <1>6 DEF Commit, CommitLost, WriteRows
  <2>2. pc[a] = "tx" /\ (pc' = [pc EXCEPT ![a] = "ack"] \/ pc' = [pc EXCEPT ![a] = "del"])
    BY <1>6 DEF Commit, CommitLost, Goto
  <2>. QED
    BY <2>1, <2>2
<1>7. ASSUME NEW a \in Sends,
             Rollback(a) \/ Release(a) \/ ReleaseError(a) \/ ReleaseLost(a)
      PROVE  AckInv'
  <2>1. CASE Rollback(a)
    BY <2>1 DEF Rollback, Goto
  <2>3. CASE ReleaseError(a)
    BY <2>3 DEF ReleaseError, Goto, Fail
  <2>2. CASE Release(a)
    BY <1>0, <2>2 DEF Release, Goto, Fail
  <2>4. CASE ReleaseLost(a)
    BY <2>4 DEF ReleaseLost, Goto, Fail
  <2>. QED
    BY <1>7, <2>1, <2>2, <2>3, <2>4
<1>8. ASSUME NEW a \in Sends, Ack(a)
      PROVE  AckInv'
  BY <1>8 DEF Ack, Goto
<1>9. ASSUME NEW a \in Sends, Publish(a) \/ PublishError(a) \/ Crash(a) \/ AppendEvent(a)
      PROVE  AckInv'
  <2>1. UNCHANGED <<req, idem, messages, msg, reply>>
    BY <1>9 DEF Publish, PublishError, Crash, AppendEvent
  <2>2. \A b \in Sends : pc'[b] = pc[b] \/ pc'[b] = "done" \/ pc'[b] = "dead"
    BY <1>9 DEF Publish, PublishError, Crash, AppendEvent, Goto
  <2>3. \A b \in Sends :
          b \in pending' => b \in pending \/ (b = a /\ pc[a] = "publish" /\ pc'[a] = "done")
    BY <1>9 DEF Publish, PublishError, Crash, AppendEvent, Goto
  <2>4. ASSUME NEW b \in Sends PROVE AckSend(b)'
    <3>1. /\ pc'[b] = pc[b] \/ pc'[b] = "done" \/ pc'[b] = "dead"
          /\ b \in pending' => b \in pending \/ (pc[b] = "publish" /\ pc'[b] = "done")
      BY <2>2, <2>3
    <3>. QED
      BY <2>1, <3>1
  <2>. QED
    BY <2>1, <2>4
<1>10. ASSUME NEW k \in Keys, Expire(k)
       PROVE  AckInv'
  BY <1>0, <1>10 DEF Expire
<1>11. CASE UNCHANGED vars
  BY <1>11 DEF vars
<1>. QED
  BY <1>1, <1>2, <1>3, <1>4, <1>5, <1>6, <1>7, <1>8, <1>9, <1>10, <1>11
     DEF Next, Step, Background, Finished

\* AckInv holds in every reachable state.
LEMMA AckInvariant == Spec => [](TypeInv /\ AckInv)
<1>1. Init => AckInv
  BY DEF Init, AckInv, AckSend
<1>. QED
  BY <1>1, TypeInvariant, AckInductive, PTL DEF Spec

\* An ackok always names a stored message of the client_msg_id it answers, whatever
\* fails and however the sends interleave (dispatch, HandleSend).
THEOREM AckCorrect == Spec => []AckNamesStored
<1>1. AckInv => AckNamesStored
  BY DEF AckInv, AckSend, AckNamesStored
<1>. QED
  BY <1>1, AckInvariant, PTL

-----------------------------------------------------------------------------
(* A message is stored once.  Here COMMIT must report what it did, a key must *)
(* outlive the retries, and Redis must not execute a DEL whose reply was lost  *)
(* (or that was given up) after another send claimed the key.  Processes may   *)
(* crash, SETNXs may be executed late or twice, and DELs may fail.             *)

Reliable == Faults \cap {"commitLost", "expire", "delLost"} = {}

\* A send between its claim and its release owns its key, and nothing is stored by a
\* send before its COMMIT: so the key a failing send deletes is not that of a stored
\* message, and no DEL is left over that could delete it later.
Owning == {"member", "tx", "del"}
Unstored == {"idle", "setnx", "get", "wait"} \cup Owning

ClaimSend(a) ==
  /\ pc[a] \in Owning => idem[KeyOf(a)] = a
  /\ pc[a] \in Unstored => a \notin messages

ClaimInv ==
  /\ StoredKeepsKey
  /\ \A a \in Sends : <<"del", a>> \notin late
  /\ \A a \in Sends : ClaimSend(a)

\* A step that leaves keys and messages alone and makes no send an owner.
LEMMA ClaimFrame ==
  ASSUME ClaimInv, UNCHANGED <<req, idem, late, messages>>,
         \A b \in Sends : /\ pc'[b] \in Owning => pc[b] \in Owning
                          /\ pc'[b] \in Unstored => pc[b] \in Unstored
  PROVE  ClaimInv'
BY DEF ClaimInv, ClaimSend, StoredKeepsKey, KeyOf

\* ClaimInv is preserved by every step of every send.
LEMMA ClaimInductive ==
  ASSUME Reliable, TypeInv, AckInv, ClaimInv, [Next]_vars
  PROVE  ClaimInv'
<1> USE DEF TypeInv, TypeOK, Owning, Unstored, None, redis, mysql, kafka
<1>0. \A a \in Sends : KeyOf(a) \in Keys /\ a # None
  BY DEF Requests, Sends, KeyOf
<1>1. ASSUME NEW a \in Sends, Reject(a) \/ Begin(a) \/ Taken(a) \/ SetNXError(a)
      PROVE  ClaimInv'
  <2>1. UNCHANGED <<req, idem, late, messages>>
    BY <1>1 DEF Reject, Begin, Taken, SetNXError
  <2>2. /\ pc[a] \in {"idle", "setnx"}
        /\ Goto(a, "setnx") \/ Goto(a, "get") \/ Goto(a, "done")
    BY <1>1 DEF Reject, Begin, Taken, SetNXError, Accept, Fail
  <2>. QED
    BY <2>1, <2>2, ClaimFrame DEF Goto
<1>2. ASSUME NEW a \in Sends, Claim(a)
      PROVE  ClaimInv'
  <2>1. /\ idem' = [idem EXCEPT ![KeyOf(a)] = a]
        /\ idem[KeyOf(a)] = None
        /\ pc[a] = "setnx"
        /\ UNCHANGED <<req, late, messages>>
    BY <1>2 DEF Claim
  <2>2. \A b \in Sends \ {a} : pc'[b] = pc[b]
    BY <1>2 DEF Claim, Goto
  <2>3. StoredKeepsKey'
    BY <1>0, <2>1 DEF ClaimInv, ClaimSend, StoredKeepsKey, KeyOf
  <2>4. ClaimSend(a)'
    BY <1>0, <2>1 DEF ClaimInv, ClaimSend, StoredKeepsKey, KeyOf
  <2>5. ASSUME NEW b \in Sends \ {a} PROVE ClaimSend(b)'
    BY <1>0, <2>1, <2>2 DEF ClaimInv, ClaimSend, StoredKeepsKey, KeyOf
  <2>. QED
    BY <2>1, <2>3, <2>4, <2>5 DEF ClaimInv
<1>3. ASSUME NEW a \in Sends, ReadKey(a) \/ ReadKeyError(a)
      PROVE  ClaimInv'
  <2>1. UNCHANGED <<req, idem, late, messages>>
    BY <1>3 DEF ReadKey, ReadKeyError
  <2>2. pc[a] = "get" /\ (Goto(a, "wait") \/ Goto(a, "done"))
    BY <1>3 DEF ReadKey, ReadKeyError, Fail
  <2>. QED
    BY <2>1, <2>2, ClaimFrame DEF Goto
<1>4. ASSUME NEW a \in Sends, LookupHit(a) \/ LookupMiss(a) \/ LookupError(a)
      PROVE  ClaimInv'
  <2>1. UNCHANGED <<req, idem, late, messages>>
    BY <1>4 DEF LookupHit, LookupMiss, LookupError
  <2>2. pc[a] = "wait" /\ \A b \in Sends : pc'[b] = pc[b] \/ pc'[b] \in {"ack", "done"}
    BY <1>4 DEF LookupHit, LookupMiss, LookupError, Goto, Fail
  <2>. QED
    BY <2>1, <2>2, ClaimFrame
<1>5. ASSUME NEW a \in Sends, CheckMember(a) \/ NotMember(a) \/ Rollback(a)
      PROVE  ClaimInv'
  <2>1. UNCHANGED <<req, idem, late, messages>>
    BY <1>5 DEF CheckMember, NotMember, Rollback
  <2>2. /\ pc[a] \in {"member", "tx"}
        /\ Goto(a, "tx") \/ Goto(a, "del")
    BY <1>5 DEF CheckMember, NotMember, Rollback
  <2>. QED
    BY <2>1, <2>2, ClaimFrame DEF Goto
<1>6. ASSUME NEW a \in Sends, Commit(a)
      PROVE  ClaimInv'
  <2>1. messages' = messages \cup {a} /\ UNCHANGED <<req, idem, late>>
    BY <1>6 DEF Commit, WriteRows
  <2>2. pc[a] = "tx" /\ pc'[a] = "ack" /\ \A b \in Sends \ {a} : pc'[b] = pc[b]
    BY <1>6 DEF Commit, Goto
  <2>. QED
    BY <2>1, <2>2 DEF ClaimInv, ClaimSend, StoredKeepsKey, KeyOf
<1>7. ASSUME NEW a \in Sends, CommitLost(a)
      PROVE  ClaimInv'
  BY <1>7 DEF CommitLost, Reliable
<1>8. ASSUME NEW a \in Sends, Release(a)
      PROVE  ClaimInv'
  <2>1. /\ idem' = [idem EXCEPT ![KeyOf(a)] = None]
        /\ pc[a] = "del"
        /\ pc' = [pc EXCEPT ![a] = "done"]
        /\ UNCHANGED <<req, late, messages>>
    BY <1>8 DEF Release, Fail, Goto
  <2>2. StoredKeepsKey'
    <3>1. \A m \in messages : KeyOf(m) # KeyOf(a)
      BY <2>1 DEF ClaimInv, ClaimSend, StoredKeepsKey, KeyOf
    <3>. QED
      BY <1>0, <2>1, <3>1 DEF ClaimInv, ClaimSend, StoredKeepsKey, KeyOf
  <2>3. ClaimSend(a)'
    BY <2>1 DEF ClaimInv, ClaimSend, StoredKeepsKey, KeyOf
  <2>4. ASSUME NEW b \in Sends \ {a} PROVE ClaimSend(b)'
    BY <1>0, <2>1 DEF ClaimInv, ClaimSend, StoredKeepsKey, KeyOf
  <2>. QED
    BY <2>1, <2>2, <2>3, <2>4 DEF ClaimInv
<1>9. ASSUME NEW a \in Sends, ReleaseError(a) \/ Ack(a) \/ Publish(a) \/ PublishError(a)
                              \/ Crash(a) \/ AppendEvent(a)
      PROVE  ClaimInv'
  <2>1. UNCHANGED <<req, idem, late, messages>>
    BY <1>9 DEF ReleaseError, Ack, Publish, PublishError, Crash, AppendEvent
  <2>2. \A b \in Sends : pc'[b] = pc[b] \/ pc'[b] \in {"publish", "done", "dead"}
    BY <1>9 DEF ReleaseError, Ack, Publish, PublishError, Crash, AppendEvent, Goto, Fail
  <2>. QED
    BY <2>1, <2>2, ClaimFrame
<1>10. ASSUME NEW k \in Keys, Expire(k)
       PROVE  ClaimInv'
  BY <1>10 DEF Expire, Reliable
<1>11. CASE UNCHANGED vars
  BY <1>11, ClaimFrame DEF vars
<1>12. ASSUME NEW a \in Sends, SetNXLost(a)
       PROVE  ClaimInv'
  <2>1. late' = late \cup {<<"setnx", a>>} /\ UNCHANGED <<req, idem, messages>>
    BY <1>12 DEF SetNXLost
  <2>2. pc[a] = "setnx" /\ \A b \in Sends : pc'[b] = pc[b] \/ pc'[b] = "done"
    BY <1>12 DEF SetNXLost, Goto, Fail
  <2>3. \A b \in Sends : <<"del", b>> \notin late'
    BY <2>1 DEF ClaimInv
  <2>4. StoredKeepsKey' /\ \A b \in Sends : ClaimSend(b)'
    BY <2>1, <2>2 DEF ClaimInv, ClaimSend, StoredKeepsKey, KeyOf
  <2>. QED
    BY <2>3, <2>4 DEF ClaimInv
<1>13. ASSUME NEW a \in Sends, LateSetNX(a)
       PROVE  ClaimInv'
  <2>1. /\ late' \subseteq late /\ UNCHANGED <<req, pc, messages>>
        /\ idem' = [idem EXCEPT ![KeyOf(a)] = IF @ = None THEN a ELSE @]
    BY <1>13 DEF LateSetNX
  <2>2. \A k \in Keys : idem[k] # None => idem'[k] = idem[k]
    BY <1>0, <2>1
  <2>3. \A m \in messages : KeyOf(m) \in Keys /\ m # None
    BY <1>0
  <2>4. StoredKeepsKey'
    BY <2>1, <2>2, <2>3 DEF ClaimInv, StoredKeepsKey, KeyOf
  <2>5. ASSUME NEW b \in Sends PROVE ClaimSend(b)'
    BY <1>0, <2>1, <2>2 DEF ClaimInv, ClaimSend, KeyOf
  <2>. QED
    BY <2>1, <2>4, <2>5 DEF ClaimInv
<1>14. ASSUME NEW a \in Sends, LateDel(a) \/ ReleaseLost(a)
       PROVE  ClaimInv'
  BY <1>14 DEF LateDel, ReleaseLost, ClaimInv, Reliable
<1>. QED
  BY <1>1, <1>2, <1>3, <1>4, <1>5, <1>6, <1>7, <1>8, <1>9, <1>10, <1>11, <1>12, <1>13, <1>14
     DEF Next, Step, Background, Finished

\* ClaimInv holds in every reachable state.
LEMMA ClaimInvariant ==
  ASSUME Reliable
  PROVE  Spec => [](TypeInv /\ AckInv /\ ClaimInv)
<1>1. Init => ClaimInv
  BY DEF Init, ClaimInv, ClaimSend, StoredKeepsKey, Owning
<1>2. TypeInv /\ AckInv /\ ClaimInv /\ [Next]_vars => ClaimInv'
  BY ClaimInductive
<1>. QED
  BY <1>1, <1>2, AckInvariant, PTL DEF Spec

\* As long as COMMIT reports what it did, keys outlive the retries and no DEL is executed
\* after it was given up or sent again, a stored message's key is never released
\* (DelValueByKey after a failed send).
THEOREM KeyKept == ASSUME Reliable PROVE Spec => []StoredKeepsKey
<1>1. ClaimInv => StoredKeepsKey
  BY DEF ClaimInv
<1>. QED
  BY <1>1, ClaimInvariant, PTL

\* Under the same three conditions no client message is stored twice (HandleSend's SETNX).
THEOREM StoredOnce == ASSUME Reliable PROVE Spec => []AtMostOnce
<1>1. ClaimInv => AtMostOnce
  BY DEF ClaimInv, StoredKeepsKey, AtMostOnce
<1>. QED
  BY <1>1, ClaimInvariant, PTL

-----------------------------------------------------------------------------
(* The send path implements SendOnce. *)

\* Every step of the send path is a step of SendOnce or changes nothing of it.
LEMMA StepSimulation ==
  ASSUME Reliable, TypeInv, TypeInv', AckInv, ClaimInv, [Next]_vars
  PROVE  [Abstract!Next]_(Abstract!vars)
<1> USE DEF TypeInv, TypeOK, None, redis, mysql, kafka
<1>0. \A a \in Sends : KeyOf(a) \in Keys /\ a # None
  BY DEF Requests, Sends, KeyOf
<1>1. ASSUME UNCHANGED <<req, messages>> PROVE UNCHANGED storedBar
  BY <1>1 DEF storedBar, KeyOf
<1>2. ASSUME UNCHANGED <<req, reply, msg>> PROVE UNCHANGED ackedBar
  BY <1>2 DEF ackedBar, KeyOf
<1>3. ASSUME UNCHANGED topic PROVE UNCHANGED publishedBar
  BY <1>3 DEF publishedBar
<1>4. ASSUME NEW a \in Sends, pc[a] \notin {"publish", "done", "dead"},
             UNCHANGED <<req, messages, topic>>,
             \A b \in Sends \ {a} : reply'[b] = reply[b] /\ msg'[b] = msg[b],
             reply'[a] # "ackok"
      PROVE  UNCHANGED Abstract!vars
  <2>1. reply[a] # "ackok"
    BY <1>4 DEF AckInv, AckSend
  <2>2. UNCHANGED ackedBar
    BY <1>4, <2>1 DEF ackedBar, KeyOf
  <2>. QED
    BY <1>1, <1>3, <1>4, <2>2 DEF Abstract!vars
<1>5. ASSUME NEW a \in Sends,
             \/ Reject(a) \/ Begin(a) \/ Claim(a) \/ Taken(a) \/ SetNXError(a)
             \/ SetNXLost(a) \/ ReadKey(a) \/ ReadKeyError(a) \/ LookupHit(a)
             \/ LookupMiss(a) \/ LookupError(a) \/ CheckMember(a) \/ NotMember(a)
             \/ Rollback(a) \/ Release(a) \/ ReleaseError(a) \/ ReleaseLost(a)
      PROVE  UNCHANGED Abstract!vars
  <2>1. reply[a] # "ackok" /\ pc[a] \notin {"publish", "done", "dead"}
    <3>1. pc[a] \notin {"publish", "done", "dead"}
      BY <1>5 DEF Reject, Begin, Claim, Taken, SetNXError, SetNXLost, ReadKey, ReadKeyError,
         LookupHit, LookupMiss, LookupError, CheckMember, NotMember, Rollback, Release,
         ReleaseError, ReleaseLost, Accept
    <3>. QED
      BY <3>1 DEF AckInv, AckSend
  <2>2. UNCHANGED <<req, messages, topic>>
    BY <1>5 DEF Reject, Begin, Claim, Taken, SetNXError, SetNXLost, ReadKey, ReadKeyError,
       LookupHit, LookupMiss, LookupError, CheckMember, NotMember, Rollback, Release,
       ReleaseError, ReleaseLost
  <2>3. UNCHANGED reply \/ Fail(a)
    BY <1>5 DEF Reject, Begin, Claim, Taken, SetNXError, SetNXLost, ReadKey, ReadKeyError,
       LookupHit, LookupMiss, LookupError, CheckMember, NotMember, Rollback, Release,
       ReleaseError, ReleaseLost
  <2>4. UNCHANGED msg \/ msg' = [msg EXCEPT ![a] = idem[KeyOf(a)]] \/ msg' = [msg EXCEPT ![a] = a]
    BY <1>5 DEF Reject, Begin, Claim, Taken, SetNXError, SetNXLost, ReadKey, ReadKeyError,
       LookupHit, LookupMiss, LookupError, CheckMember, NotMember, Rollback, Release,
       ReleaseError, ReleaseLost
  <2>5. \A b \in Sends \ {a} : reply'[b] = reply[b]
    BY <2>3 DEF Fail
  <2>6. \A b \in Sends \ {a} : msg'[b] = msg[b]
    BY <2>4
  <2>7. reply'[a] # "ackok"
    BY <2>1, <2>3 DEF Fail
  <2>. QED
    BY <1>4, <2>1, <2>2, <2>5, <2>6, <2>7
<1>6. ASSUME NEW a \in Sends, Commit(a)
      PROVE  Abstract!Store(KeyOf(a), a)
  <2>1. pc[a] = "tx" /\ messages' = messages \cup {a} /\ UNCHANGED <<req, reply, msg, topic>>
    BY <1>6 DEF Commit, WriteRows
  <2>2. idem[KeyOf(a)] = a /\ a \notin messages
    BY <2>1 DEF ClaimInv, ClaimSend, Owning, Unstored
  <2>3. storedBar[KeyOf(a)] = {}
    BY <1>0, <2>2 DEF storedBar, ClaimInv, StoredKeepsKey
  <2>4. \A k \in Keys : a \notin storedBar[k]
    BY <2>2 DEF storedBar
  <2>5. storedBar' = [storedBar EXCEPT ![KeyOf(a)] = {a}]
    <3>1. \A k \in Keys : {m \in messages' : KeyOf(m)' = k} =
                            IF k = KeyOf(a) THEN {a} ELSE storedBar[k]
      <4>1. \A m \in messages : KeyOf(m) # KeyOf(a)
        BY <1>0, <2>3 DEF storedBar
      <4>. QED
        BY <2>1, <4>1 DEF storedBar, KeyOf
    <3>. QED
      BY <3>1 DEF storedBar
  <2>. QED
    BY <1>2, <1>3, <2>1, <2>3, <2>4, <2>5 DEF Abstract!Store
<1>7. ASSUME NEW a \in Sends, Ack(a)
      PROVE  Abstract!Ack(KeyOf(a), msg[a])
  <2>1. /\ pc[a] = "ack" /\ reply' = [reply EXCEPT ![a] = "ackok"]
        /\ UNCHANGED <<req, msg, messages, topic>>
    BY <1>7 DEF Ack
  <2>2. msg[a] \in messages /\ KeyOf(msg[a]) = KeyOf(a)
    BY <2>1 DEF AckInv, AckSend
  <2>3. msg[a] \in storedBar[KeyOf(a)]
    BY <1>0, <2>2 DEF storedBar
  <2>4. ackedBar' = ackedBar \cup {<<KeyOf(a), msg[a]>>}
    <3>1. reply'[a] = "ackok" /\ \A b \in Sends \ {a} : reply'[b] = reply[b]
      BY <2>1
    <3>2. <<KeyOf(a), msg[a]>> \in Keys \X Sends
      BY <1>0, <2>2
    <3>3. reply[a] # "ackok"
      BY <2>1 DEF AckInv, AckSend
    <3>. QED
      BY <2>1, <3>1, <3>2, <3>3 DEF ackedBar, KeyOf
  <2>. QED
    BY <1>1, <1>3, <2>1, <2>3, <2>4 DEF Abstract!Ack
<1>8. ASSUME NEW a \in Sends, AppendEvent(a)
      PROVE  Abstract!Publish(KeyOf(a), msg[a])
  <2>1. /\ a \in pending /\ topic' = Append(topic, msg[a])
        /\ UNCHANGED <<req, msg, messages, reply>>
    BY <1>8 DEF AppendEvent
  <2>2. reply[a] = "ackok" /\ msg[a] = a
    BY <2>1 DEF AckInv, AckSend
  <2>3. <<KeyOf(a), msg[a]>> \in ackedBar
    BY <1>0, <2>2 DEF ackedBar
  <2>4. publishedBar' = publishedBar \cup {msg[a]}
    <3>1. topic \in Seq(Sends) /\ msg[a] \in Sends
      BY <2>2
    <3>2. /\ DOMAIN topic = 1..Len(topic) /\ DOMAIN topic' = 1..(Len(topic) + 1)
          /\ \A i \in 1..Len(topic) : topic'[i] = topic[i]
          /\ topic'[Len(topic) + 1] = msg[a]
          /\ Len(topic) \in Nat
      BY <2>1, <3>1
    <3>3. \A m : m \in publishedBar <=> \E i \in 1..Len(topic) : m = topic[i]
      BY <3>2, Zenon DEF publishedBar
    <3>4. \A m : m \in publishedBar' <=> \E i \in 1..(Len(topic) + 1) : m = topic'[i]
      BY <3>2, Zenon DEF publishedBar
    <3>5. 1..(Len(topic) + 1) = 1..Len(topic) \cup {Len(topic) + 1}
      BY <3>2
    <3>6. \A m : m \in publishedBar' <=> m \in publishedBar \cup {msg[a]}
      <4>1. ASSUME NEW m, m \in publishedBar' PROVE m \in publishedBar \cup {msg[a]}
        <5>1. PICK i \in 1..(Len(topic) + 1) : m = topic'[i]
          BY <3>4, <4>1
        <5>2. CASE i \in 1..Len(topic)
          BY <3>2, <3>3, <5>1, <5>2
        <5>3. CASE i = Len(topic) + 1
          BY <3>2, <5>1, <5>3
        <5>. QED
          BY <3>5, <5>2, <5>3
      <4>2. ASSUME NEW m, m \in publishedBar \cup {msg[a]} PROVE m \in publishedBar'
        <5>1. CASE m = msg[a]
          BY <3>2, <3>4, <3>5, <5>1
        <5>2. CASE m \in publishedBar
          <6>1. PICK i \in 1..Len(topic) : m = topic[i]
            BY <3>3, <5>2
          <6>2. i \in 1..(Len(topic) + 1) /\ m = topic'[i]
            BY <3>2, <3>5, <6>1
          <6>. QED
            BY <3>4, <6>2
        <5>. QED
          BY <4>2, <5>1, <5>2
      <4>. QED
        BY <4>1, <4>2
    <3>. QED
      BY <3>6
  <2>. QED
    BY <1>1, <1>2, <2>1, <2>3, <2>4 DEF Abstract!Publish
<1>9. ASSUME NEW a \in Sends,
             Publish(a) \/ PublishError(a) \/ Crash(a) \/ LateSetNX(a) \/ LateDel(a)
      PROVE  UNCHANGED Abstract!vars
  BY <1>1, <1>2, <1>3, <1>9 DEF Publish, PublishError, Crash, LateSetNX, LateDel, Abstract!vars
<1>10. ASSUME NEW k \in Keys, Expire(k)
       PROVE  UNCHANGED Abstract!vars
  BY <1>1, <1>2, <1>3, <1>10 DEF Expire, Abstract!vars
<1>11. CASE UNCHANGED vars
  BY <1>1, <1>2, <1>3, <1>11 DEF vars, Abstract!vars
<1>12. ASSUME NEW a \in Sends, CommitLost(a)
       PROVE  FALSE
  BY <1>12 DEF CommitLost, Reliable
<1>13. ASSUME NEW a \in Sends, Commit(a) \/ Ack(a) \/ AppendEvent(a)
       PROVE  Abstract!Next
  <2>1. CASE Commit(a)
    BY <1>0, <1>6, <2>1 DEF Abstract!Next
  <2>2. CASE Ack(a)
    <3>1. msg[a] \in Sends
      BY <2>2 DEF Ack
    <3>. QED
      BY <1>0, <1>7, <2>2, <3>1 DEF Abstract!Next
  <2>3. CASE AppendEvent(a)
    <3>1. msg[a] \in Sends
      BY <2>3 DEF AppendEvent
    <3>. QED
      BY <1>0, <1>8, <2>3, <3>1 DEF Abstract!Next
  <2>. QED
    BY <1>13, <2>1, <2>2, <2>3
<1>. QED
  BY <1>5, <1>9, <1>10, <1>11, <1>12, <1>13 DEF Next, Step, Background, Finished

\* With a COMMIT that reports what it did, keys that outlive the retries and DELs that are
\* not executed late or again, the send path implements SendOnce: every client message is stored once, every ackok names it
\* and only acknowledged messages are published (HandleSend, dispatch).
THEOREM Implementation == ASSUME Reliable PROVE Spec => ImplementsSendOnce
<1>1. Init => Abstract!Init
  BY DEF Init, Abstract!Init, storedBar, ackedBar, publishedBar
<1>2. TypeInv /\ TypeInv' /\ AckInv /\ ClaimInv /\ [Next]_vars
        => [Abstract!Next]_(Abstract!vars)
  BY StepSimulation
<1>. QED
  BY <1>1, <1>2, ClaimInvariant, PTL DEF Spec, ImplementsSendOnce, Abstract!Spec

-----------------------------------------------------------------------------
(* The order of publication on one connection.  Nothing is assumed about the *)
(* failures.                                                                 *)

\* Sends begin in their order, one at a time on a connection; what is published has
\* begun, and is not younger than what the writer still holds for the same partition.
OrderInv ==
  /\ \A a, b \in Sends : a < b /\ pc[b] # "idle" => pc[a] # "idle" \/ Gone(a)
  /\ \A a, b \in Sends :
       a < b /\ req[a].conn = req[b].conn /\ pc[b] # "idle" => ~InFlight(a)
  /\ \A i \in DOMAIN topic : pc[topic[i]] # "idle"
  /\ \A i \in DOMAIN topic, b \in pending :
       SameConn(topic[i], b) /\ Conv(topic[i]) = Conv(b) => topic[i] <= b
  /\ \A b \in pending : pc[b] # "idle"
  /\ ConnectionOrder

\* A step that publishes nothing and begins no send.
LEMMA OrderFrame ==
  ASSUME TypeInv, OrderInv, UNCHANGED <<req, pending, topic>>,
         \A b \in Sends : /\ pc'[b] = "idle" <=> pc[b] = "idle"
                          /\ pc[b] = "dead" => pc'[b] = "dead"
                          /\ InFlight(b)' => InFlight(b)
  PROVE  OrderInv'
<1>1. /\ \A i \in DOMAIN topic : topic[i] \in Sends
      /\ pending \subseteq Sends
  BY DEF TypeInv, TypeOK
<1>2. \A a \in Sends : Gone(a) => Gone(a)'
  BY DEF Gone, SameConn
<1>. QED
  BY <1>1, <1>2 DEF OrderInv, ConnectionOrder, SameConn, Conv, KeyOf

\* A step of a running send: it stays running or ends.
LEMMA OrderMove ==
  ASSUME TypeInv, OrderInv, UNCHANGED <<req, pending, topic>>, NEW a \in Sends, InFlight(a),
         NEW l \in PCs \ {"idle"}, Goto(a, l)
  PROVE  OrderInv'
<1>1. \A b \in Sends : pc'[b] = IF b = a THEN l ELSE pc[b]
  BY DEF Goto, TypeInv, TypeOK
<1>2. \A b \in Sends : /\ pc'[b] = "idle" <=> pc[b] = "idle"
                       /\ pc[b] = "dead" => pc'[b] = "dead"
                       /\ InFlight(b)' => InFlight(b)
  BY <1>1 DEF InFlight
<1>. QED
  BY <1>2, OrderFrame

\* OrderInv is preserved by every step of every send.
LEMMA OrderInductive ==
  ASSUME TypeInv, AckInv, OrderInv, [Next]_vars
  PROVE  OrderInv'
<1> USE DEF redis, mysql, kafka
<1>1. ASSUME NEW a \in Sends, Reject(a) \/ Begin(a)
      PROVE  OrderInv'
  <2>1. Accept(a) /\ UNCHANGED <<req, pending, topic>> /\ (Goto(a, "setnx") \/ Goto(a, "done"))
    BY <1>1 DEF Reject, Begin, Fail
  <2>2. \A b \in Sends \ {a} : pc'[b] = pc[b]
    BY <2>1 DEF Goto, TypeInv, TypeOK
  <2>3. pc'[a] \in {"setnx", "done"} /\ pc[a] = "idle"
    BY <2>1 DEF Goto, TypeInv, TypeOK, Accept
  <2>4. \A i \in DOMAIN topic : topic[i] \in Sends
    BY DEF TypeInv, TypeOK
  <2>5. \A b \in Sends : a < b => pc[b] = "idle"
    BY <2>1, <2>3 DEF OrderInv, Accept
  <2>6. \A b, c \in Sends : b < c /\ pc'[c] # "idle" => pc'[b] # "idle" \/ Gone(b)'
    <3>1. \A b \in Sends : Gone(b) => Gone(b)'
      BY <2>1, <2>2, <2>3 DEF Gone, SameConn
    <3>. QED
      BY <2>1, <2>2, <2>3, <3>1 DEF OrderInv, Accept
  <2>7. ASSUME NEW b \in Sends, NEW c \in Sends,
               b < c, req[b].conn = req[c].conn, pc'[c] # "idle"
        PROVE  ~InFlight(b)'
    <3>1. CASE c = a
      BY <2>1, <2>2, <2>7, <3>1 DEF Accept, InFlight, SameConn, Sends
    <3>2. CASE c # a
      <4>1. b # a
        BY <2>2, <2>5, <2>7, <3>2
      <4>. QED
        BY <2>2, <2>7, <3>2, <4>1 DEF OrderInv, InFlight
    <3>. QED
      BY <3>1, <3>2
  <2>8. pending \subseteq Sends
    BY DEF TypeInv, TypeOK
  <2>9. /\ \A i \in DOMAIN topic : pc'[topic[i]] # "idle"
        /\ \A b \in pending : pc'[b] # "idle"
    BY <2>2, <2>3, <2>4, <2>8 DEF OrderInv
  <2>. QED
    BY <2>1, <2>4, <2>6, <2>7, <2>8, <2>9
       DEF OrderInv, ConnectionOrder, SameConn, Conv, KeyOf
<1>2. ASSUME NEW a \in Sends, Publish(a)
      PROVE  OrderInv'
  <2>1. /\ pc[a] = "publish" /\ pending' = pending \cup {a} /\ UNCHANGED <<req, topic>>
        /\ \A b \in Sends : pc'[b] = IF b = a THEN "done" ELSE pc[b]
    BY <1>2 DEF Publish, Goto, TypeInv, TypeOK
  <2>2. InFlight(a) /\ \A b \in Sends : InFlight(b)' => InFlight(b)
    BY <2>1 DEF InFlight
  <2>3. \A b \in Sends : Gone(b) => Gone(b)'
    BY <2>1 DEF Gone, SameConn
  <2>4. (\A i \in DOMAIN topic : topic[i] \in Sends) /\ pending \subseteq Sends
    BY DEF TypeInv, TypeOK
  <2>5. ASSUME NEW i \in DOMAIN topic, SameConn(topic[i], a)
        PROVE  topic[i] <= a
    <3>1. topic[i] \in Sends /\ pc[topic[i]] # "idle"
      BY <2>4 DEF OrderInv
    <3>2. ~(a < topic[i])
      BY <2>2, <2>5, <3>1 DEF OrderInv, SameConn
    <3>. QED
      BY <3>1, <3>2 DEF Sends
  <2>6. \A i \in DOMAIN topic, b \in pending' :
          SameConn(topic[i], b) /\ Conv(topic[i]) = Conv(b) => topic[i] <= b
    BY <2>1, <2>5 DEF OrderInv
  <2>. QED
    BY <2>1, <2>2, <2>3, <2>4, <2>6 DEF OrderInv, ConnectionOrder, SameConn, Conv, KeyOf
<1>7. ASSUME NEW a \in Sends, AppendEvent(a)
      PROVE  OrderInv'
  <2>1. /\ a \in pending /\ msg[a] = a /\ topic' = Append(topic, a)
        /\ pending' \subseteq pending \ Before(a)
        /\ UNCHANGED <<req, pc>>
    BY <1>7 DEF AppendEvent, AckInv, AckSend, Before
  <2>2. topic \in Seq(Sends) /\ pending \subseteq Sends
    BY DEF TypeInv, TypeOK
  <2>3. PICK last \in Nat : last = Len(topic) + 1
    BY <2>2
  <2>4. /\ DOMAIN topic' = DOMAIN topic \cup {last} /\ topic'[last] = a
        /\ \A i \in DOMAIN topic : topic'[i] = topic[i] /\ topic[i] \in Sends /\ i < last
    BY <2>1, <2>2, <2>3
  <2>5. \A i \in DOMAIN topic :
          SameConn(topic[i], a) /\ Conv(topic[i]) = Conv(a) => topic[i] <= a
    BY <2>1 DEF OrderInv
  <2>6. ConnectionOrder'
    <3> SUFFICES ASSUME NEW i \in DOMAIN topic', NEW j \in DOMAIN topic', i < j,
                        SameConn(topic'[i], topic'[j]), Conv(topic'[i]) = Conv(topic'[j])
                 PROVE  topic'[i] <= topic'[j]
      BY <2>1 DEF ConnectionOrder, SameConn, Conv, KeyOf
    <3>1. i \in DOMAIN topic
      BY <2>3, <2>4, <2>2
    <3>2. CASE j \in DOMAIN topic
      BY <2>4, <3>1, <3>2 DEF OrderInv, ConnectionOrder
    <3>3. CASE j = last
      BY <2>4, <2>5, <3>1, <3>3
    <3>. QED
      BY <2>4, <3>2, <3>3
  <2>7. ASSUME NEW i \in DOMAIN topic', NEW b \in pending',
               SameConn(topic'[i], b), Conv(topic'[i]) = Conv(b)
        PROVE  topic'[i] <= b
    <3>1. CASE i \in DOMAIN topic
      BY <2>1, <2>4, <2>7, <3>1 DEF OrderInv
    <3>2. CASE i = last
      <4>1. b \in Sends /\ b \notin Before(a) /\ b \in pending
        BY <2>1, <2>2
      <4>2. ~(b < a)
        BY <2>4, <2>7, <3>2, <4>1 DEF Before
      <4>. QED
        BY <2>4, <3>2, <4>1, <4>2 DEF Sends
    <3>. QED
      BY <2>4, <3>1, <3>2
  <2>8. /\ \A i \in DOMAIN topic' : pc[topic'[i]] # "idle"
        /\ \A b \in pending' : pc[b] # "idle"
    BY <2>1, <2>4 DEF OrderInv
  <2>9. \A b \in Sends : (Gone(b)' <=> Gone(b)) /\ (InFlight(b)' <=> InFlight(b))
    BY <2>1 DEF Gone, SameConn, InFlight
  <2>. QED
    BY <2>1, <2>6, <2>7, <2>8, <2>9 DEF OrderInv, SameConn, Conv, KeyOf
<1>3. ASSUME NEW a \in Sends,
             \/ Claim(a) \/ Taken(a) \/ SetNXError(a)
             \/ ReadKey(a) \/ ReadKeyError(a) \/ LookupHit(a) \/ LookupError(a)
             \/ CheckMember(a) \/ NotMember(a) \/ Commit(a) \/ Rollback(a)
             \/ CommitLost(a) \/ Release(a) \/ ReleaseError(a) \/ Ack(a)
             \/ PublishError(a) \/ Crash(a)
      PROVE  OrderInv'
  <2>1. InFlight(a)
    BY <1>3 DEF Claim, Taken, SetNXError, ReadKey, ReadKeyError, LookupHit,
       LookupError, CheckMember, NotMember, Commit, Rollback, CommitLost, Release,
       ReleaseError, Ack, PublishError, Crash, InFlight
  <2>2. UNCHANGED <<req, pending, topic>>
    BY <1>3 DEF Claim, Taken, SetNXError, ReadKey, ReadKeyError, LookupHit,
       LookupError, CheckMember, NotMember, Commit, Rollback, CommitLost, Release,
       ReleaseError, Ack, PublishError, Crash
  <2>3. \E l \in PCs \ {"idle"} : Goto(a, l)
    <3>1. \/ Goto(a, "member") \/ Goto(a, "get") \/ Goto(a, "done") \/ Goto(a, "wait")
          \/ Goto(a, "ack") \/ Goto(a, "tx") \/ Goto(a, "del") \/ Goto(a, "dead")
          \/ Goto(a, IF msg[a] = a THEN "publish" ELSE "done")
      BY <1>3 DEF Claim, Taken, SetNXError, ReadKey, ReadKeyError, LookupHit,
         LookupError, CheckMember, NotMember, Commit, Rollback, CommitLost, Release,
         ReleaseError, Ack, PublishError, Crash, Fail
    <3>. QED
      BY <3>1 DEF PCs
  <2>. QED
    BY <2>1, <2>2, <2>3, OrderMove
<1>4. ASSUME NEW a \in Sends, LookupMiss(a) \/ SetNXLost(a) \/ ReleaseLost(a)
      PROVE  OrderInv'
  <2>1. /\ InFlight(a) /\ UNCHANGED <<req, pending, topic>>
        /\ Goto(a, "done") \/ UNCHANGED pc
    BY <1>4 DEF LookupMiss, SetNXLost, ReleaseLost, InFlight, Fail
  <2>2. CASE Goto(a, "done")
    BY <2>1, <2>2, OrderMove DEF PCs
  <2>3. CASE UNCHANGED pc
    BY <2>1, <2>3, OrderFrame DEF InFlight
  <2>. QED
    BY <2>1, <2>2, <2>3
<1>5. ASSUME NEW k \in Keys, Expire(k)
      PROVE  OrderInv'
  BY <1>5, OrderFrame DEF Expire, InFlight
<1>8. ASSUME NEW a \in Sends, LateSetNX(a) \/ LateDel(a)
      PROVE  OrderInv'
  BY <1>8, OrderFrame DEF LateSetNX, LateDel, InFlight
<1>6. CASE UNCHANGED vars
  BY <1>6, OrderFrame DEF vars, InFlight
<1>. QED
  BY <1>1, <1>2, <1>3, <1>4, <1>5, <1>6, <1>7, <1>8 DEF Next, Step, Background, Finished

\* The messages of one connection to one conversation reach the topic in the order the
\* connection sent them, whatever fails and however long the writer holds an event that
\* dispatch no longer waits for (readPump runs one dispatch at a time, and the writer
\* sends the batches of a partition one after the other).
THEOREM PublicationOrder == Spec => []ConnectionOrder
<1>1. Init => OrderInv
  BY DEF Init, OrderInv, ConnectionOrder, InFlight
<1>2. TypeInv /\ AckInv /\ OrderInv /\ [Next]_vars => OrderInv'
  BY OrderInductive
<1>3. OrderInv => ConnectionOrder
  BY DEF OrderInv
<1>. QED
  BY <1>1, <1>2, <1>3, AckInvariant, PTL DEF Spec

-----------------------------------------------------------------------------
(* What is published.  Nothing is assumed about the failures. *)

\* What is in the topic is stored and acknowledged, and an event that is about to be
\* handed to the writer, or that the writer holds, may be written once more.
PublishInv ==
  /\ \A i \in DOMAIN topic : topic[i] \in messages /\ reply[topic[i]] = "ackok"
  /\ \A m \in Sends : Copies(m) <= MaxWrites /\ (pc[m] = "publish" \/ m \in pending => Copies(m) < MaxWrites)

\* How many copies of an event there are, and that writing one more adds one.
LEMMA CopiesAdded ==
  ASSUME TypeInv, NEW m \in Sends
  PROVE  /\ Copies(m) \in Nat
         /\ (\A i \in DOMAIN topic : topic[i] # m) => Copies(m) = 0
         /\ \A b \in Sends : topic' = Append(topic, b) =>
              Copies(m)' = IF b = m THEN Copies(m) + 1 ELSE Copies(m)
<1> DEFINE Places == {i \in DOMAIN topic : topic[i] = m}
<1>1. /\ topic \in Seq(Sends) /\ Len(topic) \in Nat /\ DOMAIN topic = 1..Len(topic)
  BY DEF TypeInv, TypeOK
<1>2. IsFiniteSet(Places) /\ Cardinality(Places) \in Nat
  <2>1. IsFiniteSet(1..Len(topic)) /\ Places \in SUBSET (1..Len(topic))
    BY <1>1, FS_Interval
  <2>. QED
    BY <2>1, FS_Subset, FS_CardinalityType
<1>3. (\A i \in DOMAIN topic : topic[i] # m) => Copies(m) = 0
  BY FS_EmptySet DEF Copies
<1>4. ASSUME NEW b \in Sends, topic' = Append(topic, b)
      PROVE  Copies(m)' = IF b = m THEN Copies(m) + 1 ELSE Copies(m)
  <2>1. PICK last \in Nat : last = Len(topic) + 1
    BY <1>1
  <2>2. /\ DOMAIN topic' = DOMAIN topic \cup {last} /\ topic'[last] = b /\ last \notin DOMAIN topic
        /\ \A i \in DOMAIN topic : topic'[i] = topic[i]
    BY <1>1, <1>4, <2>1
  <2>3. CASE b = m
    <3>1. {i \in DOMAIN topic' : topic'[i] = m} = Places \cup {last} /\ last \notin Places
      BY <2>2, <2>3
    <3>. QED
      BY <1>2, <2>3, <3>1, FS_AddElement DEF Copies
  <2>4. CASE b # m
    <3>1. {i \in DOMAIN topic' : topic'[i] = m} = Places
      BY <2>2, <2>4
    <3>. QED
      BY <2>4, <3>1 DEF Copies
  <2>. QED
    BY <2>3, <2>4
<1>. QED
  BY <1>2, <1>3, <1>4 DEF Copies

\* PublishInv is preserved by every step of every send.
LEMMA PublishInductive ==
  ASSUME TypeInv, AckInv, PublishInv, [Next]_vars
  PROVE  PublishInv'
<1>0. /\ \A i \in DOMAIN topic : topic[i] \in Sends
      /\ \A m \in Sends : Copies(m) \in Nat
  BY CopiesAdded DEF TypeInv, TypeOK
<1> USE DEF redis, mysql, kafka
<1>1. ASSUME NEW a \in Sends, AppendEvent(a) PROVE PublishInv'
  <2>1. /\ a \in pending /\ topic' = Append(topic, a) /\ UNCHANGED <<messages, reply, pc>>
        /\ pending' \subseteq pending
        /\ a \in pending' => Copies(a) + 1 < MaxWrites
    BY <1>1 DEF AppendEvent, AckInv, AckSend
  <2>2. a \in messages /\ reply[a] = "ackok"
    BY <2>1 DEF AckInv, AckSend
  <2>3. ASSUME NEW i \in DOMAIN topic' PROVE topic'[i] \in messages /\ reply[topic'[i]] = "ackok"
    <3>1. topic'[i] = a \/ (i \in DOMAIN topic /\ topic'[i] = topic[i])
      BY <2>1 DEF TypeInv, TypeOK
    <3>. QED
      BY <2>2, <3>1 DEF PublishInv
  <2>4. ASSUME NEW m \in Sends
        PROVE  /\ Copies(m)' <= MaxWrites
               /\ pc'[m] = "publish" \/ m \in pending' => Copies(m)' < MaxWrites
    <3>1. Copies(m)' = IF a = m THEN Copies(m) + 1 ELSE Copies(m)
      BY <2>1, CopiesAdded
    <3>2. CASE a = m
      <4>1. Copies(m) < MaxWrites
        BY <2>1, <3>2 DEF PublishInv
      <4>2. pc'[m] # "publish"
        BY <2>1, <3>2 DEF AckInv, AckSend, PublishInv
      <4>. QED
        BY <1>0, <2>1, <3>1, <3>2, <4>1, <4>2, ConstantsAssumption
    <3>3. CASE a # m
      <4>1. pc'[m] = pc[m] /\ (m \in pending' => m \in pending)
        BY <2>1
      <4>. QED
        BY <3>1, <3>3, <4>1 DEF PublishInv
    <3>. QED
      BY <3>2, <3>3
  <2>. QED
    BY <2>1, <2>3, <2>4 DEF PublishInv
<1>2. ASSUME topic' = topic, messages \subseteq messages',
             \A m \in Sends : /\ reply[m] = "ackok" => reply'[m] = "ackok"
                              /\ pc'[m] = "publish" => pc[m] \in {"ack", "publish"}
                              /\ m \in pending' => pc[m] = "publish" \/ m \in pending
      PROVE  PublishInv'
  <2>1. ASSUME NEW m \in Sends, pc'[m] = "publish" \/ m \in pending' PROVE Copies(m) < MaxWrites
    <3>1. CASE pc[m] = "publish" \/ m \in pending
      BY <3>1 DEF PublishInv
    <3>2. CASE pc[m] = "ack"
      <4>1. \A i \in DOMAIN topic : topic[i] # m
        BY <1>0, <3>2 DEF PublishInv, AckInv, AckSend
      <4>. QED
        BY <4>1, CopiesAdded, ConstantsAssumption
    <3>. QED
      BY <1>2, <2>1, <3>1, <3>2
  <2>2. \A m \in Sends : Copies(m)' = Copies(m)
    BY <1>2 DEF Copies
  <2>. QED
    BY <1>0, <1>2, <2>1, <2>2 DEF PublishInv
<1>3. ASSUME NEW a \in Sends,
             \/ Reject(a) \/ Begin(a) \/ Claim(a) \/ Taken(a) \/ SetNXError(a) \/ SetNXLost(a)
      PROVE  PublishInv'
  <2>1. pc[a] \in {"idle", "setnx"} /\ UNCHANGED kafka /\ messages' = messages
    BY <1>3 DEF Reject, Begin, Claim, Taken, SetNXError, SetNXLost, Accept
  <2>2. reply[a] # "ackok"
    BY <2>1 DEF AckInv, AckSend
  <2>3. \A m \in Sends : /\ reply[m] = "ackok" => reply'[m] = "ackok"
                         /\ pc'[m] = "publish" => pc[m] = "publish"
    BY <1>3, <2>2 DEF Reject, Begin, Claim, Taken, SetNXError, SetNXLost, Goto, Fail, TypeInv, TypeOK
  <2>. QED
    BY <1>2, <2>1, <2>3
<1>4. ASSUME NEW a \in Sends,
             \/ ReadKey(a) \/ ReadKeyError(a) \/ LookupHit(a) \/ LookupMiss(a) \/ LookupError(a)
             \/ CheckMember(a) \/ NotMember(a)
      PROVE  PublishInv'
  <2>1. pc[a] \in {"get", "wait", "member"} /\ UNCHANGED kafka /\ messages' = messages
    BY <1>4 DEF ReadKey, ReadKeyError, LookupHit, LookupMiss, LookupError, CheckMember, NotMember
  <2>2. reply[a] # "ackok"
    BY <2>1 DEF AckInv, AckSend
  <2>3. \A m \in Sends : /\ reply[m] = "ackok" => reply'[m] = "ackok"
                         /\ pc'[m] = "publish" => pc[m] = "publish"
    BY <1>4, <2>2 DEF ReadKey, ReadKeyError, LookupHit, LookupMiss, LookupError, CheckMember,
                      NotMember, Goto, Fail, TypeInv, TypeOK
  <2>. QED
    BY <1>2, <2>1, <2>3
<1>5. ASSUME NEW a \in Sends,
             \/ Commit(a) \/ Rollback(a) \/ CommitLost(a) \/ Release(a) \/ ReleaseError(a)
             \/ ReleaseLost(a)
      PROVE  PublishInv'
  <2>1. pc[a] \in {"tx", "del"} /\ UNCHANGED kafka /\ messages \subseteq messages'
    BY <1>5 DEF Commit, Rollback, CommitLost, Release, ReleaseError, ReleaseLost, WriteRows
  <2>2. reply[a] # "ackok"
    BY <2>1 DEF AckInv, AckSend
  <2>3. \A m \in Sends : /\ reply[m] = "ackok" => reply'[m] = "ackok"
                         /\ pc'[m] = "publish" => pc[m] = "publish"
    BY <1>5, <2>2 DEF Commit, Rollback, CommitLost, Release, ReleaseError, ReleaseLost, Goto, Fail, TypeInv, TypeOK
  <2>. QED
    BY <1>2, <2>1, <2>3
<1>6. ASSUME NEW a \in Sends, Ack(a) PROVE PublishInv'
  BY <1>2, <1>6 DEF Ack, Goto, TypeInv, TypeOK
<1>7. ASSUME NEW a \in Sends, Publish(a) \/ PublishError(a) \/ Crash(a) PROVE PublishInv'
  BY <1>2, <1>7 DEF Publish, PublishError, Crash, Goto, TypeInv, TypeOK
<1>10. ASSUME NEW a \in Sends, LateSetNX(a) \/ LateDel(a) PROVE PublishInv'
  BY <1>2, <1>10 DEF LateSetNX, LateDel
<1>8. ASSUME NEW k \in Keys, Expire(k) PROVE PublishInv'
  BY <1>2, <1>8 DEF Expire
<1>9. CASE UNCHANGED vars
  BY <1>2, <1>9 DEF vars
<1>. QED
  BY <1>1, <1>3, <1>4, <1>5, <1>6, <1>7, <1>8, <1>9, <1>10 DEF Next, Step, Background, Finished

\* Only stored and acknowledged messages are published, none more often than the writer
\* repeats the event of one send, however often it is retried and whatever fails.
THEOREM PublicationOnce == Spec => []PublishedOnce
<1>1. Init => PublishInv
  <2> SUFFICES ASSUME Init PROVE PublishInv
    OBVIOUS
  <2>1. DOMAIN topic = {} /\ \A m \in Sends : pc[m] # "publish"
    BY DEF Init
  <2>2. \A m \in Sends : Copies(m) = 0
    BY <2>1, FS_EmptySet DEF Copies
  <2>. QED
    BY <2>1, <2>2, ConstantsAssumption DEF PublishInv
<1>2. TypeInv /\ AckInv /\ PublishInv /\ [Next]_vars => PublishInv'
  BY PublishInductive
<1>3. TypeInv /\ PublishInv => PublishedOnce
  BY DEF TypeInv, TypeOK, PublishInv, PublishedOnce
<1>. QED
  BY <1>1, <1>2, <1>3, AckInvariant, PTL DEF Spec

-----------------------------------------------------------------------------
(* The rows.  Nothing is assumed about the failures. *)

\* The messages of a conversation, and those of them that u did not send.
Mine(c) == {m \in messages : Conv(m) = c}
Foreign(c, u) == {m \in Mine(c) : SenderOf[KeyOf(m)] # u}

\* No message is stored before the COMMIT of its send.
NotStored(a) ==
  pc[a] \in {"idle", "setnx", "get", "wait", "member", "tx"} => a \notin messages

\* The rows of a conversation agree with its messages.
RowsAt(c) ==
  /\ IF lastMsg[c].id = None
     THEN \A m \in Mine(c) : at[m] < lastMsg[c].at
     ELSE lastMsg[c].id \in Mine(c) /\ at[lastMsg[c].id] = lastMsg[c].at
  /\ \A m \in Mine(c) : at[m] <= lastMsg[c].at
  /\ \A u \in StatesOf[c] : unread[c][u] = Cardinality(Foreign(c, u))

RowsInv ==
  /\ \A a \in Sends : NotStored(a)
  /\ \A c \in Convs : RowsAt(c)

\* A step that writes no rows.
LEMMA RowsFrame ==
  ASSUME TypeInv, RowsInv, UNCHANGED <<req, messages, lastMsg, unread>>,
         \A m \in messages : at'[m] = at[m],
         \A a \in Sends : NotStored(a)'
  PROVE  RowsInv'
<1>1. ASSUME NEW c \in Convs PROVE RowsAt(c)'
  <2>1. Mine(c)' = Mine(c) /\ (\A u \in StatesOf[c] : Foreign(c, u)' = Foreign(c, u))
    BY DEF Mine, Foreign, Conv, KeyOf
  <2>2. \A m \in Mine(c) : at'[m] = at[m]
    BY DEF Mine
  <2>. QED
    BY <2>1, <2>2 DEF RowsInv, RowsAt
<1>. QED
  BY <1>1 DEF RowsInv

\* The transaction writes them.
LEMMA RowsWritten ==
  ASSUME TypeInv, RowsInv, NEW a \in Sends, pc[a] = "tx", WriteRows(a), UNCHANGED <<req, at>>,
         NEW c \in Convs
  PROVE  RowsAt(c)'
<1> USE DEF TypeInv, TypeOK
<1>1. a \notin messages /\ messages' = messages \cup {a} /\ RowsAt(c)
  BY DEF RowsInv, NotStored, WriteRows
<1>2. /\ \A m \in messages' : at[m] \in Nat /\ m \in Sends
      /\ lastMsg[c].at \in Nat
  <2>1. \A t \in Times \cup {0} : t \in Nat
    BY ConstantsAssumption
  <2>2. \A m \in Sends : at[m] \in Times \cup {0}
    OBVIOUS
  <2>3. lastMsg[c].at \in Times \cup {0}
    OBVIOUS
  <2>4. messages' \subseteq Sends
    BY <1>1
  <2>. QED
    BY <2>1, <2>2, <2>3, <2>4
<1>4. CASE Conv(a) # c
  <2>1. Mine(c)' = Mine(c) /\ \A u \in StatesOf[c] : Foreign(c, u)' = Foreign(c, u)
    BY <1>1, <1>4 DEF Mine, Foreign, Conv, KeyOf
  <2>2. lastMsg'[c] = lastMsg[c] /\ unread'[c] = unread[c]
    BY <1>4 DEF WriteRows
  <2>. QED
    BY <1>1, <2>1, <2>2 DEF RowsAt
<1>5. CASE Conv(a) = c
  <2>1. Mine(c)' = Mine(c) \cup {a} /\ a \notin Mine(c)
    BY <1>1, <1>5 DEF Mine, Conv, KeyOf
  <2>2. lastMsg'[c] = IF lastMsg[c].at <= at[a] THEN [id |-> a, at |-> at[a]] ELSE lastMsg[c]
    BY <1>5 DEF WriteRows
  <2>3. \A m \in Mine(c) : at[m] \in Nat
    BY <1>2, <1>1 DEF Mine
  <2>4. /\ \A m \in Mine(c) \cup {a} : at[m] <= lastMsg'[c].at
        /\ IF lastMsg'[c].id = None
           THEN \A m \in Mine(c) \cup {a} : at[m] < lastMsg'[c].at
           ELSE lastMsg'[c].id \in Mine(c) \cup {a} /\ at[lastMsg'[c].id] = lastMsg'[c].at
    <3>1. CASE lastMsg[c].at <= at[a]
      <4>1. lastMsg'[c].id = a /\ lastMsg'[c].at = at[a] /\ a # None
        BY <2>2, <3>1 DEF Sends, None
      <4>. QED
        <5>1. /\ \A m \in Mine(c) : at[m] <= lastMsg[c].at /\ at[m] \in Nat
              /\ lastMsg[c].at \in Nat /\ at[a] \in Nat
          BY <1>1, <1>2, <2>3 DEF RowsAt
        <5>2. \A m \in Mine(c) \cup {a} : at[m] <= at[a]
          BY <3>1, <5>1
        <5>. QED
          BY <4>1, <5>2
    <3>2. CASE ~(lastMsg[c].at <= at[a])
      <4>1. lastMsg'[c] = lastMsg[c] /\ at[a] < lastMsg[c].at
        BY <1>1, <1>2, <2>2, <3>2
      <4>2. at[a] <= lastMsg[c].at
        BY <1>1, <1>2, <4>1
      <4>. QED
        BY <1>1, <4>1, <4>2 DEF RowsAt
    <3>. QED
      BY <3>1, <3>2
  <2>5. ASSUME NEW u \in StatesOf[c] PROVE unread'[c][u] = Cardinality(Foreign(c, u)')
    <3>1. u \in Users /\ unread'[c][u] = IF u # SenderOf[KeyOf(a)] THEN unread[c][u] + 1
                                                                   ELSE unread[c][u]
      BY <1>5, ConstantsAssumption DEF WriteRows
    <3>2. IsFiniteSet(Foreign(c, u))
      <4>1. IsFiniteSet(Sends)
        <5>1. MaxSends \in Int
          BY ConstantsAssumption
        <5>. QED
          BY <5>1, FS_Interval DEF Sends
      <4>2. Foreign(c, u) \in SUBSET Sends
        BY DEF Foreign, Mine
      <4>. QED
        BY <4>1, <4>2, FS_Subset
    <3>3. Foreign(c, u)' = IF u # SenderOf[KeyOf(a)] THEN Foreign(c, u) \cup {a} ELSE Foreign(c, u)
      BY <2>1 DEF Foreign, KeyOf
    <3>4. a \notin Foreign(c, u) /\ unread[c][u] = Cardinality(Foreign(c, u))
      BY <1>1, <2>1 DEF Foreign, RowsAt
    <3>5. Cardinality(Foreign(c, u) \cup {a}) = Cardinality(Foreign(c, u)) + 1
      BY <3>2, <3>4, FS_AddElement
    <3>. QED
      BY <3>1, <3>3, <3>4, <3>5
  <2>. QED
    BY <2>1, <2>4, <2>5 DEF RowsAt
<1>. QED
  BY <1>4, <1>5

\* RowsInv is preserved by every step of every send.
LEMMA RowsInductive ==
  ASSUME TypeInv, RowsInv, [Next]_vars
  PROVE  RowsInv'
<1> USE DEF redis, mysql, kafka, TypeInv, TypeOK
<1>0. \A a \in Sends : NotStored(a)
  BY DEF RowsInv
<1>1. ASSUME NEW a \in Sends, Commit(a) \/ CommitLost(a) PROVE RowsInv'
  <2>1. /\ pc[a] = "tx" /\ WriteRows(a) /\ UNCHANGED <<req, at>> /\ messages' = messages \cup {a}
        /\ pc'[a] \notin {"idle", "setnx", "get", "wait", "member", "tx"}
        /\ \A b \in Sends \ {a} : pc'[b] = pc[b]
    BY <1>1 DEF Commit, CommitLost, WriteRows, Goto
  <2>2. \A b \in Sends : NotStored(b)'
    BY <1>0, <2>1 DEF NotStored
  <2>. QED
    BY <2>1, <2>2, RowsWritten DEF RowsInv
<1>2. ASSUME UNCHANGED <<req, messages, lastMsg, unread>>,
             \A m \in messages : at'[m] = at[m],
             \A a \in Sends : pc'[a] \in {"idle", "setnx", "get", "wait", "member", "tx"} =>
                              pc[a] \in {"idle", "setnx", "get", "wait", "member", "tx"}
      PROVE  RowsInv'
  BY <1>0, <1>2, RowsFrame DEF NotStored
<1>3. ASSUME NEW a \in Sends,
             \/ Reject(a) \/ Begin(a) \/ Claim(a) \/ Taken(a) \/ SetNXError(a) \/ SetNXLost(a)
      PROVE  RowsInv'
  BY <1>2, <1>3 DEF Reject, Begin, Claim, Taken, SetNXError, SetNXLost, Accept, Goto, Fail
<1>4. ASSUME NEW a \in Sends,
             ReadKey(a) \/ ReadKeyError(a) \/ LookupHit(a) \/ LookupMiss(a) \/ LookupError(a)
      PROVE  RowsInv'
  BY <1>2, <1>4 DEF ReadKey, ReadKeyError, LookupHit, LookupMiss, LookupError, Goto, Fail
<1>5. ASSUME NEW a \in Sends, CheckMember(a) PROVE RowsInv'
  <2>1. /\ pc[a] = "member" /\ Goto(a, "tx") /\ \A m \in Sends \ {a} : at'[m] = at[m]
        /\ UNCHANGED <<req, messages, lastMsg, unread>>
    BY <1>5 DEF CheckMember
  <2>2. a \notin messages
    BY <1>0, <2>1 DEF NotStored
  <2>. QED
    BY <1>2, <2>1, <2>2 DEF Goto
<1>6. ASSUME NEW a \in Sends,
             \/ NotMember(a) \/ Rollback(a) \/ Release(a) \/ ReleaseError(a) \/ ReleaseLost(a)
             \/ Ack(a) \/ PublishError(a) \/ Crash(a)
      PROVE  RowsInv'
  BY <1>2, <1>6 DEF NotMember, Rollback, Release, ReleaseError, ReleaseLost, Ack, PublishError, Crash, Goto, Fail
<1>7. ASSUME NEW a \in Sends, Publish(a) PROVE RowsInv'
  BY <1>2, <1>7 DEF Publish, Goto
<1>10. ASSUME NEW a \in Sends, LateSetNX(a) \/ LateDel(a) \/ AppendEvent(a) PROVE RowsInv'
  BY <1>2, <1>10 DEF LateSetNX, LateDel, AppendEvent
<1>8. ASSUME NEW k \in Keys, Expire(k) PROVE RowsInv'
  BY <1>2, <1>8 DEF Expire
<1>9. CASE UNCHANGED vars
  BY <1>2, <1>9 DEF vars
<1>. QED
  BY <1>1, <1>3, <1>4, <1>5, <1>6, <1>7, <1>8, <1>9, <1>10 DEF Next, Step, Background, Finished

\* last_msg_id, last_msg_at and the unread counts agree with the messages, whatever the
\* order in which transactions commit, whatever the servers' clocks say, also the one that
\* stamped the conversation's creation, and whatever fails.
THEOREM RowsAgree == Spec => []RowsMatchMessages
<1>1. Init => RowsInv
  <2> SUFFICES ASSUME Init PROVE RowsInv
    OBVIOUS
  <2>1. \A c \in Convs : Mine(c) = {} /\ \A u \in StatesOf[c] : Foreign(c, u) = {}
    BY DEF Init, Mine, Foreign
  <2>2. \A c \in Convs : lastMsg[c].id = None /\ \A u \in StatesOf[c] : unread[c][u] = 0
    BY ConstantsAssumption DEF Init
  <2>3. \A a \in Sends : NotStored(a)
    BY DEF Init, NotStored
  <2>. QED
    BY <2>1, <2>2, <2>3, FS_EmptySet DEF RowsInv, RowsAt
<1>2. TypeInv /\ RowsInv /\ [Next]_vars => RowsInv'
  BY RowsInductive
<1>3. RowsInv => RowsMatchMessages
  BY DEF RowsInv, RowsAt, Mine, Foreign, RowsMatchMessages
<1>. QED
  BY <1>1, <1>2, <1>3, TypeInvariant, PTL DEF Spec

=============================================================================
