------------------------------ MODULE Friends -------------------------------
(***************************************************************************)
(* Friend applications and single chats (C2C): service/friend/addfriend.go *)
(* and dao.GetOrCreateC2CTx, which AcceptApply calls inside its            *)
(* transaction and POST /conversations/c2c outside of one.  A request is   *)
(* one HTTP call; requests interleave at every statement.  An application  *)
(* and a conversation bear the number of the request that inserts them.    *)
(*                                                                         *)
(* MySQL: REPEATABLE READ.  An UPDATE or INSERT sees the newest committed  *)
(* rows and keeps its lock until the transaction ends; a plain SELECT in a *)
(* transaction reads the snapshot of that transaction's first one.  What a *)
(* transaction writes is visible at COMMIT.                                *)
(***************************************************************************)
EXTENDS Naturals, FiniteSets

CONSTANTS
  Users,     \* uids
  Existing,  \* those with a row in users
  Blocked,   \* pairs with a row in blocks: no code of the server writes one
  MaxReqs,   \* bound: requests in a behaviour
  Plans,     \* what they may ask: functions from them to RequestType
  Faults     \* a subset of FaultKinds

FaultKinds == {"rollback",    \* a statement fails or the process dies
               "commitLost"}  \* COMMIT takes effect but reports an error

Reqs == 1..MaxReqs
None == 0

\* by asks about the user peer (apply, open) or about the application id.
Ops == {"apply", "accept", "reject", "open"}
RequestType == [op : Ops, by : Users, peer : Users, id : Reqs]

\* makePeerKey and NormalizeFriendPair: the pair without its direction.
Pairs == {{u, v} : u, v \in Users}

ASSUME ConstantsAssumption ==
  /\ Existing \subseteq Users
  /\ Blocked \subseteq Pairs
  /\ MaxReqs \in Nat
  /\ Plans \subseteq [Reqs -> RequestType]
  /\ Faults \subseteq FaultKinds

VARIABLES
  pc,       \* where each request is
  arg,      \* what it asks
  code,     \* its HTTP status, None before
  got,      \* the conversation it returns or works with, or None
  status,   \* MySQL: friend_apply.status by the request that inserted it
  friends,  \* MySQL: the pairs with a normal row in friendships
  convs,    \* MySQL: the C2C conversations
  states,   \* MySQL: who has a conversation_state row of each conversation
  locks     \* MySQL: <<what is locked, transaction>>

mysql == <<status, friends, convs, states>>
vars == <<pc, arg, code, got, mysql, locks>>

PCs == {"idle", "friend?", "pending?", "insert", "load", "update", "upsert", "select",
        "create", "again", "commit", "done"}

By(r) == arg[r].by
Id(r) == arg[r].id
\* The users an application is between.
Own(r) == {By(r), arg[r].peer}
\* The pair a request, and the conversation it creates, is about.
Pair(r) == IF arg[r].op \in {"accept", "reject"} THEN Own(Id(r)) ELSE Own(r)

Goto(r, l) == pc' = [pc EXCEPT ![r] = l] /\ UNCHANGED code

\* Mutant: the transaction is left open.
MutUnlockNone(r) == r \in Reqs /\ UNCHANGED locks

\* The transaction ends: its locks are released.
Unlock(r) == locks' = {l \in locks : l[2] # r}

\* The handler answers; failFriendError chooses the status of an error.
Answer(r, c) ==
  /\ pc' = [pc EXCEPT ![r] = "done"]
  /\ code' = [code EXCEPT ![r] = c]
  /\ Unlock(r)

\* Its writes are committed, at the COMMIT of a transaction of its own or of the one gorm
\* wraps a single write in; the reply may be lost.
Committed(r) == Answer(r, 200) \/ ("commitLost" \in Faults /\ Answer(r, 500))

\* IsBlockedLook: in either direction.
IsBlockedLook(p) == p \in Blocked

FreeFor(r, x) == \A l \in locks : l[1] = x => l[2] = r
Take(r, x) == FreeFor(r, x) /\ locks' = locks \cup {<<x, r>>}

Init ==
  /\ pc = [r \in Reqs |-> "idle"]
  /\ arg \in Plans
  /\ code = [r \in Reqs |-> None]
  /\ got = [r \in Reqs |-> None]
  /\ status = [r \in Reqs |-> "none"]
  /\ friends = {}
  /\ convs = {}
  /\ states = [r \in Reqs |-> {}]
  /\ locks = {}

-----------------------------------------------------------------------------
(* What the lists show *)

\* conversationStatesToList: a user's rows whose conversation exists.
ConversationList(u) == {c \in convs : u \in states[c]}

\* ListFriends: the other side of each normal friendship.
ListFriends(u) == {v \in Users : v # u /\ {u, v} \in friends}

\* GetPendingFriendApplyBetween: either direction.
PendingBetween(p) == {a \in Reqs : status[a] = "pending" /\ Own(a) = p}

\* WHERE peer_key = ?
ByPeerKey(p) == {c \in convs : Pair(c) = p}

-----------------------------------------------------------------------------
(* Applying *)

\* The first checks read what never changes: the users, and blocks.
Begin(r) ==
  /\ pc[r] = "idle"
  /\ IF arg[r].op \in {"accept", "reject"} THEN Goto(r, "load") /\ UNCHANGED locks
     ELSE IF By(r) = arg[r].peer THEN Answer(r, 400)
     ELSE IF arg[r].op = "open" THEN Goto(r, "select") /\ UNCHANGED locks
     ELSE IF arg[r].peer \notin Existing THEN Answer(r, 404)
     ELSE IF IsBlockedLook(Own(r)) THEN Answer(r, 403)
     ELSE Goto(r, "friend?") /\ UNCHANGED locks
  /\ UNCHANGED <<arg, got, mysql>>

CheckFriend(r) ==
  /\ pc[r] = "friend?"
  /\ IF Own(r) \in friends THEN Answer(r, 409) ELSE Goto(r, "pending?") /\ UNCHANGED locks
  /\ UNCHANGED <<arg, got, mysql>>

CheckPending(r) ==
  /\ pc[r] = "pending?"
  /\ IF PendingBetween(Own(r)) # {} THEN Answer(r, 409) ELSE Goto(r, "insert") /\ UNCHANGED locks
  /\ UNCHANGED <<arg, got, mysql>>

InsertApply(r) ==
  /\ pc[r] = "insert"
  /\ status' = [status EXCEPT ![r] = "pending"]
  /\ Committed(r)
  /\ UNCHANGED <<arg, got, friends, convs, states>>

-----------------------------------------------------------------------------
(* Accepting and rejecting *)

\* The checks before the transaction.
Load(r) ==
  /\ pc[r] = "load"
  /\ IF status[Id(r)] = "none" THEN Answer(r, 404)
     ELSE IF status[Id(r)] # "pending" THEN Answer(r, 409)
     ELSE IF \/ arg[Id(r)].peer # By(r)
             \/ arg[r].op = "accept" /\ IsBlockedLook(Pair(r)) THEN Answer(r, 403)
     ELSE Goto(r, "update") /\ UNCHANGED locks
  /\ UNCHANGED <<arg, got, mysql>>

\* Mutant: the UPDATE does not ask for the pending status again.
MutRejectAny(r) ==
  /\ pc[r] = "update" /\ arg[r].op = "reject"
  /\ FreeFor(r, <<"apply", Id(r)>>)
  /\ status' = [status EXCEPT ![Id(r)] = "rejected"]
  /\ Answer(r, 200)
  /\ UNCHANGED <<arg, got, friends, convs, states>>

\* UPDATE ... WHERE status = pending, on its own.
Reject(r) ==
  /\ pc[r] = "update" /\ arg[r].op = "reject"
  /\ FreeFor(r, <<"apply", Id(r)>>)
  /\ IF status[Id(r)] = "pending"
     THEN status' = [status EXCEPT ![Id(r)] = "rejected"] /\ Committed(r)
     ELSE Answer(r, 409) /\ UNCHANGED status
  /\ UNCHANGED <<arg, got, friends, convs, states>>

\* Mutant: the UPDATE runs outside the transaction (tx not passed on).
MutUpdateNoTx(r) ==
  /\ pc[r] = "update" /\ arg[r].op = "accept"
  /\ FreeFor(r, <<"apply", Id(r)>>)
  /\ IF status[Id(r)] = "pending"
     THEN /\ status' = [status EXCEPT ![Id(r)] = "accepted"]
          /\ Goto(r, "upsert") /\ UNCHANGED locks
     ELSE Answer(r, 409) /\ UNCHANGED status
  /\ UNCHANGED <<arg, got, friends, convs, states>>

\* The same UPDATE as the first statement of AcceptApply's transaction.
Update(r) ==
  /\ pc[r] = "update" /\ arg[r].op = "accept"
  /\ IF status[Id(r)] = "pending"
     THEN Take(r, <<"apply", Id(r)>>) /\ Goto(r, "upsert")
     ELSE Answer(r, 409)
  /\ UNCHANGED <<arg, got, mysql>>

\* CreateFriendshipTx: INSERT ... ON DUPLICATE KEY UPDATE.
Upsert(r) ==
  /\ pc[r] = "upsert"
  /\ Take(r, <<"friend", Pair(r)>>)
  /\ Goto(r, "select")
  /\ UNCHANGED <<arg, got, mysql>>

-----------------------------------------------------------------------------
(* GetOrCreateC2CTx *)

\* The fast path: both rows are made sure of, by AcceptApply at its COMMIT.
Select(r) ==
  /\ pc[r] = "select"
  /\ LET c == ByPeerKey(Pair(r)) IN
     IF c = {} THEN Goto(r, "create") /\ UNCHANGED <<got, states, locks>>
     ELSE \E x \in c :
       /\ got' = [got EXCEPT ![r] = x]
       /\ IF arg[r].op = "accept"
          THEN Goto(r, "commit") /\ UNCHANGED <<states, locks>>
          ELSE Committed(r) /\ states' = [states EXCEPT ![x] = states[x] \cup Pair(r)]
  /\ UNCHANGED <<arg, status, friends, convs>>

\* Mutant: peer_key has no unique index.
MutCreateNoIndex(r) ==
  /\ pc[r] = "create"
  /\ got' = [got EXCEPT ![r] = r]
  /\ Goto(r, "commit") /\ UNCHANGED locks
  /\ UNCHANGED <<arg, mysql>>

\* INSERT of the conversation: it waits for a transaction that inserted the same
\* peer_key, and fails when that one committed.
Create(r) ==
  /\ pc[r] = "create"
  /\ FreeFor(r, <<"peer", Pair(r)>>)
  /\ IF ByPeerKey(Pair(r)) = {}
     THEN /\ Take(r, <<"peer", Pair(r)>>)
          /\ got' = [got EXCEPT ![r] = r]
          /\ Goto(r, "commit")
     ELSE Goto(r, "again") /\ UNCHANGED <<got, locks>>
  /\ UNCHANGED <<arg, mysql>>

\* After the duplicate peer_key is selected again.  In a transaction of its own that is
\* the first SELECT and finds the row; in AcceptApply's the snapshot of the first SELECT
\* is read again and has no row: the error rolls the acceptance back.
Again(r) ==
  /\ pc[r] = "again"
  /\ IF arg[r].op = "accept" THEN Answer(r, 500) /\ UNCHANGED <<got, states>>
     ELSE \E x \in ByPeerKey(Pair(r)) :
       /\ got' = [got EXCEPT ![r] = x]
       /\ states' = [states EXCEPT ![x] = states[x] \cup Pair(r)]
       /\ Committed(r)
  /\ UNCHANGED <<arg, status, friends, convs>>

\* COMMIT of what the transaction wrote.
Commit(r) ==
  /\ pc[r] = "commit"
  /\ convs' = IF got[r] = r THEN convs \cup {r} ELSE convs
  /\ states' = [states EXCEPT ![got[r]] = states[got[r]] \cup Pair(r)]
  /\ IF arg[r].op = "accept"
     THEN /\ status' = [status EXCEPT ![Id(r)] = "accepted"]
          /\ friends' = friends \cup {Pair(r)}
     ELSE UNCHANGED <<status, friends>>
  /\ Committed(r)
  /\ UNCHANGED <<arg, got>>

\* A statement fails, the lock wait times out or the process dies: the transaction is
\* rolled back.
Rollback(r) ==
  /\ "rollback" \in Faults
  /\ pc[r] \notin {"idle", "done"}
  /\ Answer(r, 500)
  /\ UNCHANGED <<arg, got, mysql>>

Step(r) ==
  \/ Begin(r) \/ CheckFriend(r) \/ CheckPending(r) \/ InsertApply(r)
  \/ Load(r) \/ Reject(r) \/ Update(r) \/ Upsert(r)
  \/ Select(r) \/ Create(r) \/ Again(r) \/ Commit(r)
  \/ Rollback(r)

Finished ==
  /\ \A r \in Reqs : pc[r] = "done"
  /\ UNCHANGED vars

Next == (\E r \in Reqs : Step(r)) \/ Finished

Spec == Init /\ [][Next]_vars

-----------------------------------------------------------------------------
(* Properties *)

\* Types of the variables of friends and single chats; only a running transaction
\* holds locks.
TypeOK ==
  /\ pc \in [Reqs -> PCs]
  /\ arg \in [Reqs -> RequestType]
  /\ code \in [Reqs -> {None, 200, 400, 403, 404, 409, 500}]
  /\ got \in [Reqs -> Reqs \cup {None}]
  /\ status \in [Reqs -> {"none", "pending", "accepted", "rejected"}]
  /\ friends \subseteq Pairs
  /\ convs \subseteq Reqs
  /\ states \in [Reqs -> SUBSET Users]
  /\ \A l \in locks : l[2] \in Reqs /\ pc[l[2]] \in {"upsert", "select", "create", "again", "commit"}

\* Whoever sees a friend has one conversation with that friend, in both conversation
\* lists, and friends are the pairs with an accepted application, whatever accepts,
\* rejects and openings of the chat interleave or fail half-way: the three writes of
\* AcceptApply are one transaction (addfriend.go: "必须同成同败").
FriendsCanChat ==
  /\ \A u \in Users : \A v \in ListFriends(u) :
       ConversationList(u) \cap ConversationList(v) \cap ByPeerKey({u, v}) # {}
  /\ friends = {Own(a) : a \in {b \in Reqs : status[b] = "accepted"}}

\* An application has one outcome, and the answers tell it: accept and reject are never
\* both answered with success, and what is refused as already handled is handled, though
\* both read it as pending before either writes (UpdateFriendApplyStatusTx).
OneOutcome ==
  \A r \in Reqs :
    arg[r].op \in {"accept", "reject"} =>
      /\ code[r] = 200 => status[Id(r)] = (IF arg[r].op = "accept" THEN "accepted" ELSE "rejected")
      /\ code[r] = 409 => status[Id(r)] \in {"accepted", "rejected"}

\* Everyone who opens the chat of a pair, at once or later, from either side or by
\* accepting, is given the same conversation, which is in both lists (GetOrCreateC2CTx,
\* whose SELECT and INSERT other requests come between).
SameConversation ==
  \A r \in Reqs :
    arg[r].op \in {"accept", "open"} /\ code[r] = 200 =>
      /\ ByPeerKey(Pair(r)) = {got[r]}
      /\ \A u \in Pair(r) : got[r] \in ConversationList(u)

=============================================================================
