------------------------------- MODULE Groups -------------------------------
(***************************************************************************)
(* Group conversations: service/conversation/group.go, the member list     *)
(* that dao.ListGroupMembers caches in Redis, and what the other requests  *)
(* do with membership: send (HandleSend's check, its transaction and the   *)
(* fan-out list) and read (HandleRead).  A request is one HTTP call or one *)
(* WebSocket frame; requests interleave at every call to Redis and MySQL.  *)
(* A transaction holds one connection of the pool from BEGIN to its end,   *)
(* and the row of group_info from SELECT ... FOR UPDATE on; what it writes *)
(* is visible at COMMIT.  Idempotency, retries and the order of the        *)
(* messages' clocks are in SendPath.                                       *)
(***************************************************************************)
EXTENDS Naturals, Sequences, FiniteSets

CONSTANTS
  Users,         \* uids; 0 is none of them
  Existing,      \* those with a row in users
  Convs,         \* the conv_ids that CreateGroup generates
  MaxReqs,       \* bound: requests in a behaviour
  Plans,         \* what they may ask: functions from them to RequestType
  MaxOpenConns,  \* connections of the MySQL pool, for which callers wait without a limit
  Faults         \* the failures this instance considers (FaultKinds)

FaultKinds == {"crash",   \* the process dies between two calls
               "delErr",  \* DEL fails; DelValueByKey only logs it
               "dbErr"}   \* a MySQL call fails, or its caller goes away while it waits

Ops == {"create", "add", "leave", "list", "send", "read"}
RequestType == [op : Ops, by : Users, conv : Convs, uids : SUBSET (Users \cup {0})]

ASSUME ConstantsAssumption ==
  /\ Users \subseteq Nat \ {0}
  /\ Existing \subseteq Users
  /\ MaxReqs \in Nat
  /\ Plans \subseteq [1..MaxReqs -> RequestType]
  /\ MaxOpenConns \in Nat \ {0}
  /\ Faults \subseteq FaultKinds

Reqs == 1..MaxReqs
None == 0

VARIABLES
  pc,        \* where each request is
  arg,       \* what each asks
  known,     \* the member list it works with
  owner,     \* MySQL: group_info.owner_id, None while there is no row
  members,   \* MySQL: group_info.members, sorted and without repetitions: a set
  states,    \* MySQL: who has a conversation_state row
  unread,    \* MySQL: conversation_state.unread
  lastRead,  \* MySQL: conversation_state.last_read_msg_id, as a place in messages
  messages,  \* MySQL: the sends whose message is stored, in commit order
  lock,      \* MySQL: the transaction that holds the row of group_info, or None
  conns,     \* the requests that hold a connection of the pool
  cache,     \* Redis: the cached member list: a set of one list, or of none
  profiles,  \* Redis: the users whose profile is cached
  past       \* history: the member lists each group ever had

rows == <<owner, members, states, unread, lastRead, messages, past>>
tx == <<lock, conns>>
redis == <<cache, profiles>>
vars == <<pc, arg, known, rows, tx, redis>>

PCs == {"idle", "users", "begin", "lock", "write", "invalidate", "list", "conv", "get",
        "fetch", "fill", "member", "done", "failed"}
Ended == {"done", "failed"}

Conv(r) == arg[r].conv
By(r) == arg[r].by
Goto(r, l) == pc' = [pc EXCEPT ![r] = l]

\* A query outside a transaction, and a BEGIN, need a free connection of the pool.
FreeConn == Cardinality(conns) < MaxOpenConns

\* Mutant: the transaction is left open.
MutEndTxNone(r) == r \in Reqs /\ UNCHANGED tx

\* COMMIT or ROLLBACK gives the lock and the connection back.
EndTx(r) ==
  /\ lock' = [c \in Convs |-> IF lock[c] = r THEN None ELSE lock[c]]
  /\ conns' = conns \ {r}

\* The request ends without success; an open transaction is rolled back.
Fail(r) == Goto(r, "failed") /\ EndTx(r)

Init ==
  /\ pc = [r \in Reqs |-> "idle"]
  /\ arg \in Plans
  /\ known = [r \in Reqs |-> {}]
  /\ owner = [c \in Convs |-> None]
  /\ members = [c \in Convs |-> {}]
  /\ states = [c \in Convs |-> {}]
  /\ unread = [c \in Convs |-> [u \in Users |-> 0]]
  /\ lastRead = [c \in Convs |-> [u \in Users |-> 0]]
  /\ messages = <<>>
  /\ lock = [c \in Convs |-> None]
  /\ conns = {}
  /\ cache = [c \in Convs |-> {}]
  /\ profiles = {}
  /\ past = [c \in Convs |-> {}]

\* normalizeGroupMembers: no zero uids, no repetitions, the owner included on creation.
Normalized(a) ==
  (a.uids \cup (IF a.op = "create" THEN {a.by} ELSE {})) \ {0}

\* What it refuses: a group of one, or nobody to add.
Enough(a) ==
  CASE a.op = "create" -> Cardinality(Normalized(a)) >= 2
    [] a.op = "add" -> Normalized(a) # {}
    [] OTHER -> TRUE

\* Its first call; a send and a read ask for membership first.
First(op) ==
  CASE op = "create" -> "users"
    [] op \in {"add", "leave"} -> "begin"
    [] op = "list" -> "list"
    [] OTHER -> "conv"

\* A request arrives and is normalised.
Begin(r) ==
  /\ pc[r] = "idle"
  /\ Goto(r, IF Enough(arg[r]) THEN First(arg[r].op) ELSE "failed")
  /\ UNCHANGED <<arg, known, rows, tx, redis>>

-----------------------------------------------------------------------------
(* Creating and changing a group *)

BeginTx(r) ==
  /\ pc[r] = "begin"
  /\ FreeConn
  /\ conns' = conns \cup {r}
  /\ Goto(r, "lock")
  /\ UNCHANGED <<arg, known, rows, lock, redis>>

\* AddGroupMembers asks for the owner, LeaveGroup for a member who is not the owner.
Permitted(r) ==
  IF arg[r].op = "add" THEN owner[Conv(r)] = By(r)
  ELSE owner[Conv(r)] # By(r) /\ By(r) \in members[Conv(r)]

\* Mutant: the row is read without FOR UPDATE.
MutLockNone(r) ==
  /\ pc[r] = "lock"
  /\ IF owner[Conv(r)] # None /\ Permitted(r)
     THEN /\ known' = [known EXCEPT ![r] = members[Conv(r)]]
          /\ Goto(r, IF arg[r].op = "add" THEN "users" ELSE "write")
          /\ UNCHANGED tx
     ELSE Fail(r) /\ UNCHANGED known
  /\ UNCHANGED <<arg, rows, redis>>

\* SELECT ... FOR UPDATE of the group, then the permission check.
Lock(r) ==
  /\ pc[r] = "lock"
  /\ lock[Conv(r)] = None
  /\ IF owner[Conv(r)] # None /\ Permitted(r)
     THEN /\ lock' = [lock EXCEPT ![Conv(r)] = r]
          /\ known' = [known EXCEPT ![r] = members[Conv(r)]]
          /\ Goto(r, IF arg[r].op = "add" THEN "users" ELSE "write")
          /\ UNCHANGED conns
     ELSE Fail(r) /\ UNCHANGED known
  /\ UNCHANGED <<arg, rows, redis>>

\* innodb_lock_wait_timeout passes while another transaction holds the row.
LockTimeout(r) ==
  /\ pc[r] = "lock"
  /\ lock[Conv(r)] # None
  /\ Fail(r)
  /\ UNCHANGED <<arg, known, rows, redis>>

\* GetUsersByIDs: what it finds in MySQL is cached, for longer than the requests last.
GetUsersByIDs(uids) == profiles' = profiles \cup (uids \cap Existing)

\* ensureUsersExist: profiles that are not cached take a connection of their own, even
\* inside the transaction of AddGroupMembers.
CheckUsers(r) ==
  /\ pc[r] = "users"
  /\ Normalized(arg[r]) \subseteq profiles \/ FreeConn
  /\ GetUsersByIDs(Normalized(arg[r]))
  /\ IF Normalized(arg[r]) \subseteq Existing
     THEN Goto(r, "write") /\ UNCHANGED tx
     ELSE Fail(r)
  /\ UNCHANGED <<arg, known, rows, cache>>

\* UpdateGroupMembersTx: the whole array is rewritten.
SetMembers(c, uids) ==
  /\ members' = [members EXCEPT ![c] = uids]
  /\ past' = [past EXCEPT ![c] = past[c] \cup {uids}]

\* CreateConversationStatesTx, EnsureConversationStatesTx: missing rows are inserted and
\* start from zero, existing ones stay.
EnsureStates(c, uids) ==
  LET fresh == uids \ states[c]
      Zeroed(f) == [f EXCEPT ![c] = [u \in Users |-> IF u \in fresh THEN 0 ELSE f[c][u]]]
  IN  /\ states' = [states EXCEPT ![c] = states[c] \cup uids]
      /\ unread' = Zeroed(unread)
      /\ lastRead' = Zeroed(lastRead)

\* CreateGroup's transaction: the conversation, under a new uuid, group_info and a row
\* per member.
Create(r) ==
  /\ pc[r] = "write" /\ arg[r].op = "create"
  /\ FreeConn
  /\ owner[Conv(r)] = None
  /\ owner' = [owner EXCEPT ![Conv(r)] = By(r)]
  /\ SetMembers(Conv(r), Normalized(arg[r]))
  /\ EnsureStates(Conv(r), Normalized(arg[r]))
  /\ Goto(r, "done")
  /\ UNCHANGED <<arg, known, messages, tx, redis>>

\* mergeMembers.
Merged(r) == known[r] \cup Normalized(arg[r])

\* Mutant: the cache is written through before COMMIT, which may still fail.
MutAddCaches(r) ==
  /\ pc[r] = "write" /\ arg[r].op = "add"
  /\ cache' = [cache EXCEPT ![Conv(r)] = {Merged(r)}]
  /\ \/ /\ SetMembers(Conv(r), Merged(r)) /\ EnsureStates(Conv(r), Normalized(arg[r]))
        /\ Goto(r, "list")
     \/ Goto(r, "failed") /\ UNCHANGED <<members, past, states, unread, lastRead>>
  /\ EndTx(r)
  /\ UNCHANGED <<arg, known, owner, messages, profiles>>

\* AddGroupMembers commits the merged list, or nothing when nobody is new.
Add(r) ==
  /\ pc[r] = "write" /\ arg[r].op = "add"
  /\ IF Merged(r) = known[r]
     THEN Goto(r, "list") /\ UNCHANGED <<members, past, states, unread, lastRead>>
     ELSE /\ SetMembers(Conv(r), Merged(r))
          /\ EnsureStates(Conv(r), Normalized(arg[r]))
          /\ Goto(r, "invalidate")
  /\ EndTx(r)
  /\ UNCHANGED <<arg, known, owner, messages, redis>>

\* removeMember.
Without(r) == known[r] \ {By(r)}

\* Mutant: LeaveGroup keeps the leaver's row.
MutLeaveKeepsRow(r) ==
  /\ pc[r] = "write" /\ arg[r].op = "leave"
  /\ SetMembers(Conv(r), Without(r))
  /\ Goto(r, "invalidate")
  /\ EndTx(r)
  /\ UNCHANGED <<arg, known, owner, states, unread, lastRead, messages, redis>>

\* LeaveGroup commits the list without the leaver and deletes their row.
Leave(r) ==
  /\ pc[r] = "write" /\ arg[r].op = "leave"
  /\ SetMembers(Conv(r), Without(r))
  /\ states' = [states EXCEPT ![Conv(r)] = states[Conv(r)] \ {By(r)}]
  /\ Goto(r, "invalidate")
  /\ EndTx(r)
  /\ UNCHANGED <<arg, known, owner, unread, lastRead, messages, redis>>

\* InvalidateGroupMembers, after the commit.
Invalidate(r) ==
  /\ pc[r] = "invalidate"
  /\ \/ cache' = [cache EXCEPT ![Conv(r)] = {}]
     \/ "delErr" \in Faults /\ UNCHANGED cache
  /\ Goto(r, IF arg[r].op = "add" THEN "list" ELSE "done")
  /\ UNCHANGED <<arg, known, rows, tx, profiles>>

\* ListGroupMembers of the service, also the answer of AddGroupMembers: group_info is
\* read past the cache, then the members' profiles.
List(r) ==
  /\ pc[r] = "list"
  /\ FreeConn
  /\ IF owner[Conv(r)] # None /\ By(r) \in members[Conv(r)]
     THEN Goto(r, "done") /\ GetUsersByIDs(members[Conv(r)])
     ELSE Goto(r, "failed") /\ UNCHANGED profiles
  /\ UNCHANGED <<arg, known, rows, tx, cache>>

-----------------------------------------------------------------------------
(* The member list: dao.ListMembers, which IsMember and the fan-out call *)

\* GetConvByID reads the conversation's type, past the cache.
GetConv(r) ==
  /\ pc[r] = "conv"
  /\ FreeConn
  /\ Goto(r, IF owner[Conv(r)] = None THEN "failed" ELSE "get")
  /\ UNCHANGED <<arg, known, rows, tx, redis>>

\* ListGroupMembers: GET finds the list.
CacheHit(r) ==
  /\ pc[r] = "get"
  /\ \E m \in cache[Conv(r)] : known' = [known EXCEPT ![r] = m]
  /\ Goto(r, "member")
  /\ UNCHANGED <<arg, rows, tx, redis>>

\* GET finds nothing or fails.
CacheMiss(r) ==
  /\ pc[r] = "get"
  /\ Goto(r, "fetch")
  /\ UNCHANGED <<arg, known, rows, tx, redis>>

\* The list is read from group_info.
Fetch(r) ==
  /\ pc[r] = "fetch"
  /\ FreeConn
  /\ known' = [known EXCEPT ![r] = members[Conv(r)]]
  /\ Goto(r, IF owner[Conv(r)] = None THEN "failed" ELSE "fill")
  /\ UNCHANGED <<arg, rows, tx, redis>>

\* SET with GroupMembersTTL; its error is ignored.
Fill(r) ==
  /\ pc[r] = "fill"
  /\ \/ cache' = [cache EXCEPT ![Conv(r)] = {known[r]}]
     \/ UNCHANGED cache
  /\ Goto(r, "member")
  /\ UNCHANGED <<arg, known, rows, tx, profiles>>

\* Mutant: the list is cached without a TTL.
MutExpireNever(c) ==
  FALSE /\ cache[c] # {} /\ UNCHANGED vars

\* GroupMembersTTL passes.
Expire(c) ==
  /\ cache[c] # {}
  /\ cache' = [cache EXCEPT ![c] = {}]
  /\ UNCHANGED <<pc, arg, known, rows, tx, profiles>>

-----------------------------------------------------------------------------
(* What members do *)

IsMember(r) == By(r) \in known[r]

Posted(r) == \E i \in DOMAIN messages : messages[i] = r

NotMember(r) ==
  /\ pc[r] = "member" /\ ~Posted(r)
  /\ ~IsMember(r)
  /\ Goto(r, "failed")
  /\ UNCHANGED <<arg, known, rows, tx, redis>>

\* unread = unread + 1 in these rows (IncrUnreadExceptTx).
IncrUnread(c, uids) ==
  unread' = [unread EXCEPT ![c] =
    [u \in Users |-> IF u \in uids THEN unread[c][u] + 1 ELSE unread[c][u]]]

\* Mutant: the sender's own row is incremented too.
MutPostCountsOwn(r) ==
  /\ pc[r] = "member" /\ arg[r].op = "send" /\ ~Posted(r)
  /\ IsMember(r)
  /\ FreeConn
  /\ messages' = Append(messages, r)
  /\ IncrUnread(Conv(r), states[Conv(r)])
  /\ Goto(r, "conv")
  /\ UNCHANGED <<arg, known, owner, members, states, lastRead, past, tx, redis>>

\* HandleSend's transaction counts the message for every other row there is by now,
\* whoever the list named; then the fan-out list is read.
Post(r) ==
  /\ pc[r] = "member" /\ arg[r].op = "send" /\ ~Posted(r)
  /\ IsMember(r)
  /\ FreeConn
  /\ messages' = Append(messages, r)
  /\ IncrUnread(Conv(r), states[Conv(r)] \ {By(r)})
  /\ Goto(r, "conv")
  /\ UNCHANGED <<arg, known, owner, members, states, lastRead, past, tx, redis>>

\* The event goes to the members of the list.
FanOut(r) ==
  /\ pc[r] = "member" /\ Posted(r)
  /\ Goto(r, "done")
  /\ UNCHANGED <<arg, known, rows, tx, redis>>

\* UpdateLastRead fails with ErrNotMember without a row, and when it changes nothing: the
\* same message read twice within the millisecond of updated_at.
UpdateLastRead(r, c, u, i) ==
  IF u \in states[c]
  THEN /\ lastRead' = [lastRead EXCEPT ![c] = [lastRead[c] EXCEPT ![u] = i]]
       /\ unread' = [unread EXCEPT ![c] = [unread[c] EXCEPT ![u] = 0]]
       /\ \/ Goto(r, "done")
          \/ lastRead[c][u] = i /\ unread[c][u] = 0 /\ Goto(r, "failed")
  ELSE Goto(r, "failed") /\ UNCHANGED <<lastRead, unread>>

\* HandleRead: the message is any stored one of this conversation.
Read(r) ==
  /\ pc[r] = "member" /\ arg[r].op = "read"
  /\ IsMember(r)
  /\ FreeConn
  /\ \E i \in DOMAIN messages : Conv(messages[i]) = Conv(r) /\ UpdateLastRead(r, Conv(r), By(r), i)
  /\ UNCHANGED <<arg, known, owner, members, states, messages, past, tx, redis>>

\* The message does not exist or is of another conversation.
ReadRefused(r) ==
  /\ pc[r] = "member" /\ arg[r].op = "read"
  /\ IsMember(r)
  /\ FreeConn
  /\ Goto(r, "failed")
  /\ UNCHANGED <<arg, known, rows, tx, redis>>

\* A MySQL call fails, or the wait for a connection ends with its context: of a WebSocket
\* frame after 5 s, of an HTTP request only when the client goes away.
DbError(r) ==
  /\ "dbErr" \in Faults
  /\ pc[r] \in {"users", "begin", "lock", "write", "list", "conv", "fetch", "member"}
  /\ Fail(r)
  /\ UNCHANGED <<arg, known, rows, redis>>

Crash(r) ==
  /\ "crash" \in Faults
  /\ pc[r] \notin Ended \cup {"idle"}
  /\ Fail(r)
  /\ UNCHANGED <<arg, known, rows, redis>>

Step(r) ==
  \/ Begin(r) \/ BeginTx(r) \/ Lock(r) \/ LockTimeout(r) \/ CheckUsers(r)
  \/ Create(r) \/ Add(r) \/ Leave(r) \/ Invalidate(r) \/ List(r)
  \/ GetConv(r) \/ CacheHit(r) \/ CacheMiss(r) \/ Fetch(r) \/ Fill(r)
  \/ NotMember(r) \/ Post(r) \/ FanOut(r) \/ Read(r) \/ ReadRefused(r)

Finished ==
  /\ \A r \in Reqs : pc[r] \in Ended
  /\ UNCHANGED vars

Next ==
  \/ \E r \in Reqs : Step(r) \/ DbError(r) \/ Crash(r)
  \/ \E c \in Convs : Expire(c)
  \/ Finished

\* Handlers run on, a wait for a row ends, and Redis drops what has expired; no failure
\* is bound to happen.
Fairness ==
  /\ \A r \in Reqs : WF_vars(Step(r))
  /\ \A c \in Convs : WF_vars(Expire(c))

Spec == Init /\ [][Next]_vars /\ Fairness

-----------------------------------------------------------------------------
(* Properties *)

\* Types of the variables of the group requests; a connection, and the row of a group,
\* are held by requests in the middle of their transaction only.
TypeOK ==
  /\ pc \in [Reqs -> PCs]
  /\ arg \in [Reqs -> RequestType]
  /\ known \in [Reqs -> SUBSET Users]
  /\ owner \in [Convs -> Users \cup {None}]
  /\ members \in [Convs -> SUBSET Users]
  /\ states \in [Convs -> SUBSET Users]
  /\ unread \in [Convs -> [Users -> Nat]]
  /\ lastRead \in [Convs -> [Users -> Nat]]
  /\ messages \in Seq(Reqs)
  /\ lock \in [Convs -> Reqs \cup {None}]
  /\ conns \in SUBSET Reqs
  /\ cache \in [Convs -> SUBSET SUBSET Users]
  /\ profiles \in SUBSET Users
  /\ past \in [Convs -> SUBSET SUBSET Users]
  /\ \A r \in conns : pc[r] \in {"lock", "users", "write"}
  /\ \A c \in Convs : lock[c] # None =>
       lock[c] \in conns /\ Conv(lock[c]) = c /\ pc[lock[c]] \in {"users", "write"}

\* Whoever is in a group has a conversation_state row and nobody else has one, and the
\* owner is in the group, whatever additions, leaves, failures and crashes interleave:
\* both are written in one transaction, but from a list that was read earlier (group.go;
\* the rule is docs/conversation与conversation_state区别.md:43-49).
StatesMatchMembers ==
  \A c \in Convs :
    /\ states[c] = members[c]
    /\ owner[c] # None => owner[c] \in members[c]

\* No addition or leave undoes another: each commit adds to the list that is current
\* when it commits, or takes exactly its own user out of it, though the whole JSON array
\* is rewritten from a list read in an earlier step (FOR UPDATE in group.go).
NoLostUpdate ==
  [][\A c \in Convs :
       \/ members[c] \subseteq members'[c]
       \/ \E r \in Reqs : Conv(r) = c /\ members'[c] = members[c] \ {By(r)}]_vars

\* A cached list may be old, when a slow reader fills it after the DEL, when the DEL is
\* lost or the process dies before it, but it is a list the group really had: never one
\* of a transaction that failed.  So only who was a member at some time posts
\* (dao.ListGroupMembers, HandleSend's check before its transaction).
CachedWasCommitted ==
  /\ \A c \in Convs : cache[c] \subseteq past[c]
  /\ \A i \in DOMAIN messages :
       \E m \in past[Conv(messages[i])] : By(messages[i]) \in m

OthersAfter(c, u, n) ==
  {i \in DOMAIN messages : i > n /\ Conv(messages[i]) = c /\ By(messages[i]) # u}

\* The unread count of a member never exceeds the messages of others stored after the
\* one they last read, in whatever order sends, reads, leaves and additions commit:
\* a count without messages would never go away (IncrUnreadExceptTx, UpdateLastRead,
\* EnsureConversationStatesTx).
UnreadBounded ==
  \A c \in Convs : \A u \in states[c] :
    unread[c][u] <= Cardinality(OthersAfter(c, u, lastRead[c][u]))

Fresh(c) == cache[c] \in {{}, {members[c]}}

\* A wrong list in the cache does not last: once the requests are over it expires
\* (GroupMembersTTL, the fallback for lost invalidations).
CacheConverges == \A c \in Convs : <>[]Fresh(c)

\* Every request ends without any failure's help, though AddGroupMembers waits for a
\* second connection while it holds one and the group's row, and the additions that wait
\* for this row hold the others: their wait times out and gives them back (group.go,
\* ensureUsersExist inside the transaction).  It holds while there are more connections
\* than groups being changed: additions to as many groups as there are connections wait
\* for each other, and the pool has no timeout.
RequestsEnd == <>(\A r \in Reqs : pc[r] \in Ended)

=============================================================================
