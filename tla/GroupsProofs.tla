---------------------------- MODULE GroupsProofs ----------------------------
(***************************************************************************)
(* Theorems about Groups for every set of users and groups, any number of  *)
(* requests, any size of the connection pool and any failures.             *)
(***************************************************************************)
EXTENDS Groups, FiniteSetTheorems, TLAPS

\* A request is in AddGroupMembers' or LeaveGroup's transaction, and has the group's row.
InTx(r) == arg[r].op \in {"add", "leave"} /\ pc[r] \in {"lock", "users", "write"}
Holds(r) == arg[r].op \in {"add", "leave"} /\ pc[r] \in {"users", "write"}

\* The types of the variables.
Types ==
  /\ pc \in [Reqs -> PCs]
  /\ arg \in [Reqs -> RequestType]
  /\ known \in [Reqs -> SUBSET Users]
  /\ owner \in [Convs -> Users \cup {None}]
  /\ members \in [Convs -> SUBSET Users]
  /\ states \in [Convs -> SUBSET Users]
  /\ unread \in [Convs -> [Users -> Nat]]
  /\ lastRead \in [Convs -> [Users -> Nat]]
  /\ messages \in Seq(Reqs)
  /\ lock \in [Convs -> Reqs \cup {None}]
  /\ conns \in SUBSET Reqs
  /\ cache \in [Convs -> SUBSET SUBSET Users]
  /\ profiles \in SUBSET Users
  /\ past \in [Convs -> SUBSET SUBSET Users]

\* Connections and rows are held in these transactions only; whoever holds the row of a
\* group still knows its current members, and who leaves is not the owner.
TxInv ==
  /\ \A r \in Reqs : pc[r] \in {"begin", "lock"} => arg[r].op \in {"add", "leave"}
  /\ conns = {r \in Reqs : InTx(r)}
  /\ \A c \in Convs : lock[c] # None => Conv(lock[c]) = c /\ Holds(lock[c])
  /\ \A r \in Reqs : Holds(r) =>
       /\ lock[Conv(r)] = r
       /\ owner[Conv(r)] # None
       /\ known[r] = members[Conv(r)]
       /\ arg[r].op = "leave" => By(r) # owner[Conv(r)]

\* A group that does not exist has no members.
EmptyInv == \A c \in Convs : owner[c] = None => members[c] = {}

\* What a request asks for is well-typed.
LEMMA ReqFields ==
  ASSUME Types, NEW r \in Reqs
  PROVE  /\ Conv(r) \in Convs /\ By(r) \in Users /\ By(r) # None
         /\ arg[r].uids \in SUBSET (Users \cup {0})
         /\ Normalized(arg[r]) \in SUBSET Users
         /\ arg[r].op \in Ops /\ r # None /\ r \in Nat
<1>1. arg[r] \in RequestType
  BY DEF Types
<1>2. Users \subseteq Nat \ {0}
  BY ConstantsAssumption
<1>. QED
  BY <1>1, <1>2, ConstantsAssumption DEF RequestType, Conv, By, Normalized, Reqs, None

\* What ends a request keeps TxInv.
LEMMA FailTx ==
  ASSUME Types, TxInv, NEW r \in Reqs, EndTx(r), NEW l \in {"failed", "done", "list", "invalidate"},
         pc' = [pc EXCEPT ![r] = l],
         UNCHANGED <<arg, known, owner>>,
         \A c \in Convs : c # Conv(r) \/ ~Holds(r) => members'[c] = members[c]
  PROVE  TxInv'
<1> USE DEF Types
<1>0. Conv(r) \in Convs /\ r # None
  BY ReqFields
<1>a. \A q \in Reqs : Conv(q) \in Convs /\ q # None
  BY ReqFields
<1>1. \A q \in Reqs : InTx(q)' <=> InTx(q) /\ q # r
  BY DEF InTx
<1>2. \A q \in Reqs : Holds(q)' <=> Holds(q) /\ q # r
  BY DEF Holds
<1>3. conns' = {q \in Reqs : InTx(q)'}
  BY <1>1 DEF EndTx, TxInv
<1>4. \A c \in Convs : lock'[c] = IF lock[c] = r THEN None ELSE lock[c]
  BY DEF EndTx
<1>5. ASSUME NEW c \in Convs, lock'[c] # None
      PROVE  (Conv(lock[c]) = c /\ Holds(lock[c]))'
  <2>1. lock'[c] = lock[c] /\ lock[c] # r /\ lock[c] # None /\ lock[c] \in Reqs
    BY <1>4, <1>5
  <2>. QED
    BY <2>1, <1>2 DEF TxInv, Conv, Holds
<1>6. ASSUME NEW q \in Reqs, Holds(q)'
      PROVE  /\ lock'[Conv(q)'] = q
             /\ owner'[Conv(q)'] # None
             /\ known'[q] = members'[Conv(q)']
             /\ arg'[q].op = "leave" => By(q)' # owner'[Conv(q)']
  <2>1. Holds(q) /\ q # r
    BY <1>2, <1>6
  <2>2. lock[Conv(q)] = q /\ Conv(q)' = Conv(q) /\ Conv(q) \in Convs
    BY <2>1, <1>a DEF TxInv, Conv
  <2>3. Holds(r) => Conv(q) # Conv(r)
    BY <2>1, <2>2 DEF TxInv
  <2>4. members'[Conv(q)] = members[Conv(q)]
    BY <2>2, <2>3
  <2>. QED
    BY <2>1, <2>2, <2>4, <1>4, <1>a DEF TxInv, By
<1>7. \A q \in Reqs : pc'[q] \in {"begin", "lock"} => arg'[q].op \in {"add", "leave"}
  BY DEF TxInv
<1>. QED
  BY <1>3, <1>5, <1>6, <1>7 DEF TxInv

\* So does what a request does that is not in such a transaction.
LEMMA OtherTx ==
  ASSUME Types, TxInv, NEW r \in Reqs, ~InTx(r), NEW l \in PCs,
         pc' = [pc EXCEPT ![r] = l], ~InTx(r)',
         l \in {"begin", "lock"} => arg[r].op \in {"add", "leave"},
         UNCHANGED <<arg, tx>>,
         \A q \in Reqs : q # r => known'[q] = known[q],
         \A c \in Convs : owner[c] # None => owner'[c] = owner[c] /\ members'[c] = members[c]
  PROVE  TxInv'
<1> USE DEF Types
<1>a. \A q \in Reqs : Conv(q) \in Convs /\ q # None
  BY ReqFields
<1>1. \A q \in Reqs : InTx(q)' <=> InTx(q)
  BY DEF InTx
<1>2. \A q \in Reqs : Holds(q)' <=> Holds(q)
  BY DEF Holds, InTx
<1>3. ~Holds(r)
  BY DEF Holds, InTx
<1>. QED
  <2>1. \A q \in Reqs : pc'[q] \in {"begin", "lock"} => arg'[q].op \in {"add", "leave"}
    BY DEF TxInv
  <2>. QED
    BY <1>a, <1>1, <1>2, <1>3, <2>1 DEF TxInv, tx, Conv, By

\* EndTx leaves the lock and the connections well-typed.
LEMMA EndTxTypes ==
  ASSUME Types, NEW r \in Reqs, EndTx(r)
  PROVE  lock' \in [Convs -> Reqs \cup {None}] /\ conns' \in SUBSET Reqs
BY DEF EndTx, Types

\* The lists that SetMembers writes.
LEMMA SetMembersTypes ==
  ASSUME Types, NEW c \in Convs, NEW uids \in SUBSET Users, SetMembers(c, uids)
  PROVE  members' \in [Convs -> SUBSET Users] /\ past' \in [Convs -> SUBSET SUBSET Users]
<1>1. past[c] \cup {uids} \in SUBSET SUBSET Users
  BY DEF Types
<1>2. past' = [past EXCEPT ![c] = past[c] \cup {uids}]
  BY DEF SetMembers
<1>3. past' \in [Convs -> SUBSET SUBSET Users]
  BY <1>1, <1>2 DEF Types
<1>. QED
  BY <1>3 DEF Types, SetMembers

\* The rows that EnsureStates writes.
LEMMA EnsureStatesTypes ==
  ASSUME Types, NEW c \in Convs, NEW uids \in SUBSET Users, EnsureStates(c, uids)
  PROVE  /\ states' = [states EXCEPT ![c] = states[c] \cup uids]
         /\ states' \in [Convs -> SUBSET Users]
         /\ unread' \in [Convs -> [Users -> Nat]] /\ lastRead' \in [Convs -> [Users -> Nat]]
         /\ \A d \in Convs : \A u \in Users :
              /\ unread'[d][u] = IF d = c /\ u \in uids \ states[c] THEN 0 ELSE unread[d][u]
              /\ lastRead'[d][u] = IF d = c /\ u \in uids \ states[c] THEN 0 ELSE lastRead[d][u]
BY DEF EnsureStates, Types

\* Every step keeps the types.
LEMMA TypesInductive == Types /\ [Next]_vars => Types'
<1> SUFFICES ASSUME Types, [Next]_vars PROVE Types'
  OBVIOUS
<1> USE ConstantsAssumption DEF Types, rows, tx, redis, Goto, Fail, PCs
<1>f. \A r \in Reqs : /\ Conv(r) \in Convs /\ By(r) \in Users /\ By(r) # None
                      /\ Normalized(arg[r]) \in SUBSET Users
  BY ReqFields
<1>e. \A r \in Reqs : EndTx(r) => lock' \in [Convs -> Reqs \cup {None}] /\ conns' \in SUBSET Reqs
  BY EndTxTypes
<1>n. \A r \in Reqs : Normalized(arg[r]) \in SUBSET Users
  BY <1>f
<1>1. ASSUME NEW r \in Reqs, Begin(r) PROVE Types'
  <2>1. First(arg[r].op) \in PCs
    BY DEF First
  <2>. QED
    BY <1>1, <2>1 DEF Begin
<1>2. ASSUME NEW r \in Reqs, BeginTx(r) PROVE Types'
  BY <1>2, <1>f, <1>e DEF BeginTx
<1>3. ASSUME NEW r \in Reqs, Lock(r) PROVE Types'
  <2>a. EndTx(r) \/ (lock' = [lock EXCEPT ![Conv(r)] = r] /\ UNCHANGED conns)
    BY <1>3 DEF Lock
  <2>1. lock' \in [Convs -> Reqs \cup {None}] /\ conns' \in SUBSET Reqs
    <3>1. CASE EndTx(r)
      BY <3>1, <1>e
    <3>2. CASE lock' = [lock EXCEPT ![Conv(r)] = r] /\ UNCHANGED conns
      BY <3>2
    <3>. QED
      BY <2>a, <3>1, <3>2
  <2>b. \E l \in PCs : pc' = [pc EXCEPT ![r] = l]
    BY <1>3 DEF Lock
  <2>c. known' = known \/ known' = [known EXCEPT ![r] = members[Conv(r)]]
    BY <1>3 DEF Lock
  <2>d. members[Conv(r)] \in SUBSET Users
    BY <1>f
  <2>2. pc' \in [Reqs -> PCs] /\ known' \in [Reqs -> SUBSET Users]
    <3>1. pc' \in [Reqs -> PCs]
      BY <2>b
    <3>. QED
      BY <3>1, <2>c, <2>d
  <2>. QED
    BY <1>3, <2>1, <2>2 DEF Lock
<1>4. ASSUME NEW r \in Reqs, CheckUsers(r) PROVE Types'
  <2>a. UNCHANGED <<lock, conns>> \/ EndTx(r)
    BY <1>4 DEF CheckUsers
  <2>1. lock' \in [Convs -> Reqs \cup {None}] /\ conns' \in SUBSET Reqs
    BY <2>a, <1>e
  <2>b. \E l \in PCs : pc' = [pc EXCEPT ![r] = l]
    BY <1>4 DEF CheckUsers
  <2>2. pc' \in [Reqs -> PCs]
    BY <2>b
  <2>3. profiles' \in SUBSET Users
    BY <1>4 DEF CheckUsers, GetUsersByIDs
  <2>. QED
    BY <1>4, <2>1, <2>2, <2>3 DEF CheckUsers
<1>5. ASSUME NEW r \in Reqs, Create(r) PROVE Types'
  <2>1. members' \in [Convs -> SUBSET Users] /\ past' \in [Convs -> SUBSET SUBSET Users]
    BY <1>5, <1>f, SetMembersTypes DEF Create
  <2>2. /\ states' \in [Convs -> SUBSET Users]
        /\ unread' \in [Convs -> [Users -> Nat]] /\ lastRead' \in [Convs -> [Users -> Nat]]
    BY <1>5, <1>f, EnsureStatesTypes DEF Create
  <2>3. pc' \in [Reqs -> PCs] /\ owner' \in [Convs -> Users \cup {None}]
    BY <1>5, <1>f DEF Create
  <2>. QED
    BY <1>5, <2>1, <2>2, <2>3 DEF Create
<1>6. ASSUME NEW r \in Reqs, Add(r) PROVE Types'
  <2>1. lock' \in [Convs -> Reqs \cup {None}] /\ conns' \in SUBSET Reqs
    BY <1>6, <1>e DEF Add
  <2>a. \E l \in PCs : pc' = [pc EXCEPT ![r] = l]
    BY <1>6 DEF Add
  <2>2. pc' \in [Reqs -> PCs]
    BY <2>a
  <2>3. CASE Merged(r) = known[r]
    BY <1>6, <2>1, <2>2, <2>3 DEF Add
  <2>4. CASE Merged(r) # known[r]
    <3>1. Merged(r) \in SUBSET Users
      BY <1>f DEF Merged
    <3>2. members' \in [Convs -> SUBSET Users] /\ past' \in [Convs -> SUBSET SUBSET Users]
      <4>1. SetMembers(Conv(r), Merged(r))
        BY <1>6, <2>4 DEF Add
      <4>. QED
        BY <4>1, <1>f, <3>1, SetMembersTypes
    <3>3. /\ states' \in [Convs -> SUBSET Users]
          /\ unread' \in [Convs -> [Users -> Nat]] /\ lastRead' \in [Convs -> [Users -> Nat]]
      BY <1>6, <1>f, <2>4, EnsureStatesTypes DEF Add
    <3>. QED
      BY <1>6, <2>1, <2>2, <3>2, <3>3 DEF Add
  <2>. QED
    BY <2>3, <2>4
<1>7. ASSUME NEW r \in Reqs, Leave(r) PROVE Types'
  <2>1. lock' \in [Convs -> Reqs \cup {None}] /\ conns' \in SUBSET Reqs
    BY <1>7, <1>e DEF Leave
  <2>2. members' \in [Convs -> SUBSET Users] /\ past' \in [Convs -> SUBSET SUBSET Users]
    BY <1>7, <1>f, SetMembersTypes DEF Leave, Without
  <2>3. states' \in [Convs -> SUBSET Users] /\ pc' \in [Reqs -> PCs]
    BY <1>7, <1>f DEF Leave
  <2>. QED
    BY <1>7, <2>1, <2>2, <2>3 DEF Leave
<1>8. ASSUME NEW r \in Reqs, Invalidate(r) PROVE Types'
  BY <1>8, <1>f, <1>e DEF Invalidate
<1>9. ASSUME NEW r \in Reqs, List(r) PROVE Types'
  <2>1. pc' \in [Reqs -> PCs] /\ profiles' \in SUBSET Users
    <3>1. \E l \in PCs : pc' = [pc EXCEPT ![r] = l]
      BY <1>9 DEF List
    <3>2. profiles' = profiles \/ profiles' = profiles \cup (members[Conv(r)] \cap Existing)
      BY <1>9 DEF List, GetUsersByIDs
    <3>3. profiles' \in SUBSET Users
      BY <3>2
    <3>. QED
      BY <3>1, <3>3
  <2>2. UNCHANGED <<lock, conns>> \/ EndTx(r)
    BY <1>9 DEF List
  <2>. QED
    BY <1>9, <1>e, <2>1, <2>2 DEF List
<1>10. ASSUME NEW r \in Reqs, CacheHit(r) PROVE Types'
  BY <1>10, <1>f, <1>e DEF CacheHit
<1>11. ASSUME NEW r \in Reqs, CacheMiss(r) PROVE Types'
  BY <1>11, <1>f, <1>e DEF CacheMiss
<1>12. ASSUME NEW r \in Reqs, Fetch(r) PROVE Types'
  BY <1>12, <1>f, <1>e DEF Fetch
<1>13. ASSUME NEW r \in Reqs, Fill(r) PROVE Types'
  <2>1. cache' \in [Convs -> SUBSET SUBSET Users]
    <3>0. {known[r]} \in SUBSET SUBSET Users
      OBVIOUS
    <3>1. PICK m \in SUBSET SUBSET Users : m = {known[r]}
      BY <3>0, Zenon
    <3>2. cache' = cache \/ cache' = [cache EXCEPT ![Conv(r)] = {known[r]}]
      BY <1>13 DEF Fill
    <3>3. CASE cache' = [cache EXCEPT ![Conv(r)] = m]
      BY <3>3
    <3>. QED
      BY <3>1, <3>2, <3>3
  <2>. QED
    BY <1>13, <2>1 DEF Fill
<1>14. ASSUME NEW r \in Reqs, NotMember(r) PROVE Types'
  BY <1>14, <1>f, <1>e DEF NotMember
<1>15. ASSUME NEW r \in Reqs, Post(r) PROVE Types'
  <2>1. unread' \in [Convs -> [Users -> Nat]]
    <3>1. \A u \in Users : unread[Conv(r)][u] \in Nat
      BY <1>f
    <3>. QED
      BY <1>15, <1>f, <3>1 DEF Post, IncrUnread
  <2>2. messages' \in Seq(Reqs) /\ pc' \in [Reqs -> PCs]
    BY <1>15 DEF Post
  <2>. QED
    BY <1>15, <2>1, <2>2 DEF Post
<1>16. ASSUME NEW r \in Reqs, FanOut(r) PROVE Types'
  BY <1>16, <1>f, <1>e DEF FanOut
<1>17. ASSUME NEW r \in Reqs, Read(r) PROVE Types'
  <2>2. PICK i \in DOMAIN messages : UpdateLastRead(r, Conv(r), By(r), i)
    BY <1>17 DEF Read
  <2>3. i \in Nat
    BY <2>2
  <2>4. /\ [lastRead[Conv(r)] EXCEPT ![By(r)] = i] \in [Users -> Nat]
        /\ [unread[Conv(r)] EXCEPT ![By(r)] = 0] \in [Users -> Nat]
    BY <1>f, <2>3
  <2>1. pc' \in [Reqs -> PCs]
    <3>1. \E l \in PCs : pc' = [pc EXCEPT ![r] = l]
      BY <2>2 DEF UpdateLastRead
    <3>. QED
      BY <3>1
  <2>5. unread' \in [Convs -> [Users -> Nat]] /\ lastRead' \in [Convs -> [Users -> Nat]]
    <3>1. CASE By(r) \in states[Conv(r)]
      <4>1. /\ lastRead' = [lastRead EXCEPT ![Conv(r)] = [lastRead[Conv(r)] EXCEPT ![By(r)] = i]]
            /\ unread' = [unread EXCEPT ![Conv(r)] = [unread[Conv(r)] EXCEPT ![By(r)] = 0]]
        BY <2>2, <3>1 DEF UpdateLastRead
      <4>2. lastRead' \in [Convs -> [Users -> Nat]]
        BY <4>1, <2>4
      <4>3. unread' \in [Convs -> [Users -> Nat]]
        BY <4>1, <2>4
      <4>. QED
        BY <4>2, <4>3
    <3>2. CASE By(r) \notin states[Conv(r)]
      BY <2>2, <3>2 DEF UpdateLastRead
    <3>. QED
      BY <3>1, <3>2
  <2>. QED
    BY <1>17, <2>1, <2>5 DEF Read
<1>18. ASSUME NEW r \in Reqs, ReadRefused(r) PROVE Types'
  BY <1>18, <1>f, <1>e DEF ReadRefused
<1>19. ASSUME NEW r \in Reqs, DbError(r) PROVE Types'
  BY <1>19, <1>f, <1>e DEF DbError
<1>20. ASSUME NEW r \in Reqs, Crash(r) PROVE Types'
  BY <1>20, <1>f, <1>e DEF Crash
<1>23. ASSUME NEW r \in Reqs, LockTimeout(r) PROVE Types'
  BY <1>23, <1>f, <1>e DEF LockTimeout
<1>24. ASSUME NEW r \in Reqs, GetConv(r) PROVE Types'
  BY <1>24 DEF GetConv
<1>21. ASSUME NEW c \in Convs, Expire(c) PROVE Types'
  BY <1>21 DEF Expire
<1>22. CASE UNCHANGED vars
  BY <1>22 DEF vars
<1>25. ASSUME NEW r \in Reqs, Step(r) PROVE Types'
  BY <1>25, <1>1, <1>2, <1>3, <1>4, <1>5, <1>6, <1>7, <1>8, <1>9, <1>10, <1>11, <1>12, <1>13,
     <1>14, <1>15, <1>16, <1>17, <1>18, <1>23, <1>24 DEF Step
<1>. QED
  BY <1>19, <1>20, <1>21, <1>22, <1>25 DEF Next, Finished

\* TxInv holds at first and every step keeps it.
LEMMA TxInvInductive ==
  /\ Init => TxInv
  /\ Types /\ TxInv /\ [Next]_vars => TxInv'
<1>0. Init => TxInv
  BY DEF Init, TxInv, InTx, Holds
<1> SUFFICES ASSUME Types, TxInv, [Next]_vars PROVE TxInv'
  BY <1>0
<1>f. \A r \in Reqs : Conv(r) \in Convs /\ r # None /\ arg[r].op \in Ops
  BY ReqFields
<1>p. \A r \in Reqs : pc[r] \in PCs
  BY DEF Types
<1> USE DEF Goto, rows, redis, tx
\* Where a request goes that is in no transaction.
<1>g. ASSUME NEW r \in Reqs, NEW l \in PCs, pc' = [pc EXCEPT ![r] = l], arg' = arg,
             arg[r].op \notin {"add", "leave"} \/ l \notin {"lock", "users", "write"}
      PROVE  ~InTx(r)'
  BY <1>g DEF InTx, Types
\* Steps outside of these transactions.
<1>o. ASSUME NEW r \in Reqs, ~InTx(r), UNCHANGED <<arg, tx>>,
             \A q \in Reqs : q # r => known'[q] = known[q],
             \A c \in Convs : owner[c] # None => owner'[c] = owner[c] /\ members'[c] = members[c],
             NEW l \in PCs, pc' = [pc EXCEPT ![r] = l],
             IF arg[r].op \in {"add", "leave"} THEN l \notin {"lock", "users", "write"}
                                              ELSE l \notin {"begin", "lock"}
      PROVE  TxInv'
  <2>1. ~InTx(r)'
    BY <1>o, <1>g
  <2>. QED
    BY <1>o, <2>1, OtherTx
\* Steps that fail.
<1>x. ASSUME NEW r \in Reqs, Fail(r), UNCHANGED <<arg, known, rows>>
      PROVE  TxInv'
  BY <1>x, FailTx DEF Fail
<1>1. ASSUME NEW r \in Reqs, Begin(r) PROVE TxInv'
  <2>1. PICK l \in PCs : /\ pc' = [pc EXCEPT ![r] = l]
                         /\ IF arg[r].op \in {"add", "leave"} THEN l \notin {"lock", "users", "write"}
                                                          ELSE l \notin {"begin", "lock"}
    <3>1. /\ First(arg[r].op) \in PCs
          /\ IF arg[r].op \in {"add", "leave"} THEN First(arg[r].op) = "begin"
                                               ELSE First(arg[r].op) \notin {"begin", "lock"}
      BY <1>f DEF First, PCs, Ops
    <3>. QED
      BY <1>1, <3>1 DEF Begin, PCs
  <2>2. ~InTx(r)
    BY <1>1 DEF Begin, InTx
  <2>. QED
    BY <1>1, <1>o, <2>1, <2>2 DEF Begin
<1>2. ASSUME NEW r \in Reqs, BeginTx(r) PROVE TxInv'
  <2>1. \A q \in Reqs : pc'[q] = IF q = r THEN "lock" ELSE pc[q]
    BY <1>2 DEF BeginTx, Types
  <2>2. UNCHANGED <<arg, known, owner, members, lock>> /\ conns' = conns \cup {r} /\ pc[r] = "begin"
    BY <1>2 DEF BeginTx
  <2>3. arg[r].op \in {"add", "leave"}
    BY <2>2 DEF TxInv
  <2>4. \A q \in Reqs : (InTx(q)' <=> (InTx(q) \/ q = r)) /\ (Holds(q)' <=> Holds(q))
    BY <2>1, <2>2, <2>3 DEF InTx, Holds
  <2>5. conns' = {q \in Reqs : InTx(q)'}
    BY <2>2, <2>4 DEF TxInv
  <2>. QED
    <3>1. \A q \in Reqs : pc'[q] \in {"begin", "lock"} => arg'[q].op \in {"add", "leave"}
      BY <2>1, <2>2, <2>3 DEF TxInv
    <3>2. \A c \in Convs : lock'[c] # None => (Conv(lock[c]) = c /\ Holds(lock[c]))'
      BY <2>2, <2>4 DEF TxInv, Conv, Types
    <3>3. \A q \in Reqs : Holds(q)' =>
            /\ lock'[Conv(q)'] = q
            /\ owner'[Conv(q)'] # None
            /\ known'[q] = members'[Conv(q)']
            /\ arg'[q].op = "leave" => By(q)' # owner'[Conv(q)']
      BY <2>2, <2>4 DEF TxInv, Conv, By
    <3>. QED
      BY <2>5, <3>1, <3>2, <3>3 DEF TxInv
<1>3. ASSUME NEW r \in Reqs, Lock(r) PROVE TxInv'
  <2>1. CASE Fail(r) /\ UNCHANGED known
    BY <1>3, <1>x, <2>1 DEF Lock
  <2>2. CASE ~(Fail(r) /\ UNCHANGED known)
    <3>1. /\ lock[Conv(r)] = None /\ owner[Conv(r)] # None /\ Permitted(r) /\ pc[r] = "lock"
          /\ lock' = [lock EXCEPT ![Conv(r)] = r]
          /\ known' = [known EXCEPT ![r] = members[Conv(r)]]
          /\ pc' = [pc EXCEPT ![r] = IF arg[r].op = "add" THEN "users" ELSE "write"]
          /\ UNCHANGED <<arg, owner, members, conns>>
      BY <1>3, <2>2 DEF Lock
    <3>2. arg[r].op \in {"add", "leave"}
      BY <3>1 DEF TxInv
    <3>3. \A q \in Reqs : (InTx(q)' <=> InTx(q)) /\ (Holds(q)' <=> (Holds(q) \/ q = r))
      BY <3>1, <3>2 DEF InTx, Holds, Types
    <3>4. \A c \in Convs : lock'[c] = IF c = Conv(r) THEN r ELSE lock[c]
      BY <3>1 DEF Types
    <3>5. \A q \in Reqs : known'[q] = IF q = r THEN members[Conv(r)] ELSE known[q]
      BY <3>1 DEF Types
    <3>6. conns' = {q \in Reqs : InTx(q)'}
      BY <3>1, <3>3 DEF TxInv
    <3>7. ASSUME NEW c \in Convs, lock'[c] # None
          PROVE  (Conv(lock[c]) = c /\ Holds(lock[c]))'
      BY <3>1, <3>3, <3>4, <3>7 DEF TxInv, Conv, Types
    <3>8. ASSUME NEW q \in Reqs, Holds(q)'
          PROVE  /\ lock'[Conv(q)'] = q
                 /\ owner'[Conv(q)'] # None
                 /\ known'[q] = members'[Conv(q)']
                 /\ arg'[q].op = "leave" => By(q)' # owner'[Conv(q)']
      <4>1. CASE q = r
        BY <1>f, <3>1, <3>2, <3>4, <3>5, <4>1 DEF Permitted, Conv, By
      <4>2. CASE q # r
        BY <1>f, <3>1, <3>3, <3>4, <3>5, <3>8, <4>2 DEF TxInv, Conv, By
      <4>. QED
        BY <4>1, <4>2
    <3>9. \A q \in Reqs : pc'[q] \in {"begin", "lock"} => arg'[q].op \in {"add", "leave"}
      BY <3>1 DEF TxInv, Types
    <3>. QED
      BY <3>6, <3>7, <3>8, <3>9 DEF TxInv
  <2>. QED
    BY <2>1, <2>2
<1>4. ASSUME NEW r \in Reqs, CheckUsers(r) PROVE TxInv'
  <2>1. CASE Fail(r)
    BY <1>4, <1>x, <2>1 DEF CheckUsers
  <2>2. CASE ~Fail(r) /\ ~InTx(r)
    <3>1. arg[r].op \notin {"add", "leave"}
      BY <1>4, <2>2 DEF CheckUsers, InTx
    <3>. QED
      BY <1>4, <1>o, <2>2, <3>1 DEF CheckUsers, PCs
  <2>3. CASE ~Fail(r) /\ InTx(r)
    <3>1. pc' = [pc EXCEPT ![r] = "write"] /\ UNCHANGED <<arg, known, owner, members, lock, conns>>
      BY <1>4, <2>3 DEF CheckUsers
    <3>2. \A q \in Reqs : (InTx(q)' <=> InTx(q)) /\ (Holds(q)' <=> Holds(q))
      BY <1>4, <2>3, <3>1 DEF CheckUsers, InTx, Holds, Types
    <3>. QED
      BY <1>f, <3>1, <3>2 DEF TxInv, Conv, By, Types
  <2>. QED
    BY <2>1, <2>2, <2>3
<1>5. ASSUME NEW r \in Reqs, Create(r) PROVE TxInv'
  <2>1. ~InTx(r)
    BY <1>5 DEF Create, InTx
  <2>2. \A c \in Convs : owner[c] # None => owner'[c] = owner[c] /\ members'[c] = members[c]
    BY <1>5, <1>f DEF Create, SetMembers, Types
  <2>. QED
    BY <1>5, <1>o, <2>1, <2>2 DEF Create, PCs
<1>6. ASSUME NEW r \in Reqs, Add(r) PROVE TxInv'
  <2>1. PICK l \in {"list", "invalidate"} : pc' = [pc EXCEPT ![r] = l]
    BY <1>6 DEF Add
  <2>2. \A c \in Convs : c # Conv(r) => members'[c] = members[c]
    BY <1>6, <1>f DEF Add, SetMembers, Types
  <2>3. Holds(r)
    BY <1>6 DEF Add, Holds
  <2>. QED
    BY <1>6, <2>1, <2>2, <2>3, FailTx DEF Add
<1>7. ASSUME NEW r \in Reqs, Leave(r) PROVE TxInv'
  <2>1. \A c \in Convs : c # Conv(r) => members'[c] = members[c]
    BY <1>7, <1>f DEF Leave, SetMembers, Types
  <2>2. Holds(r)
    BY <1>7 DEF Leave, Holds
  <2>. QED
    BY <1>7, <2>1, <2>2, FailTx DEF Leave
<1>8. ASSUME NEW r \in Reqs, Invalidate(r) PROVE TxInv'
  BY <1>8, <1>o DEF Invalidate, InTx, PCs
<1>9. ASSUME NEW r \in Reqs, List(r) PROVE TxInv'
  BY <1>9, <1>o DEF List, InTx, PCs
<1>10. ASSUME NEW r \in Reqs, CacheHit(r) PROVE TxInv'
  BY <1>10, <1>o DEF CacheHit, InTx, PCs, Types
<1>11. ASSUME NEW r \in Reqs, CacheMiss(r) PROVE TxInv'
  BY <1>11, <1>o DEF CacheMiss, InTx, PCs
<1>12. ASSUME NEW r \in Reqs, Fetch(r) PROVE TxInv'
  BY <1>12, <1>o DEF Fetch, InTx, PCs, Types
<1>13. ASSUME NEW r \in Reqs, Fill(r) PROVE TxInv'
  BY <1>13, <1>o DEF Fill, InTx, PCs
<1>14. ASSUME NEW r \in Reqs, NotMember(r) PROVE TxInv'
  BY <1>14, <1>o DEF NotMember, InTx, PCs
<1>15. ASSUME NEW r \in Reqs, Post(r) PROVE TxInv'
  BY <1>15, <1>o DEF Post, InTx, PCs
<1>16. ASSUME NEW r \in Reqs, FanOut(r) PROVE TxInv'
  BY <1>16, <1>o DEF FanOut, InTx, PCs
<1>17. ASSUME NEW r \in Reqs, Read(r) PROVE TxInv'
  <2>1. PICK l \in {"done", "failed"} : pc' = [pc EXCEPT ![r] = l]
    BY <1>17 DEF Read, UpdateLastRead
  <2>. QED
    BY <1>17, <1>o, <2>1 DEF Read, InTx, PCs
<1>18. ASSUME NEW r \in Reqs, ReadRefused(r) PROVE TxInv'
  BY <1>18, <1>o DEF ReadRefused, InTx, PCs
<1>19. ASSUME NEW r \in Reqs, DbError(r) PROVE TxInv'
  BY <1>19, <1>x DEF DbError
<1>20. ASSUME NEW r \in Reqs, Crash(r) PROVE TxInv'
  BY <1>20, <1>x DEF Crash
<1>23. ASSUME NEW r \in Reqs, LockTimeout(r) PROVE TxInv'
  BY <1>23, <1>x DEF LockTimeout
<1>24. ASSUME NEW r \in Reqs, GetConv(r) PROVE TxInv'
  BY <1>24, <1>o DEF GetConv, InTx, PCs
<1>21. ASSUME NEW c \in Convs, Expire(c) PROVE TxInv'
  BY <1>21 DEF Expire, TxInv, InTx, Holds, Conv, By
<1>22. CASE UNCHANGED vars
  BY <1>22 DEF vars, TxInv, InTx, Holds, Conv, By
<1>25. ASSUME NEW r \in Reqs, Step(r) PROVE TxInv'
  BY <1>25, <1>1, <1>2, <1>3, <1>4, <1>5, <1>6, <1>7, <1>8, <1>9, <1>10, <1>11, <1>12, <1>13,
     <1>14, <1>15, <1>16, <1>17, <1>18, <1>23, <1>24 DEF Step
<1>. QED
  BY <1>19, <1>20, <1>21, <1>22, <1>25 DEF Next, Finished

-----------------------------------------------------------------------------
\* Types of the variables of the group requests, and who holds connections and rows
\* (the transactions of AddGroupMembers and LeaveGroup).
THEOREM TypeCorrect == Spec => []TypeOK
<1>1. Init => Types
  BY ConstantsAssumption DEF Init, Types, Reqs, PCs, None
<1>2. Types /\ TxInv => TypeOK
  <2> SUFFICES ASSUME Types, TxInv PROVE TypeOK
    OBVIOUS
  <2>1. \A r \in conns : pc[r] \in {"lock", "users", "write"}
    BY DEF TxInv, InTx
  <2>2. \A c \in Convs : lock[c] # None =>
          lock[c] \in conns /\ Conv(lock[c]) = c /\ pc[lock[c]] \in {"users", "write"}
    BY DEF Types, TxInv, InTx, Holds
  <2>. QED
    BY <2>1, <2>2 DEF Types, TypeOK
<1>. QED
  BY <1>1, <1>2, TypesInductive, TxInvInductive, PTL DEF Spec

\* The types and TxInv hold in every state (group.go's transactions).
LEMMA InvariantsHold == Spec => [](Types /\ TxInv)
<1>1. Init => Types
  BY ConstantsAssumption DEF Init, Types, Reqs, PCs, None
<1>. QED
  BY <1>1, TypesInductive, TxInvInductive, PTL DEF Spec

-----------------------------------------------------------------------------
\* Members and their rows agree, and a group that does not exist has none.
MatchInv == StatesMatchMembers /\ EmptyInv

\* What a step does to the members, rows and owners.
LEMMA MembersStep ==
  ASSUME Types, TxInv, MatchInv, Next
  PROVE  /\ MatchInv'
         /\ \A c \in Convs :
              \/ members[c] \subseteq members'[c]
              \/ \E r \in Reqs : Conv(r) = c /\ members'[c] = members[c] \ {By(r)}
<1>f. \A r \in Reqs : /\ Conv(r) \in Convs /\ By(r) \in Users /\ By(r) # None
                      /\ Normalized(arg[r]) \in SUBSET Users
  BY ReqFields
<1>n. ASSUME UNCHANGED <<owner, members, states>>
      PROVE  /\ MatchInv'
             /\ \A c \in Convs : members[c] \subseteq members'[c]
  BY <1>n DEF MatchInv, StatesMatchMembers, EmptyInv
<1>1. ASSUME NEW r \in Reqs, Create(r)
      PROVE  /\ MatchInv'
             /\ \A c \in Convs : members[c] \subseteq members'[c]
  <2>1. /\ owner' = [owner EXCEPT ![Conv(r)] = By(r)]
        /\ members' = [members EXCEPT ![Conv(r)] = Normalized(arg[r])]
        /\ states' = [states EXCEPT ![Conv(r)] = states[Conv(r)] \cup Normalized(arg[r])]
        /\ owner[Conv(r)] = None /\ arg[r].op = "create"
    BY <1>1 DEF Create, SetMembers, EnsureStates
  <2>2. members[Conv(r)] = {} /\ states[Conv(r)] = {}
    BY <1>f, <2>1 DEF MatchInv, StatesMatchMembers, EmptyInv
  <2>3. By(r) \in Normalized(arg[r])
    BY <1>f, <2>1 DEF Normalized, By, None
  <2>. QED
    BY <1>f, <2>1, <2>2, <2>3 DEF MatchInv, StatesMatchMembers, EmptyInv, Types
<1>2. ASSUME NEW r \in Reqs, Add(r)
      PROVE  /\ MatchInv'
             /\ \A c \in Convs : members[c] \subseteq members'[c]
  <2>1. CASE Merged(r) = known[r]
    BY <1>2, <1>n, <2>1 DEF Add
  <2>2. CASE Merged(r) # known[r]
    <3>1. /\ members' = [members EXCEPT ![Conv(r)] = Merged(r)]
          /\ states' = [states EXCEPT ![Conv(r)] = states[Conv(r)] \cup Normalized(arg[r])]
          /\ owner' = owner /\ Holds(r)
      BY <1>2, <2>2 DEF Add, SetMembers, EnsureStates, Holds
    <3>2. Merged(r) = members[Conv(r)] \cup Normalized(arg[r]) /\ owner[Conv(r)] # None
      BY <3>1 DEF Merged, TxInv
    <3>3. states[Conv(r)] = members[Conv(r)]
      BY <1>f DEF MatchInv, StatesMatchMembers
    <3>. QED
      BY <1>f, <3>1, <3>2, <3>3 DEF MatchInv, StatesMatchMembers, EmptyInv, Types
  <2>. QED
    BY <2>1, <2>2
<1>3. ASSUME NEW r \in Reqs, Leave(r)
      PROVE  /\ MatchInv'
             /\ \A c \in Convs :
                  \/ members[c] \subseteq members'[c]
                  \/ c = Conv(r) /\ members'[c] = members[c] \ {By(r)}
  <2>1. /\ members' = [members EXCEPT ![Conv(r)] = Without(r)]
        /\ states' = [states EXCEPT ![Conv(r)] = states[Conv(r)] \ {By(r)}]
        /\ owner' = owner /\ Holds(r) /\ arg[r].op = "leave"
    BY <1>3 DEF Leave, SetMembers, Holds
  <2>2. Without(r) = members[Conv(r)] \ {By(r)} /\ owner[Conv(r)] # None /\ owner[Conv(r)] # By(r)
    BY <2>1 DEF Without, TxInv
  <2>3. states[Conv(r)] = members[Conv(r)] /\ owner[Conv(r)] \in members[Conv(r)]
    BY <1>f, <2>2 DEF MatchInv, StatesMatchMembers
  <2>4. \A c \in Convs : members'[c] = IF c = Conv(r) THEN members[c] \ {By(r)} ELSE members[c]
    BY <1>f, <2>1, <2>2 DEF Types
  <2>5. \A c \in Convs : states'[c] = IF c = Conv(r) THEN states[c] \ {By(r)} ELSE states[c]
    BY <1>f, <2>1 DEF Types
  <2>6. StatesMatchMembers'
    <3>1. ASSUME NEW c \in Convs
          PROVE  states'[c] = members'[c]
      BY <2>4, <2>5 DEF MatchInv, StatesMatchMembers
    <3>2. ASSUME NEW c \in Convs, owner'[c] # None
          PROVE  owner'[c] \in members'[c]
      BY <2>1, <2>2, <2>4, <3>2 DEF MatchInv, StatesMatchMembers
    <3>. QED
      BY <3>1, <3>2 DEF StatesMatchMembers
  <2>7. EmptyInv'
    BY <2>1, <2>2, <2>4 DEF MatchInv, EmptyInv
  <2>. QED
    <3>1. \A c \in Convs : members[c] \subseteq members'[c] \/ (c = Conv(r) /\ members'[c] = members[c] \ {By(r)})
      BY <2>4
    <3>2. MatchInv'
      BY <2>6, <2>7 DEF MatchInv
    <3>. QED
      BY <3>1, <3>2
<1>4. ASSUME NEW r \in Reqs, Step(r) \/ DbError(r) \/ Crash(r), ~Create(r), ~Add(r), ~Leave(r)
      PROVE  UNCHANGED <<owner, members, states>>
  BY <1>4 DEF Step, rows, Begin, BeginTx, Lock, LockTimeout, CheckUsers, Invalidate, List, GetConv, CacheHit, CacheMiss,
              Fetch, Fill, NotMember, Post, FanOut, Read, ReadRefused, DbError, Crash
<1>5. ASSUME NEW c \in Convs, Expire(c)
      PROVE  UNCHANGED <<owner, members, states>>
  BY <1>5 DEF Expire, rows
<1>6. ASSUME Finished
      PROVE  UNCHANGED <<owner, members, states>>
  BY <1>6 DEF Finished, vars, rows
<1>. QED
  BY <1>n, <1>1, <1>2, <1>3, <1>4, <1>5, <1>6 DEF Next

\* MatchInv holds in every state (CreateGroup, AddGroupMembers, LeaveGroup).
LEMMA MatchInvariant == Spec => []MatchInv
<1>1. Init => MatchInv
  BY DEF Init, MatchInv, StatesMatchMembers, EmptyInv
<1>2. Types /\ TxInv /\ MatchInv /\ [Next]_vars => MatchInv'
  <2>1. MatchInv /\ UNCHANGED vars => MatchInv'
    BY DEF vars, rows, MatchInv, StatesMatchMembers, EmptyInv
  <2>. QED
    BY <2>1, MembersStep
<1>. QED
  BY <1>1, <1>2, InvariantsHold, PTL DEF Spec

\* Whoever is in a group has a conversation_state row, nobody else has one, and the owner
\* is in the group, though lists are read long before they are written back (group.go).
THEOREM RowsOfMembers == Spec => []StatesMatchMembers
<1>1. MatchInv => StatesMatchMembers
  BY DEF MatchInv
<1>. QED
  BY <1>1, MatchInvariant, PTL

\* No addition or leave undoes another (the row lock of group.go).
THEOREM UpdatesKept == Spec => NoLostUpdate
<1>1. Types /\ TxInv /\ MatchInv /\ [Next]_vars =>
        [\A c \in Convs :
           \/ members[c] \subseteq members'[c]
           \/ \E r \in Reqs : Conv(r) = c /\ members'[c] = members[c] \ {By(r)}]_vars
  BY MembersStep
<1>. QED
  BY <1>1, InvariantsHold, MatchInvariant, PTL DEF Spec, NoLostUpdate

-----------------------------------------------------------------------------
\* Every list a request works with, or could cache, is one the group has had.
ListInv ==
  /\ CachedWasCommitted
  /\ \A c \in Convs : owner[c] # None => members[c] \in past[c]
  /\ \A r \in Reqs : pc[r] \in {"fill", "member"} => known[r] \in past[Conv(r)]

\* Steps that change no group and send nothing.
LEMMA ListFrame ==
  ASSUME Types, ListInv, UNCHANGED <<arg, owner, members, past, messages>>,
         \A c \in Convs : cache'[c] \subseteq past[c],
         \A q \in Reqs : pc'[q] \in {"fill", "member"} => known'[q] \in past[Conv(q)]
  PROVE  ListInv'
<1>1. CachedWasCommitted'
  BY DEF ListInv, CachedWasCommitted, Conv, By
<1>. QED
  BY <1>1 DEF ListInv, Conv

\* Steps that write a list.
LEMMA ListWritten ==
  ASSUME Types, ListInv, UNCHANGED <<arg, messages, known, cache>>,
         NEW r \in Reqs, NEW uids \in SUBSET Users, SetMembers(Conv(r), uids),
         \A c \in Convs : c # Conv(r) => owner'[c] = owner[c],
         NEW l \in PCs \ {"fill", "member"}, pc' = [pc EXCEPT ![r] = l]
  PROVE  ListInv'
<1>f. \A q \in Reqs : Conv(q) \in Convs
  BY ReqFields
<1>1. \A c \in Convs : /\ past'[c] = IF c = Conv(r) THEN past[c] \cup {uids} ELSE past[c]
                       /\ members'[c] = IF c = Conv(r) THEN uids ELSE members[c]
  BY DEF SetMembers, Types
<1>2. \A i \in DOMAIN messages : messages[i] \in Reqs
  BY DEF Types
<1>3. (\A c \in Convs : cache[c] \subseteq past[c])'
  BY <1>1 DEF ListInv, CachedWasCommitted
<1>4. ASSUME NEW i \in DOMAIN messages
      PROVE  \E m \in past'[Conv(messages[i])] : By(messages[i]) \in m
  <2>1. PICK m \in past[Conv(messages[i])] : By(messages[i]) \in m
    BY DEF ListInv, CachedWasCommitted
  <2>2. m \in past'[Conv(messages[i])]
    BY <1>f, <1>1, <1>2
  <2>. QED
    BY <2>1, <2>2
<1>5. CachedWasCommitted'
  BY <1>3, <1>4 DEF CachedWasCommitted, Conv, By
<1>6. (\A c \in Convs : owner[c] # None => members[c] \in past[c])'
  BY <1>1 DEF ListInv
<1>7. ASSUME NEW q \in Reqs, pc'[q] \in {"fill", "member"}
      PROVE  known'[q] \in past'[Conv(q)]
  <2>1. known[q] \in past[Conv(q)]
    BY <1>7 DEF ListInv, Types
  <2>. QED
    BY <2>1, <1>f, <1>1
<1>. QED
  BY <1>5, <1>6, <1>7 DEF ListInv, Conv

\* Every step keeps ListInv: whatever a list is read from, it was committed.
LEMMA ListInductive == Types /\ TxInv /\ ListInv /\ [Next]_vars => ListInv'
<1> SUFFICES ASSUME Types, TxInv, ListInv, [Next]_vars PROVE ListInv'
  OBVIOUS
<1>f. \A r \in Reqs : /\ Conv(r) \in Convs /\ arg[r].op \in Ops /\ By(r) \in Users
                      /\ Normalized(arg[r]) \in SUBSET Users
  BY ReqFields
<1>c. \A c \in Convs : cache[c] \subseteq past[c]
  BY DEF ListInv, CachedWasCommitted
<1>k. \A q \in Reqs : pc[q] \in {"fill", "member"} => known[q] \in past[Conv(q)]
  BY DEF ListInv
<1> USE DEF Goto, rows, redis, tx
\* A request goes where it uses no list.
<1>g. ASSUME NEW r \in Reqs, NEW l, l \notin {"fill", "member"}, pc' = [pc EXCEPT ![r] = l],
             \A q \in Reqs : q # r => known'[q] = known[q],
             UNCHANGED <<arg, rows>>, \A c \in Convs : cache'[c] \subseteq cache[c]
      PROVE  ListInv'
  <2>1. \A q \in Reqs : pc'[q] \in {"fill", "member"} => known'[q] \in past[Conv(q)]
    BY <1>g, <1>k DEF Types
  <2>. QED
    BY <1>g, <1>c, <2>1, ListFrame
<1>1. ASSUME NEW r \in Reqs, Begin(r) PROVE ListInv'
  <2>1. PICK l : l \notin {"fill", "member"} /\ pc' = [pc EXCEPT ![r] = l]
    <3>1. First(arg[r].op) \notin {"fill", "member"}
      BY <1>f DEF First, Ops
    <3>. QED
      BY <1>1, <3>1 DEF Begin
  <2>. QED
    BY <1>1, <1>g, <2>1 DEF Begin
<1>2. ASSUME NEW r \in Reqs, BeginTx(r) PROVE ListInv'
  BY <1>2, <1>g DEF BeginTx
<1>3. ASSUME NEW r \in Reqs, Lock(r) PROVE ListInv'
  <2>1. PICK l : l \notin {"fill", "member"} /\ pc' = [pc EXCEPT ![r] = l]
    BY <1>3 DEF Lock, Fail
  <2>2. \A q \in Reqs : q # r => known'[q] = known[q]
    BY <1>3 DEF Lock, Types
  <2>. QED
    BY <1>3, <1>g, <2>1, <2>2 DEF Lock
<1>4. ASSUME NEW r \in Reqs, CheckUsers(r) PROVE ListInv'
  <2>1. PICK l : l \notin {"fill", "member"} /\ pc' = [pc EXCEPT ![r] = l]
    BY <1>4 DEF CheckUsers, Fail
  <2>. QED
    BY <1>4, <1>g, <2>1 DEF CheckUsers
<1>5. ASSUME NEW r \in Reqs, Create(r) PROVE ListInv'
  <2>1. \A c \in Convs : c # Conv(r) => owner'[c] = owner[c]
    BY <1>5, <1>f DEF Create, Types
  <2>. QED
    BY <1>5, <1>f, <2>1, ListWritten DEF Create, PCs
<1>6. ASSUME NEW r \in Reqs, Add(r) PROVE ListInv'
  <2>1. CASE Merged(r) = known[r]
    BY <1>6, <1>g, <2>1 DEF Add
  <2>2. CASE Merged(r) # known[r]
    <3>1. Merged(r) \in SUBSET Users
      BY <1>f DEF Merged, Types
    <3>2. /\ SetMembers(Conv(r), Merged(r)) /\ pc' = [pc EXCEPT ![r] = "invalidate"]
          /\ UNCHANGED <<arg, messages, known, cache, owner>>
      BY <1>6, <2>2 DEF Add
    <3>. QED
      BY <3>1, <3>2, ListWritten DEF PCs
  <2>. QED
    BY <2>1, <2>2
<1>7. ASSUME NEW r \in Reqs, Leave(r) PROVE ListInv'
  <2>1. Without(r) \in SUBSET Users
    BY DEF Without, Types
  <2>. QED
    BY <1>7, <2>1, ListWritten DEF Leave, PCs
<1>8. ASSUME NEW r \in Reqs, Invalidate(r) PROVE ListInv'
  <2>1. PICK l : l \notin {"fill", "member"} /\ pc' = [pc EXCEPT ![r] = l]
    BY <1>8 DEF Invalidate
  <2>2. \A c \in Convs : cache'[c] \subseteq cache[c]
    BY <1>8 DEF Invalidate, Types
  <2>. QED
    BY <1>8, <1>g, <2>1, <2>2 DEF Invalidate
<1>9. ASSUME NEW r \in Reqs, List(r) PROVE ListInv'
  <2>1. PICK l : l \notin {"fill", "member"} /\ pc' = [pc EXCEPT ![r] = l]
    BY <1>9 DEF List
  <2>. QED
    BY <1>9, <1>g, <2>1 DEF List
<1>10. ASSUME NEW r \in Reqs, CacheHit(r) PROVE ListInv'
  <2>1. PICK m \in cache[Conv(r)] : known' = [known EXCEPT ![r] = m]
    BY <1>10 DEF CacheHit
  <2>2. m \in past[Conv(r)]
    BY <1>f, <1>c, <2>1
  <2>3. \A q \in Reqs : pc'[q] \in {"fill", "member"} => known'[q] \in past[Conv(q)]
    BY <1>10, <1>k, <2>1, <2>2 DEF CacheHit, Types
  <2>. QED
    BY <1>10, <1>c, <2>3, ListFrame DEF CacheHit
<1>11. ASSUME NEW r \in Reqs, CacheMiss(r) PROVE ListInv'
  BY <1>11, <1>g DEF CacheMiss
<1>12. ASSUME NEW r \in Reqs, Fetch(r) PROVE ListInv'
  <2>1. owner[Conv(r)] # None => members[Conv(r)] \in past[Conv(r)]
    BY <1>f DEF ListInv
  <2>2. \A q \in Reqs : pc'[q] \in {"fill", "member"} => known'[q] \in past[Conv(q)]
    BY <1>12, <1>k, <2>1 DEF Fetch, Types
  <2>. QED
    BY <1>12, <1>c, <2>2, ListFrame DEF Fetch
<1>13. ASSUME NEW r \in Reqs, Fill(r) PROVE ListInv'
  <2>1. known[r] \in past[Conv(r)]
    BY <1>13, <1>k DEF Fill
  <2>2. \A c \in Convs : cache'[c] \subseteq past[c]
    <3>1. cache' = cache \/ cache' = [cache EXCEPT ![Conv(r)] = {known[r]}]
      BY <1>13 DEF Fill
    <3>2. \A c \in Convs : cache'[c] = cache[c] \/ (c = Conv(r) /\ cache'[c] = {known[r]})
      BY <3>1 DEF Types
    <3>. QED
      BY <1>c, <2>1, <3>2
  <2>3. \A q \in Reqs : pc'[q] \in {"fill", "member"} => known'[q] \in past[Conv(q)]
    BY <1>13, <1>k, <2>1 DEF Fill, Types
  <2>. QED
    BY <1>13, <2>2, <2>3, ListFrame DEF Fill
<1>14. ASSUME NEW r \in Reqs, NotMember(r) PROVE ListInv'
  BY <1>14, <1>g DEF NotMember
<1>15. ASSUME NEW r \in Reqs, Post(r) PROVE ListInv'
  <2>1. known[r] \in past[Conv(r)] /\ By(r) \in known[r]
    BY <1>15, <1>k DEF Post, IsMember
  <2>2. /\ messages' = Append(messages, r) /\ UNCHANGED <<arg, owner, members, past, known, cache>>
        /\ pc' = [pc EXCEPT ![r] = "conv"]
    BY <1>15 DEF Post
  <2>3. ASSUME NEW i \in DOMAIN messages'
        PROVE  \E m \in past[Conv(messages'[i])] : By(messages'[i]) \in m
    <3>1. CASE i \in DOMAIN messages
      <4>1. messages'[i] = messages[i]
        BY <2>2, <3>1 DEF Types
      <4>. QED
        BY <3>1, <4>1 DEF ListInv, CachedWasCommitted
    <3>2. CASE i \notin DOMAIN messages
      <4>1. messages'[i] = r
        BY <2>2, <2>3, <3>2 DEF Types
      <4>. QED
        BY <2>1, <4>1
    <3>. QED
      BY <3>1, <3>2
  <2>4. CachedWasCommitted'
    BY <1>c, <2>2, <2>3 DEF CachedWasCommitted, Conv, By
  <2>. QED
    BY <1>k, <2>2, <2>4 DEF ListInv, Conv, Types
<1>16. ASSUME NEW r \in Reqs, FanOut(r) PROVE ListInv'
  BY <1>16, <1>g DEF FanOut
<1>17. ASSUME NEW r \in Reqs, Read(r) PROVE ListInv'
  <2>1. PICK l : l \notin {"fill", "member"} /\ pc' = [pc EXCEPT ![r] = l]
    BY <1>17 DEF Read, UpdateLastRead
  <2>2. \A q \in Reqs : pc'[q] \in {"fill", "member"} => known'[q] \in past[Conv(q)]
    BY <1>17, <1>k, <2>1 DEF Read, Types
  <2>. QED
    BY <1>17, <1>c, <2>2, ListFrame DEF Read
<1>18. ASSUME NEW r \in Reqs, ReadRefused(r) PROVE ListInv'
  BY <1>18, <1>g DEF ReadRefused
<1>19. ASSUME NEW r \in Reqs, DbError(r) PROVE ListInv'
  BY <1>19, <1>g DEF DbError, Fail
<1>20. ASSUME NEW r \in Reqs, Crash(r) PROVE ListInv'
  BY <1>20, <1>g DEF Crash, Fail
<1>23. ASSUME NEW r \in Reqs, LockTimeout(r) PROVE ListInv'
  BY <1>23, <1>g DEF LockTimeout, Fail
<1>24. ASSUME NEW r \in Reqs, GetConv(r) PROVE ListInv'
  BY <1>24, <1>g DEF GetConv
<1>21. ASSUME NEW c \in Convs, Expire(c) PROVE ListInv'
  <2>1. \A d \in Convs : cache'[d] \subseteq past[d]
    BY <1>21, <1>c DEF Expire, Types
  <2>. QED
    BY <1>21, <1>k, <2>1, ListFrame DEF Expire
<1>22. CASE UNCHANGED vars
  BY <1>22, <1>c, <1>k, ListFrame DEF vars
<1>25. ASSUME NEW r \in Reqs, Step(r) PROVE ListInv'
  BY <1>25, <1>1, <1>2, <1>3, <1>4, <1>5, <1>6, <1>7, <1>8, <1>9, <1>10, <1>11, <1>12, <1>13,
     <1>14, <1>15, <1>16, <1>17, <1>18, <1>23, <1>24 DEF Step
<1>. QED
  BY <1>19, <1>20, <1>21, <1>22, <1>25 DEF Next, Finished

\* What Redis holds is a list the group had, and who posts was a member at some time,
\* whatever reads, additions, leaves and failed calls interleave (dao.ListGroupMembers).
THEOREM ListsWereCommitted == Spec => []CachedWasCommitted
<1>1. Init => ListInv
  BY DEF Init, ListInv, CachedWasCommitted
<1>2. ListInv => CachedWasCommitted
  BY DEF ListInv
<1>. QED
  BY <1>1, <1>2, ListInductive, InvariantsHold, PTL DEF Spec

-----------------------------------------------------------------------------
\* The last message somebody read is stored.
LastInv == \A c \in Convs : \A u \in Users : lastRead[c][u] <= Len(messages)

UnreadInv == UnreadBounded /\ LastInv

\* There are finitely many messages to count.
LEMMA OthersFinite ==
  ASSUME Types, NEW c, NEW u, NEW n
  PROVE  IsFiniteSet(OthersAfter(c, u, n)) /\ Cardinality(OthersAfter(c, u, n)) \in Nat
<1>1. Len(messages) \in Nat /\ DOMAIN messages = 1..Len(messages)
  BY DEF Types
<1>2. IsFiniteSet(DOMAIN messages)
  BY <1>1, FS_Interval
<1>3. OthersAfter(c, u, n) \in SUBSET (DOMAIN messages)
  BY DEF OthersAfter
<1>4. IsFiniteSet(OthersAfter(c, u, n))
  BY <1>2, <1>3, FS_Subset
<1>. QED
  BY <1>4, FS_CardinalityType

\* Steps that send nothing and give or reset rows.
LEMMA UnreadFrame ==
  ASSUME Types, UnreadInv, UNCHANGED <<arg, messages>>,
         \A c \in Convs : \A u \in Users :
           \/ /\ unread'[c][u] = unread[c][u] /\ lastRead'[c][u] = lastRead[c][u]
              /\ u \in states'[c] => u \in states[c]
           \/ unread'[c][u] = 0 /\ lastRead'[c][u] \in 0..Len(messages),
         \A c \in Convs : states'[c] \subseteq Users
  PROVE  UnreadInv'
<1>1. \A c, u, n : OthersAfter(c, u, n)' = OthersAfter(c, u, n)
  BY DEF OthersAfter, Conv, By
<1>2. LastInv'
  BY DEF UnreadInv, LastInv, Types
<1>3. ASSUME NEW c \in Convs, NEW u \in states'[c]
      PROVE  unread'[c][u] <= Cardinality(OthersAfter(c, u, lastRead'[c][u]))
  <2>1. u \in Users
    OBVIOUS
  <2>2. CASE /\ unread'[c][u] = unread[c][u] /\ lastRead'[c][u] = lastRead[c][u]
             /\ u \in states'[c] => u \in states[c]
    BY <2>2 DEF UnreadInv, UnreadBounded
  <2>3. CASE unread'[c][u] = 0 /\ lastRead'[c][u] \in 0..Len(messages)
    <3>1. Cardinality(OthersAfter(c, u, lastRead'[c][u])) \in Nat
      BY OthersFinite
    <3>. QED
      BY <2>3, <3>1
  <2>. QED
    BY <2>1, <2>2, <2>3
<1>4. UnreadBounded'
  <2> SUFFICES ASSUME NEW c \in Convs, NEW u \in states'[c]
               PROVE  unread'[c][u] <= Cardinality(OthersAfter(c, u, lastRead[c][u])')
    BY DEF UnreadBounded
  <2>1. OthersAfter(c, u, lastRead[c][u])' = OthersAfter(c, u, lastRead'[c][u])
    BY DEF OthersAfter, Conv, By
  <2>. QED
    BY <1>3, <2>1
<1>. QED
  BY <1>2, <1>4 DEF UnreadInv

\* A send adds a message to what others have not read, and counts it in their rows.
LEMMA UnreadPost ==
  ASSUME Types, UnreadInv, NEW r \in Reqs, Post(r)
  PROVE  UnreadInv'
<1> DEFINE L == Len(messages)
<1>f. Conv(r) \in Convs /\ By(r) \in Users
  BY ReqFields
<1>1. /\ messages' = Append(messages, r) /\ UNCHANGED <<arg, states, lastRead>>
      /\ IncrUnread(Conv(r), states[Conv(r)] \ {By(r)})
  BY DEF Post
<1>2. /\ L \in Nat /\ DOMAIN messages = 1..L /\ DOMAIN messages' = 1..(L + 1)
      /\ messages'[L + 1] = r /\ \A i \in 1..L : messages'[i] = messages[i]
  BY <1>1 DEF Types
<1>3. \A c \in Convs : \A u \in Users :
        unread'[c][u] = IF c = Conv(r) /\ u \in states[c] \ {By(r)} THEN unread[c][u] + 1
                                                                   ELSE unread[c][u]
  BY <1>1, <1>f DEF IncrUnread, Types
<1>4. \A c \in Convs : \A u \in Users : lastRead[c][u] \in 0..L
  BY DEF UnreadInv, LastInv, Types
<1>5. LastInv'
  BY <1>1, <1>2, <1>4 DEF LastInv, Types
<1>6. ASSUME NEW c \in Convs, NEW u \in states[c]
      PROVE  unread'[c][u] <= Cardinality(OthersAfter(c, u, lastRead[c][u])')
  <2> DEFINE n == lastRead[c][u]
             S == OthersAfter(c, u, n)
  <2>1. u \in Users /\ n \in 0..L
    BY <1>4 DEF Types
  <2>2. unread[c][u] \in Nat /\ unread[c][u] <= Cardinality(S)
    BY <2>1 DEF UnreadInv, UnreadBounded, Types
  <2>3. IsFiniteSet(S) /\ Cardinality(S) \in Nat
    BY OthersFinite
  <2>4. OthersAfter(c, u, lastRead[c][u])' = {i \in 1..(L + 1) : i > n /\ Conv(messages'[i]) = c /\ By(messages'[i]) # u}
    BY <1>1, <1>2 DEF OthersAfter, Conv, By
  <2>5. S = {i \in 1..L : i > n /\ Conv(messages[i]) = c /\ By(messages[i]) # u}
    BY <1>2 DEF OthersAfter
  <2>6. CASE c = Conv(r) /\ u # By(r)
    <3>1. OthersAfter(c, u, lastRead[c][u])' = S \cup {L + 1}
      BY <1>2, <2>1, <2>4, <2>5, <2>6
    <3>2. L + 1 \notin S
      BY <1>2, <2>5
    <3>3. Cardinality(S \cup {L + 1}) = Cardinality(S) + 1
      BY <2>3, <3>2, FS_AddElement
    <3>. QED
      BY <1>3, <2>1, <2>2, <2>3, <3>1, <3>3
  <2>7. CASE ~(c = Conv(r) /\ u # By(r))
    <3>1. OthersAfter(c, u, lastRead[c][u])' = S
      BY <1>2, <2>1, <2>4, <2>5, <2>7
    <3>. QED
      BY <1>3, <2>1, <2>2, <2>7, <3>1
  <2>. QED
    BY <2>6, <2>7
<1>7. UnreadBounded'
  BY <1>1, <1>6 DEF UnreadBounded
<1>. QED
  BY <1>5, <1>7 DEF UnreadInv

\* Every step keeps UnreadInv.
LEMMA UnreadInductive == Types /\ Types' /\ UnreadInv /\ [Next]_vars => UnreadInv'
<1> SUFFICES ASSUME Types, Types', UnreadInv, [Next]_vars PROVE UnreadInv'
  OBVIOUS
<1>f. \A r \in Reqs : /\ Conv(r) \in Convs /\ By(r) \in Users
                      /\ Normalized(arg[r]) \in SUBSET Users
  BY ReqFields
<1>s. \A c \in Convs : states[c] \subseteq Users /\ states'[c] \subseteq Users
  BY DEF Types
<1>z. Len(messages) \in Nat /\ 0 \in 0..Len(messages)
  BY DEF Types
<1>n. ASSUME UNCHANGED <<arg, states, unread, lastRead, messages>>
      PROVE  UnreadInv'
  BY <1>n, <1>s, UnreadFrame
\* New rows start from zero.
<1>e. ASSUME NEW r \in Reqs, EnsureStates(Conv(r), Normalized(arg[r])), UNCHANGED <<arg, messages>>
      PROVE  UnreadInv'
  <2>1. /\ states' = [states EXCEPT ![Conv(r)] = states[Conv(r)] \cup Normalized(arg[r])]
        /\ \A d \in Convs : \A u \in Users :
             /\ unread'[d][u] = IF d = Conv(r) /\ u \in Normalized(arg[r]) \ states[Conv(r)]
                               THEN 0 ELSE unread[d][u]
             /\ lastRead'[d][u] = IF d = Conv(r) /\ u \in Normalized(arg[r]) \ states[Conv(r)]
                                 THEN 0 ELSE lastRead[d][u]
    BY <1>e, <1>f, EnsureStatesTypes
  <2>2. \A d \in Convs : states'[d] = IF d = Conv(r) THEN states[d] \cup Normalized(arg[r]) ELSE states[d]
    BY <1>f, <2>1 DEF Types
  <2>3. ASSUME NEW c \in Convs, NEW u \in Users
        PROVE  \/ /\ unread'[c][u] = unread[c][u] /\ lastRead'[c][u] = lastRead[c][u]
                  /\ u \in states'[c] => u \in states[c]
               \/ unread'[c][u] = 0 /\ lastRead'[c][u] \in 0..Len(messages)
    BY <1>z, <2>1, <2>2
  <2>. QED
    BY <1>e, <1>s, <2>3, UnreadFrame
<1>1. ASSUME NEW r \in Reqs, Create(r) PROVE UnreadInv'
  BY <1>1, <1>e DEF Create
<1>2. ASSUME NEW r \in Reqs, Add(r) PROVE UnreadInv'
  BY <1>2, <1>e, <1>n DEF Add
<1>3. ASSUME NEW r \in Reqs, Leave(r) PROVE UnreadInv'
  <2>1. states' = [states EXCEPT ![Conv(r)] = states[Conv(r)] \ {By(r)}]
    BY <1>3 DEF Leave
  <2>2. \A c \in Convs : states'[c] \subseteq states[c]
    BY <2>1 DEF Types
  <2>3. UNCHANGED <<arg, unread, lastRead, messages>>
    BY <1>3 DEF Leave
  <2>. QED
    BY <1>s, <2>2, <2>3, UnreadFrame
<1>4. ASSUME NEW r \in Reqs, Read(r) PROVE UnreadInv'
  <2>1. PICK i \in DOMAIN messages : UpdateLastRead(r, Conv(r), By(r), i)
    BY <1>4 DEF Read
  <2>2. i \in 0..Len(messages)
    BY DEF Types
  <2>3. UNCHANGED <<arg, states, messages>>
    BY <1>4 DEF Read
  <2>4. CASE By(r) \in states[Conv(r)]
    <3>1. /\ lastRead' = [lastRead EXCEPT ![Conv(r)] = [lastRead[Conv(r)] EXCEPT ![By(r)] = i]]
          /\ unread' = [unread EXCEPT ![Conv(r)] = [unread[Conv(r)] EXCEPT ![By(r)] = 0]]
      BY <2>1, <2>4 DEF UpdateLastRead
    <3>2. \A c \in Convs : \A u \in Users :
            /\ lastRead'[c][u] = IF c = Conv(r) /\ u = By(r) THEN i ELSE lastRead[c][u]
            /\ unread'[c][u] = IF c = Conv(r) /\ u = By(r) THEN 0 ELSE unread[c][u]
      BY <1>f, <3>1 DEF Types
    <3>. QED
      BY <1>s, <2>2, <2>3, <3>2, UnreadFrame
  <2>5. CASE By(r) \notin states[Conv(r)]
    BY <1>n, <2>1, <2>3, <2>5 DEF UpdateLastRead
  <2>. QED
    BY <2>4, <2>5
<1>5. ASSUME NEW r \in Reqs, Post(r) PROVE UnreadInv'
  BY <1>5, UnreadPost
<1>6. ASSUME NEW r \in Reqs, Step(r) \/ DbError(r) \/ Crash(r), ~Create(r), ~Add(r), ~Leave(r), ~Read(r), ~Post(r)
      PROVE  UnreadInv'
  <2>1. UNCHANGED <<arg, states, unread, lastRead, messages>>
    BY <1>6 DEF Step, rows, Begin, BeginTx, Lock, LockTimeout, CheckUsers, Invalidate, List, GetConv, CacheHit, CacheMiss,
                Fetch, Fill, NotMember, FanOut, ReadRefused, DbError, Crash
  <2>. QED
    BY <1>n, <2>1
<1>7. ASSUME NEW c \in Convs, Expire(c) PROVE UnreadInv'
  BY <1>7, <1>n DEF Expire, rows
<1>8. CASE UNCHANGED vars
  BY <1>8, <1>n DEF vars, rows
<1>. QED
  BY <1>1, <1>2, <1>3, <1>4, <1>5, <1>6, <1>7, <1>8 DEF Next, Finished

\* The unread count of a member is at most the messages of others after the last one
\* they read, in whatever order sends, reads, additions and leaves commit
\* (IncrUnreadExceptTx, UpdateLastRead, EnsureConversationStatesTx).
THEOREM UnreadCovered == Spec => []UnreadBounded
<1>1. Init => UnreadInv
  <2> SUFFICES ASSUME Init PROVE UnreadInv
    OBVIOUS
  <2>1. UnreadBounded
    BY DEF Init, UnreadBounded
  <2>2. LastInv
    BY DEF Init, LastInv
  <2>. QED
    BY <2>1, <2>2 DEF UnreadInv
<1>2. UnreadInv => UnreadBounded
  BY DEF UnreadInv
<1>. QED
  BY <1>1, <1>2, UnreadInductive, InvariantsHold, PTL DEF Spec

=============================================================================
