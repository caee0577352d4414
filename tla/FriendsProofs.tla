--------------------------- MODULE FriendsProofs ----------------------------
(***************************************************************************)
(* Theorems about Friends for every set of users, any number of requests,  *)
(* any blocks and any failures.                                            *)
(***************************************************************************)
EXTENDS Friends, TLAPS

\* Where a transaction is open.
Tx == {"upsert", "select", "create", "again", "commit"}

\* The types of the variables.
Types ==
  /\ pc \in [Reqs -> PCs]
  /\ arg \in [Reqs -> RequestType]
  /\ code \in [Reqs -> {None, 200, 400, 403, 404, 409, 500}]
  /\ got \in [Reqs -> Reqs \cup {None}]
  /\ status \in [Reqs -> {"none", "pending", "accepted", "rejected"}]
  /\ friends \subseteq Pairs
  /\ convs \subseteq Reqs
  /\ states \in [Reqs -> SUBSET Users]

\* Which requests get where.
OpAt(r) ==
  /\ pc[r] \in {"friend?", "pending?", "insert"} => arg[r].op = "apply"
  /\ pc[r] \in {"load", "update"} => arg[r].op \in {"accept", "reject"}
  /\ pc[r] = "upsert" => arg[r].op = "accept"
  /\ pc[r] \in {"select", "create", "again", "commit"} => arg[r].op \in {"accept", "open"}

\* Answers, applications and conversations come from requests that are done.
DoneAt(r) == pc[r] # "done" => code[r] = None /\ status[r] = "none" /\ r \notin convs

\* Locks are held by open transactions, by one each.
LockInv ==
  /\ \A l \in locks : l[2] \in Reqs /\ pc[l[2]] \in Tx
  /\ \A l, m \in locks : l[1] = m[1] => l[2] = m[2]

\* An acceptance that has begun holds the application, which stays pending.
AcceptAt(r) ==
  /\ pc[r] = "update" => status[Id(r)] # "none"
  /\ arg[r].op = "accept" /\ pc[r] \in Tx =>
       <<<<"apply", Id(r)>>, r>> \in locks /\ status[Id(r)] = "pending"

\* What commits is a conversation of the pair: its first one, or the one there is.
CommitAt(r) ==
  pc[r] = "commit" =>
    IF got[r] = r THEN <<<<"peer", Pair(r)>>, r>> \in locks /\ ByPeerKey(Pair(r)) = {}
                  ELSE got[r] \in ByPeerKey(Pair(r))

\* One conversation per pair, in both lists.
ConvInv ==
  /\ \A c, d \in convs : Pair(c) = Pair(d) => c = d
  /\ \A c \in convs : Pair(c) \subseteq states[c]

FriendInv ==
  /\ friends = {Own(a) : a \in {b \in Reqs : status[b] = "accepted"}}
  /\ \A p \in friends : ByPeerKey(p) # {}

\* An answer tells what was done.
OutcomeAt(r) ==
  arg[r].op \in {"accept", "reject"} =>
    /\ code[r] = 200 => status[Id(r)] = (IF arg[r].op = "accept" THEN "accepted" ELSE "rejected")
    /\ code[r] = 409 => status[Id(r)] \in {"accepted", "rejected"}

ChatAt(r) == arg[r].op \in {"accept", "open"} /\ code[r] = 200 => got[r] \in ByPeerKey(Pair(r))

RequestInv == \A r \in Reqs : OpAt(r) /\ DoneAt(r) /\ AcceptAt(r) /\ CommitAt(r) /\ OutcomeAt(r) /\ ChatAt(r)

IInv == Types /\ RequestInv /\ LockInv /\ ConvInv /\ FriendInv

\* What a request asks for is well-typed.
LEMMA ReqFields ==
  ASSUME Types, NEW r \in Reqs
  PROVE  /\ By(r) \in Users /\ Id(r) \in Reqs /\ arg[r].op \in Ops /\ arg[r].peer \in Users
         /\ Own(r) \in Pairs /\ Pair(r) \in Pairs /\ r # None
<1>1. \A q \in Reqs : arg[q] \in RequestType
  BY DEF Types
<1>2. \A q \in Reqs : arg[q].op \in Ops /\ By(q) \in Users /\ arg[q].peer \in Users /\ Id(q) \in Reqs
  BY <1>1 DEF RequestType, By, Id
<1>3. \A q \in Reqs : Own(q) \in Pairs
  BY <1>2 DEF Own, Pairs
<1>. QED
  BY <1>2, <1>3 DEF Pair, Reqs, None

\* Pairs depend on what was asked only.
LEMMA SamePair ==
  ASSUME arg' = arg
  PROVE  \A r : Pair(r)' = Pair(r) /\ Own(r)' = Own(r) /\ By(r)' = By(r) /\ Id(r)' = Id(r)
BY DEF Pair, Own, By, Id

\* A request goes on, and may lock something that nobody else has locked.
LEMMA GotoKeeps ==
  ASSUME IInv, NEW r \in Reqs, NEW l \in PCs, pc[r] # "done", l # "done",
         pc' = [pc EXCEPT ![r] = l],
         UNCHANGED <<arg, code, status, friends, convs, states>>,
         \A q \in Reqs : q # r => got'[q] = got[q],
         NEW S, locks' = locks \cup S,
         \A x \in S : x[2] = r /\ FreeFor(r, x[1]),
         pc[r] \in Tx \/ S # {} => l \in Tx,
         OpAt(r)', AcceptAt(r)', CommitAt(r)'
  PROVE  (RequestInv /\ LockInv /\ ConvInv /\ FriendInv)'
<1>p. \A q : Pair(q)' = Pair(q) /\ Own(q)' = Own(q) /\ Id(q)' = Id(q)
  BY SamePair
<1>pc. pc'[r] = l /\ \A q \in Reqs : q # r => pc'[q] = pc[q]
  BY DEF IInv, Types
<1>r. \A q \in Reqs : OpAt(q) /\ DoneAt(q) /\ AcceptAt(q) /\ CommitAt(q) /\ OutcomeAt(q) /\ ChatAt(q)
  BY DEF IInv, RequestInv
<1>b. \A x : ByPeerKey(x)' = ByPeerKey(x)
  BY <1>p DEF ByPeerKey
<1>0. code[r] = None
  BY <1>r DEF DoneAt
<1>1. ASSUME NEW q \in Reqs
      PROVE  OpAt(q)' /\ DoneAt(q)' /\ AcceptAt(q)' /\ CommitAt(q)' /\ OutcomeAt(q)' /\ ChatAt(q)'
  <2>1. CASE q = r
    <3>1. DoneAt(r)'
      BY <1>r, <1>pc DEF DoneAt
    <3>2. OutcomeAt(r)' /\ ChatAt(r)'
      BY <1>0 DEF OutcomeAt, ChatAt, None
    <3>. QED
      BY <2>1, <3>1, <3>2
  <2>2. CASE q # r
    <3>1. pc'[q] = pc[q] /\ got'[q] = got[q]
      BY <2>2, <1>pc
    <3>2. OpAt(q)' /\ DoneAt(q)'
      BY <1>r, <3>1 DEF OpAt, DoneAt
    <3>3. AcceptAt(q)' /\ CommitAt(q)'
      BY <1>r, <1>p, <1>b, <3>1 DEF AcceptAt, CommitAt
    <3>4. OutcomeAt(q)' /\ ChatAt(q)'
      BY <1>r, <1>p, <1>b, <3>1 DEF OutcomeAt, ChatAt
    <3>. QED
      BY <3>2, <3>3, <3>4
  <2>. QED
    BY <2>1, <2>2
<1>2. LockInv'
  <2>1. ASSUME NEW x \in locks'
        PROVE  x[2] \in Reqs /\ pc'[x[2]] \in Tx
    BY <1>pc DEF IInv, LockInv
  <2>2. ASSUME NEW x \in locks', NEW y \in locks', x[1] = y[1]
        PROVE  x[2] = y[2]
    BY <2>2 DEF IInv, LockInv, FreeFor
  <2>. QED
    BY <2>1, <2>2 DEF LockInv
<1>3. ConvInv'
  BY <1>p DEF IInv, ConvInv
<1>4. FriendInv'
  BY <1>p, <1>b DEF IInv, FriendInv
<1>. QED
  BY <1>1, <1>2, <1>3, <1>4 DEF RequestInv

\* What is committed is answered, by 200 or 500.
LEMMA Replies ==
  ASSUME NEW r, Committed(r)
  PROVE  \E k \in {200, 500} : Answer(r, k)
BY DEF Committed

\* A request is answered and lets go of its locks; rows may be added.
LEMMA AnswerKeeps ==
  ASSUME IInv, NEW r \in Reqs, NEW k, Answer(r, k),
         UNCHANGED <<arg, status, friends, convs>>,
         \A q \in Reqs : q # r => got'[q] = got[q],
         \A c \in Reqs : states[c] \subseteq states'[c],
         OutcomeAt(r)', ChatAt(r)'
  PROVE  (RequestInv /\ LockInv /\ ConvInv /\ FriendInv)'
<1>p. \A q : Pair(q)' = Pair(q) /\ Own(q)' = Own(q) /\ Id(q)' = Id(q)
  BY SamePair
<1>pc. /\ pc'[r] = "done" /\ \A q \in Reqs : q # r => pc'[q] = pc[q] /\ code'[q] = code[q]
       /\ locks' = {x \in locks : x[2] # r}
  BY DEF IInv, Types, Answer, Unlock
<1>r. \A q \in Reqs : OpAt(q) /\ DoneAt(q) /\ AcceptAt(q) /\ CommitAt(q) /\ OutcomeAt(q) /\ ChatAt(q)
  BY DEF IInv, RequestInv
<1>b. \A x : ByPeerKey(x)' = ByPeerKey(x)
  BY <1>p DEF ByPeerKey
<1>1. ASSUME NEW q \in Reqs
      PROVE  OpAt(q)' /\ DoneAt(q)' /\ AcceptAt(q)' /\ CommitAt(q)' /\ OutcomeAt(q)' /\ ChatAt(q)'
  <2>1. CASE q = r
    <3>1. OpAt(r)' /\ DoneAt(r)' /\ AcceptAt(r)' /\ CommitAt(r)'
      BY <1>pc DEF OpAt, DoneAt, AcceptAt, CommitAt, Tx
    <3>. QED
      BY <2>1, <3>1
  <2>2. CASE q # r
    <3>1. pc'[q] = pc[q] /\ got'[q] = got[q] /\ code'[q] = code[q]
      BY <2>2, <1>pc
    <3>2. OpAt(q)' /\ DoneAt(q)'
      BY <1>r, <3>1 DEF OpAt, DoneAt
    <3>3. \A x : <<x, q>> \in locks => <<x, q>> \in locks'
      BY <2>2, <1>pc
    <3>4. AcceptAt(q)' /\ CommitAt(q)'
      BY <1>r, <1>p, <1>b, <3>1, <3>3 DEF AcceptAt, CommitAt
    <3>5. OutcomeAt(q)' /\ ChatAt(q)'
      BY <1>r, <1>p, <1>b, <3>1 DEF OutcomeAt, ChatAt
    <3>. QED
      BY <3>2, <3>4, <3>5
  <2>. QED
    BY <2>1, <2>2
<1>2. LockInv'
  BY <1>pc DEF IInv, LockInv
<1>3. ConvInv'
  BY <1>p DEF IInv, Types, ConvInv
<1>4. FriendInv'
  BY <1>p, <1>b DEF IInv, FriendInv
<1>. QED
  BY <1>1, <1>2, <1>3, <1>4 DEF RequestInv

\* An application that nobody is accepting becomes pending or is rejected.
LEMMA StatusKeeps ==
  ASSUME IInv, NEW r \in Reqs, arg[r].op \in {"apply", "reject"}, NEW k, Answer(r, k),
         UNCHANGED <<arg, got, friends, convs, states>>,
         NEW a \in Reqs, NEW w \in {"pending", "rejected"},
         status' = [status EXCEPT ![a] = w],
         status[a] = "pending" \/ (status[a] = "none" /\ a = r),
         \A q \in Reqs : arg[q].op = "accept" /\ pc[q] \in Tx => Id(q) # a,
         OutcomeAt(r)'
  PROVE  (RequestInv /\ LockInv /\ ConvInv /\ FriendInv)'
<1>p. \A q : Pair(q)' = Pair(q) /\ Own(q)' = Own(q) /\ Id(q)' = Id(q)
  BY SamePair
<1>i. \A q \in Reqs : Id(q) \in Reqs
  BY ReqFields DEF IInv
<1>pc. /\ pc'[r] = "done" /\ \A q \in Reqs : q # r => pc'[q] = pc[q] /\ code'[q] = code[q]
       /\ locks' = {x \in locks : x[2] # r}
  BY DEF IInv, Types, Answer, Unlock
<1>st. \A q \in Reqs : status'[q] = IF q = a THEN w ELSE status[q]
  BY DEF IInv, Types
<1>r. \A q \in Reqs : OpAt(q) /\ DoneAt(q) /\ AcceptAt(q) /\ CommitAt(q) /\ OutcomeAt(q) /\ ChatAt(q)
  BY DEF IInv, RequestInv
<1>b. \A x : ByPeerKey(x)' = ByPeerKey(x)
  BY <1>p DEF ByPeerKey
<1>1. ASSUME NEW q \in Reqs
      PROVE  OpAt(q)' /\ DoneAt(q)' /\ AcceptAt(q)' /\ CommitAt(q)' /\ OutcomeAt(q)' /\ ChatAt(q)'
  <2>1. CASE q = r
    <3>1. OpAt(r)' /\ DoneAt(r)' /\ AcceptAt(r)' /\ CommitAt(r)'
      BY <1>pc DEF OpAt, DoneAt, AcceptAt, CommitAt, Tx
    <3>2. ChatAt(r)'
      BY DEF ChatAt
    <3>. QED
      BY <2>1, <3>1, <3>2
  <2>2. CASE q # r
    <3>1. pc'[q] = pc[q] /\ got'[q] = got[q] /\ code'[q] = code[q]
      BY <2>2, <1>pc
    <3>2. OpAt(q)'
      BY <1>r, <3>1 DEF OpAt
    <3>3. DoneAt(q)'
      BY <1>r, <1>st, <2>2, <3>1 DEF DoneAt
    <3>4. \A x : <<x, q>> \in locks => <<x, q>> \in locks'
      BY <2>2, <1>pc
    <3>5. AcceptAt(q)'
      BY <1>r, <1>i, <1>p, <1>st, <3>1, <3>4 DEF AcceptAt
    <3>6. CommitAt(q)'
      BY <1>r, <1>p, <1>b, <3>1, <3>4 DEF CommitAt
    <3>7. OutcomeAt(q)'
      BY <1>r, <1>i, <1>p, <1>st, <3>1 DEF OutcomeAt
    <3>8. ChatAt(q)'
      BY <1>r, <1>p, <1>b, <3>1 DEF ChatAt
    <3>. QED
      BY <3>2, <3>3, <3>5, <3>6, <3>7, <3>8
  <2>. QED
    BY <2>1, <2>2
<1>2. LockInv'
  BY <1>pc DEF IInv, LockInv
<1>3. ConvInv'
  BY <1>p DEF IInv, ConvInv
<1>4. {b \in Reqs : status'[b] = "accepted"} = {b \in Reqs : status[b] = "accepted"}
  BY <1>st
<1>5. FriendInv'
  BY <1>p, <1>b, <1>4 DEF IInv, FriendInv
<1>. QED
  BY <1>1, <1>2, <1>3, <1>5 DEF RequestInv

\* A COMMIT makes the conversation, and what an acceptance wrote, visible.
LEMMA CommitKeeps ==
  ASSUME IInv, NEW r \in Reqs, Commit(r)
  PROVE  (RequestInv /\ LockInv /\ ConvInv /\ FriendInv)'
<1>0. PICK k \in {200, 500} : Answer(r, k)
  BY Replies DEF Commit
<1>a. arg' = arg /\ got' = got /\ pc[r] = "commit"
  BY DEF Commit
<1>p. \A q : Pair(q)' = Pair(q) /\ Own(q)' = Own(q) /\ Id(q)' = Id(q)
  BY <1>a, SamePair
<1>i. \A q \in Reqs : Id(q) \in Reqs /\ arg[q].op \in Ops /\ q # None
  BY ReqFields DEF IInv
<1>pc. /\ pc'[r] = "done" /\ code'[r] = k
       /\ \A q \in Reqs : q # r => pc'[q] = pc[q] /\ code'[q] = code[q]
       /\ locks' = {x \in locks : x[2] # r}
  BY <1>0 DEF IInv, Types, Answer, Unlock
<1>r. \A q \in Reqs : OpAt(q) /\ DoneAt(q) /\ AcceptAt(q) /\ CommitAt(q) /\ OutcomeAt(q) /\ ChatAt(q)
  BY DEF IInv, RequestInv
<1>o. arg[r].op \in {"accept", "open"}
  BY <1>a, <1>r DEF OpAt
<1>c. /\ convs' = IF got[r] = r THEN convs \cup {r} ELSE convs
      /\ states' = [states EXCEPT ![got[r]] = states[got[r]] \cup Pair(r)]
  BY DEF Commit
<1>l. \A x \in locks, y \in locks : x[1] = y[1] => x[2] = y[2]
  BY DEF IInv, LockInv
\* What happens to the application.
<1>s. /\ arg[r].op = "accept" =>
           /\ status' = [status EXCEPT ![Id(r)] = "accepted"] /\ friends' = friends \cup {Pair(r)}
           /\ status[Id(r)] = "pending" /\ <<<<"apply", Id(r)>>, r>> \in locks
      /\ arg[r].op # "accept" => status' = status /\ friends' = friends
  BY <1>a, <1>r DEF Commit, AcceptAt, Tx
<1>st. \A q \in Reqs : status'[q] = IF arg[r].op = "accept" /\ q = Id(r) THEN "accepted" ELSE status[q]
  BY <1>s, <1>i DEF IInv, Types
\* What happens to the conversations.
<1>b. \A x : /\ \A c \in ByPeerKey(x) : c \in ByPeerKey(x)'
             /\ got[r] # r \/ x # Pair(r) => ByPeerKey(x)' = ByPeerKey(x)
  BY <1>c, <1>p DEF ByPeerKey
<1>g. got[r] \in ByPeerKey(Pair(r))'
  <2>1. CASE got[r] = r
    BY <1>c, <1>p, <2>1 DEF ByPeerKey
  <2>2. CASE got[r] # r
    <3>1. got[r] \in ByPeerKey(Pair(r))
      BY <1>a, <1>r, <2>2 DEF CommitAt
    <3>. QED
      BY <1>b, <1>p, <3>1
  <2>. QED
    BY <2>1, <2>2
<1>1. ASSUME NEW q \in Reqs
      PROVE  OpAt(q)' /\ DoneAt(q)' /\ AcceptAt(q)' /\ CommitAt(q)' /\ OutcomeAt(q)' /\ ChatAt(q)'
  <2>1. CASE q = r
    <3>1. OpAt(r)' /\ DoneAt(r)' /\ AcceptAt(r)' /\ CommitAt(r)'
      BY <1>pc DEF OpAt, DoneAt, AcceptAt, CommitAt, Tx
    <3>2. OutcomeAt(r)'
      BY <1>a, <1>i, <1>o, <1>p, <1>pc, <1>st DEF OutcomeAt
    <3>3. ChatAt(r)'
      BY <1>a, <1>g, <1>p DEF ChatAt
    <3>. QED
      BY <2>1, <3>1, <3>2, <3>3
  <2>2. CASE q # r
    <3>1. pc'[q] = pc[q] /\ got'[q] = got[q] /\ code'[q] = code[q]
      BY <1>a, <2>2, <1>pc
    <3>2. OpAt(q)'
      BY <1>a, <1>r, <3>1 DEF OpAt
    <3>3. DoneAt(q)'
      BY <1>c, <1>r, <1>s, <1>st, <2>2, <3>1 DEF DoneAt
    <3>4. \A x : <<x, q>> \in locks => <<x, q>> \in locks'
      BY <2>2, <1>pc
    <3>5. AcceptAt(q)'
      <4>1. arg[q].op = "accept" /\ pc[q] \in Tx => ~(arg[r].op = "accept" /\ Id(q) = Id(r))
        <5> SUFFICES ASSUME arg[q].op = "accept", pc[q] \in Tx, arg[r].op = "accept", Id(q) = Id(r)
                     PROVE  FALSE
          OBVIOUS
        <5>1. <<<<"apply", Id(r)>>, q>> \in locks
          BY <1>r DEF AcceptAt
        <5>2. <<<<"apply", Id(r)>>, q>>[2] = <<<<"apply", Id(r)>>, r>>[2]
          BY <1>l, <1>s, <5>1
        <5>. QED
          BY <2>2, <5>2
      <4>. QED
        BY <1>a, <1>r, <1>i, <1>p, <1>st, <3>1, <3>4, <4>1 DEF AcceptAt
    <3>6. CommitAt(q)'
      <4>1. pc[q] = "commit" /\ got[q] = q /\ got[r] = r => Pair(q) # Pair(r)
        <5> SUFFICES ASSUME pc[q] = "commit", got[q] = q, got[r] = r, Pair(q) = Pair(r)
                     PROVE  FALSE
          OBVIOUS
        <5>1. <<<<"peer", Pair(r)>>, q>> \in locks /\ <<<<"peer", Pair(r)>>, r>> \in locks
          BY <1>a, <1>r DEF CommitAt
        <5>2. <<<<"peer", Pair(r)>>, q>>[2] = <<<<"peer", Pair(r)>>, r>>[2]
          BY <1>l, <5>1
        <5>. QED
          BY <2>2, <5>2
      <4>. QED
        <5> SUFFICES ASSUME pc[q] = "commit"
                     PROVE  IF got[q] = q THEN <<<<"peer", Pair(q)>>, q>> \in locks' /\ ByPeerKey(Pair(q))' = {}
                                          ELSE got[q] \in ByPeerKey(Pair(q))'
          BY <1>p, <3>1 DEF CommitAt
        <5>1. CASE got[q] = q
          <6>1. <<<<"peer", Pair(q)>>, q>> \in locks /\ ByPeerKey(Pair(q)) = {}
            BY <1>r, <5>1 DEF CommitAt
          <6>2. ByPeerKey(Pair(q))' = {}
            BY <1>b, <1>p, <4>1, <5>1, <6>1
          <6>. QED
            BY <3>4, <5>1, <6>1, <6>2
        <5>2. CASE got[q] # q
          <6>1. got[q] \in ByPeerKey(Pair(q))
            BY <1>r, <5>2 DEF CommitAt
          <6>. QED
            BY <1>b, <1>p, <5>2, <6>1
        <5>. QED
          BY <5>1, <5>2
    <3>7. OutcomeAt(q)'
      BY <1>a, <1>r, <1>i, <1>p, <1>s, <1>st, <3>1 DEF OutcomeAt
    <3>8. ChatAt(q)'
      <4>1. got[q] \in ByPeerKey(Pair(q)) => got[q] \in ByPeerKey(Pair(q))'
        BY <1>b, <1>p
      <4>. QED
        <5>1. arg'[q].op \in {"accept", "open"} /\ code'[q] = 200 => got[q] \in ByPeerKey(Pair(q))
          <6>1. ChatAt(q)
            BY <1>r
          <6>. QED
            BY <1>a, <3>1, <6>1 DEF ChatAt
        <5>2. arg'[q].op \in {"accept", "open"} /\ code'[q] = 200 => got'[q] \in ByPeerKey(Pair(q))'
          BY <3>1, <4>1, <5>1
        <5>. QED
          BY <5>2 DEF ChatAt
    <3>. QED
      BY <3>2, <3>3, <3>5, <3>6, <3>7, <3>8
  <2>. QED
    BY <2>1, <2>2
<1>2. LockInv'
  BY <1>pc DEF IInv, LockInv
<1>3. ConvInv'
  <2>1. ASSUME NEW c \in convs', NEW d \in convs', Pair(c) = Pair(d)
        PROVE  c = d
    <3>1. got[r] = r => ByPeerKey(Pair(r)) = {}
      BY <1>a, <1>r DEF CommitAt
    <3>2. got[r] = r => \A e \in convs : Pair(e) # Pair(r)
      BY <3>1 DEF ByPeerKey
    <3>. QED
      BY <1>c, <2>1, <3>2 DEF IInv, ConvInv
  <2>2. ASSUME NEW c \in convs'
        PROVE  Pair(c) \subseteq states'[c]
    <3>1. got[r] \in Reqs /\ Pair(got[r]) = Pair(r)
      <4>1. got[r] = r \/ (got[r] \in convs /\ Pair(got[r]) = Pair(r))
        <5>1. CommitAt(r)
          BY <1>r
        <5>. QED
          BY <1>a, <5>1 DEF CommitAt, ByPeerKey
      <4>2. convs \subseteq Reqs
        BY DEF IInv, Types
      <4>3. CASE got[r] = r
        BY <4>3
      <4>. QED
        BY <4>1, <4>2, <4>3
    <3>2. c \in Reqs
      BY <1>c DEF IInv, Types
    <3>3. CASE c = got[r]
      BY <1>c, <3>1, <3>3 DEF IInv, Types
    <3>4. CASE c # got[r]
      BY <1>c, <3>1, <3>2, <3>4 DEF IInv, Types, ConvInv
    <3>. QED
      BY <3>3, <3>4
  <2>. QED
    BY <1>p, <2>1, <2>2 DEF ConvInv
<1>4. FriendInv'
  <2>1. CASE arg[r].op = "accept"
    <3>1. {b \in Reqs : status'[b] = "accepted"} = {b \in Reqs : status[b] = "accepted"} \cup {Id(r)}
      BY <1>i, <1>st, <2>1
    <3>2. Pair(r) = Own(Id(r))
      BY <2>1 DEF Pair
    <3>3. friends' = {Own(a) : a \in {b \in Reqs : status'[b] = "accepted"}}
      BY <1>s, <2>1, <3>1, <3>2 DEF IInv, FriendInv
    <3>4. \A x \in friends' : ByPeerKey(x)' # {}
      <4>1. ByPeerKey(Pair(r))' # {}
        BY <1>g
      <4>2. \A x \in friends : ByPeerKey(x)' # {}
        BY <1>b DEF IInv, FriendInv
      <4>. QED
        BY <1>p, <1>s, <2>1, <4>1, <4>2
    <3>. QED
      BY <1>p, <3>3, <3>4 DEF FriendInv
  <2>2. CASE arg[r].op # "accept"
    <3>1. friends' = friends /\ status' = status
      BY <1>s, <2>2
    <3>2. \A x \in friends' : ByPeerKey(x)' # {}
      BY <1>b, <3>1 DEF IInv, FriendInv
    <3>. QED
      BY <1>p, <3>1, <3>2 DEF IInv, FriendInv
  <2>. QED
    BY <2>1, <2>2
<1>. QED
  BY <1>1, <1>2, <1>3, <1>4 DEF RequestInv

-----------------------------------------------------------------------------
\* Every step keeps the types.
LEMMA TypesInductive ==
  ASSUME IInv, [Next]_vars
  PROVE  Types'
<1> USE DEF Types, PCs, mysql, Goto, Answer
<1>t. Types
  BY DEF IInv
<1>f. \A r \in Reqs : Id(r) \in Reqs /\ Own(r) \in Pairs /\ Pair(r) \in Pairs /\ Pair(r) \subseteq Users
  <2>1. \A r \in Reqs : Id(r) \in Reqs /\ Own(r) \in Pairs /\ Pair(r) \in Pairs
    BY <1>t, ReqFields
  <2>2. \A p \in Pairs : p \subseteq Users
    BY DEF Pairs
  <2>. QED
    BY <2>1, <2>2
<1>1. ASSUME NEW r \in Reqs, Begin(r) \/ CheckFriend(r) \/ CheckPending(r) \/ Load(r) \/ Rollback(r)
      PROVE  Types'
  <2>1. UNCHANGED <<arg, got, mysql>>
    BY <1>1 DEF Begin, CheckFriend, CheckPending, Load, Rollback
  <2>2. \/ \E l \in PCs : Goto(r, l)
        \/ \E k \in {400, 403, 404, 409, 500} : Answer(r, k)
    BY <1>1 DEF Begin, CheckFriend, CheckPending, Load, Rollback
  <2>. QED
    BY <1>t, <2>1, <2>2
<1>2. ASSUME NEW r \in Reqs, InsertApply(r) PROVE Types'
  BY <1>t, <1>2, Replies DEF InsertApply
<1>3. ASSUME NEW r \in Reqs, Reject(r) PROVE Types'
  BY <1>t, <1>f, <1>3, Replies DEF Reject
<1>4. ASSUME NEW r \in Reqs, Update(r) \/ Upsert(r) PROVE Types'
  BY <1>t, <1>4 DEF Update, Upsert
<1>5. ASSUME NEW r \in Reqs, Select(r) \/ Again(r) PROVE Types'
  <2>1. \/ UNCHANGED got /\ UNCHANGED states
        \/ \E x \in ByPeerKey(Pair(r)) :
             /\ got' = [got EXCEPT ![r] = x]
             /\ states' = states \/ states' = [states EXCEPT ![x] = states[x] \cup Pair(r)]
    BY <1>5, Replies DEF Select, Again
  <2>2. \A x \in ByPeerKey(Pair(r)) : x \in Reqs /\ states[x] \cup Pair(r) \in SUBSET Users
    BY <1>t, <1>f DEF ByPeerKey
  <2>3. got' \in [Reqs -> Reqs \cup {None}] /\ states' \in [Reqs -> SUBSET Users]
    BY <1>t, <2>1, <2>2
  <2>4. \/ \E l \in PCs : Goto(r, l)
        \/ \E k \in {200, 500} : Answer(r, k)
    BY <1>5, Replies DEF Select, Again
  <2>. QED
    BY <1>t, <1>5, <2>3, <2>4 DEF Select, Again
<1>6. ASSUME NEW r \in Reqs, Create(r) PROVE Types'
  BY <1>t, <1>6 DEF Create
<1>7. ASSUME NEW r \in Reqs, Commit(r) PROVE Types'
  <2>1. got[r] \in Reqs
    <3>1. CommitAt(r) /\ r \in Reqs /\ pc[r] = "commit"
      BY <1>7 DEF IInv, RequestInv, Commit
    <3>2. got[r] = r \/ got[r] \in convs
      BY <3>1 DEF CommitAt, ByPeerKey
    <3>. QED
      BY <1>t, <3>1, <3>2
  <2>2. states' \in [Reqs -> SUBSET Users]
    BY <1>t, <1>f, <1>7, <2>1 DEF Commit
  <2>3. status' \in [Reqs -> {"none", "pending", "accepted", "rejected"}] /\ friends' \subseteq Pairs
    BY <1>t, <1>f, <1>7 DEF Commit
  <2>4. \E k \in {200, 500} : Answer(r, k)
    BY <1>7, Replies DEF Commit
  <2>5. convs' \subseteq Reqs /\ arg' = arg /\ got' = got
    BY <1>t, <1>7 DEF Commit
  <2>. QED
    BY <1>t, <2>2, <2>3, <2>4, <2>5
<1>8. CASE UNCHANGED vars
  BY <1>t, <1>8 DEF vars
<1>. QED
  BY <1>1, <1>2, <1>3, <1>4, <1>5, <1>6, <1>7, <1>8 DEF Next, Step, Finished

\* Every step keeps the rest of the invariant.
LEMMA StepKeeps ==
  ASSUME IInv, [Next]_vars
  PROVE  (RequestInv /\ LockInv /\ ConvInv /\ FriendInv)'
<1> DEFINE Good == RequestInv /\ LockInv /\ ConvInv /\ FriendInv
<1> USE DEF mysql
<1>f. \A r \in Reqs : Id(r) \in Reqs /\ arg[r].op \in Ops /\ r # None
  BY ReqFields DEF IInv
<1>op. \A r \in Reqs : OpAt(r)
  BY DEF IInv, RequestInv
<1>do. \A r \in Reqs : DoneAt(r)
  BY DEF IInv, RequestInv
<1>ac. \A r \in Reqs : AcceptAt(r)
  BY DEF IInv, RequestInv
<1>st. \A r \in Reqs : status[r] \in {"none", "pending", "accepted", "rejected"}
  BY DEF IInv, Types
\* Steps within a transaction, or to it, without a lock.
<1>g. ASSUME NEW r \in Reqs, NEW l \in PCs, pc[r] # "done", l # "done", Goto(r, l),
             UNCHANGED <<arg, mysql, locks>>,
             \A q \in Reqs : q # r => got'[q] = got[q],
             pc[r] \in Tx => l \in Tx, OpAt(r)', AcceptAt(r)', CommitAt(r)'
      PROVE  Good'
  <2>1. PICK S : S = {}
    OBVIOUS
  <2>2. locks' = locks \cup S /\ (pc[r] \in Tx \/ S # {} => l \in Tx)
    BY <1>g, <2>1
  <2>3. \A x \in S : x[2] = r /\ FreeFor(r, x[1])
    BY <2>1
  <2>4. pc' = [pc EXCEPT ![r] = l] /\ UNCHANGED <<arg, code, status, friends, convs, states>>
    BY <1>g DEF Goto
  <2>. QED
    BY <1>g, <2>2, <2>3, <2>4, GotoKeeps
<1>w. ASSUME NEW r \in Reqs, NEW k \in {400, 403, 404, 500}, Answer(r, k), UNCHANGED <<arg, got, mysql>>
      PROVE  Good'
  <2>1. code'[r] = k
    BY <1>w DEF Answer, IInv, Types
  <2>2. OutcomeAt(r)' /\ ChatAt(r)'
    BY <2>1 DEF OutcomeAt, ChatAt
  <2>. QED
    BY <1>w, <2>2, AnswerKeeps
\* Refused because of what is there already.
<1>x. ASSUME NEW r \in Reqs, Answer(r, 409), UNCHANGED <<arg, got, mysql>>,
             arg[r].op = "apply" \/ status[Id(r)] \in {"accepted", "rejected"}
      PROVE  Good'
  <2>1. code'[r] = 409
    BY <1>x DEF Answer, IInv, Types
  <2>2. OutcomeAt(r)' /\ ChatAt(r)'
    <3>1. Id(r)' = Id(r) /\ arg' = arg /\ status' = status
      BY <1>x, SamePair
    <3>2. OutcomeAt(r)'
      BY <1>x, <2>1, <3>1 DEF OutcomeAt
    <3>. QED
      BY <2>1, <3>2 DEF ChatAt
  <2>3. \A c \in Reqs : states[c] \subseteq states'[c]
    BY <1>x
  <2>. QED
    BY <1>x, <2>2, <2>3, AnswerKeeps
\* Steps of a transaction that lock something.
<1>k. ASSUME NEW r \in Reqs, NEW l \in Tx, pc[r] # "done", Goto(r, l),
             UNCHANGED <<arg, mysql>>, NEW y,
             FreeFor(r, y), locks' = locks \cup {<<y, r>>},
             \A q \in Reqs : q # r => got'[q] = got[q],
             OpAt(r)', AcceptAt(r)', CommitAt(r)'
      PROVE  Good'
  <2>1. PICK S : S = {<<y, r>>}
    OBVIOUS
  <2>2. locks' = locks \cup S /\ (pc[r] \in Tx \/ S # {} => l \in Tx) /\ l \in PCs /\ l # "done"
    BY <1>k, <2>1 DEF Tx, PCs
  <2>3. \A x \in S : x[2] = r /\ FreeFor(r, x[1])
    BY <1>k, <2>1
  <2>4. pc' = [pc EXCEPT ![r] = l] /\ UNCHANGED <<arg, code, status, friends, convs, states>>
    BY <1>k DEF Goto
  <2>. QED
    BY <1>k, <2>2, <2>3, <2>4, GotoKeeps
<1>1. ASSUME NEW r \in Reqs, Begin(r) PROVE Good'
  <2>0. pc[r] = "idle" /\ UNCHANGED <<arg, got, mysql>>
    BY <1>1 DEF Begin
  <2>1. \/ \E k \in {400, 403, 404} : Answer(r, k)
        \/ \E l \in {"load", "select", "friend?"} :
             /\ Goto(r, l) /\ UNCHANGED locks
             /\ l = "load" => arg[r].op \in {"accept", "reject"}
             /\ l = "select" => arg[r].op = "open"
             /\ l = "friend?" => arg[r].op = "apply"
    BY <1>1, <1>f DEF Begin, Ops
  <2>2. ASSUME NEW k \in {400, 403, 404}, Answer(r, k) PROVE Good'
    BY <1>w, <2>0, <2>2
  <2>3. ASSUME NEW l \in {"load", "select", "friend?"},
               Goto(r, l), UNCHANGED locks,
               l = "load" => arg[r].op \in {"accept", "reject"},
               l = "select" => arg[r].op = "open",
               l = "friend?" => arg[r].op = "apply"
        PROVE  Good'
    <3>1. pc'[r] = l
      BY <2>3 DEF Goto, IInv, Types
    <3>2. OpAt(r)'
      BY <2>0, <2>3, <3>1 DEF OpAt
    <3>3. AcceptAt(r)'
      BY <2>0, <2>3, <3>1 DEF AcceptAt, Tx
    <3>4. CommitAt(r)'
      BY <2>3, <3>1 DEF CommitAt
    <3>. QED
      BY <1>g, <2>0, <2>3, <3>2, <3>3, <3>4 DEF PCs, Tx
  <2>. QED
    BY <2>1, <2>2, <2>3
<1>2. ASSUME NEW r \in Reqs, CheckFriend(r) \/ CheckPending(r) PROVE Good'
  <2>0. pc[r] \in {"friend?", "pending?"} /\ UNCHANGED <<arg, got, mysql>> /\ arg[r].op = "apply"
    BY <1>2, <1>op DEF CheckFriend, CheckPending, OpAt
  <2>1. CASE Answer(r, 409)
    BY <1>x, <2>0, <2>1
  <2>2. CASE \E l \in {"pending?", "insert"} : Goto(r, l) /\ UNCHANGED locks
    <3>1. PICK l \in {"pending?", "insert"} : Goto(r, l) /\ UNCHANGED locks
      BY <2>2
    <3>2. pc'[r] = l
      BY <3>1 DEF Goto, IInv, Types
    <3>3. OpAt(r)' /\ AcceptAt(r)' /\ CommitAt(r)'
      BY <2>0, <3>1, <3>2 DEF OpAt, AcceptAt, CommitAt
    <3>. QED
      BY <1>g, <2>0, <3>1, <3>3 DEF PCs, Tx
  <2>. QED
    BY <1>2, <2>1, <2>2 DEF CheckFriend, CheckPending
<1>3. ASSUME NEW r \in Reqs, InsertApply(r) PROVE Good'
  <2>1. arg[r].op = "apply" /\ status[r] = "none"
    BY <1>3, <1>op, <1>do DEF InsertApply, OpAt, DoneAt
  <2>2. \A q \in Reqs : arg[q].op = "accept" /\ pc[q] \in Tx => Id(q) # r
    BY <1>ac, <2>1 DEF AcceptAt
  <2>3. OutcomeAt(r)'
    BY <1>3, <2>1 DEF InsertApply, OutcomeAt
  <2>. QED
    BY <1>3, <2>1, <2>2, <2>3, StatusKeeps, Replies DEF InsertApply
<1>4. ASSUME NEW r \in Reqs, Load(r) PROVE Good'
  <2>0. pc[r] = "load" /\ UNCHANGED <<arg, got, mysql>> /\ arg[r].op \in {"accept", "reject"}
    BY <1>4, <1>op DEF Load, OpAt
  <2>1. CASE \E k \in {403, 404} : Answer(r, k)
    BY <1>w, <2>0, <2>1
  <2>2. CASE status[Id(r)] \in {"accepted", "rejected"} /\ Answer(r, 409)
    BY <1>x, <2>0, <2>2
  <2>3. CASE status[Id(r)] # "none" /\ Goto(r, "update") /\ UNCHANGED locks
    <3>1. pc'[r] = "update"
      BY <2>3 DEF Goto, IInv, Types
    <3>2. OpAt(r)' /\ CommitAt(r)'
      BY <2>0, <3>1 DEF OpAt, CommitAt
    <3>3. AcceptAt(r)'
      BY <2>0, <2>3, <3>1 DEF AcceptAt, Tx, Id
    <3>. QED
      BY <1>g, <2>0, <2>3, <3>2, <3>3 DEF PCs, Tx
  <2>. QED
    BY <1>4, <1>f, <1>st, <2>1, <2>2, <2>3 DEF Load
<1>5. ASSUME NEW r \in Reqs, Reject(r) PROVE Good'
  <2>0. pc[r] = "update" /\ arg[r].op = "reject" /\ UNCHANGED <<arg, got, friends, convs, states>>
    BY <1>5 DEF Reject
  <2>1. CASE status[Id(r)] = "pending"
    <3>1. PICK k \in {200, 500} :
             status' = [status EXCEPT ![Id(r)] = "rejected"] /\ Answer(r, k)
      BY <1>5, <2>1, Replies DEF Reject
    <3>2. \A q \in Reqs : arg[q].op = "accept" /\ pc[q] \in Tx => Id(q) # Id(r)
      <4> SUFFICES ASSUME NEW q \in Reqs, arg[q].op = "accept", pc[q] \in Tx, Id(q) = Id(r)
                   PROVE  FALSE
        OBVIOUS
      <4>1. <<<<"apply", Id(r)>>, q>> \in locks
        BY <1>ac DEF AcceptAt
      <4>2. \A x \in locks : x[1] = <<"apply", Id(r)>> => x[2] = r
        BY <1>5 DEF Reject, FreeFor
      <4>3. <<<<"apply", Id(r)>>, q>>[2] = r
        BY <4>1, <4>2
      <4>. QED
        BY <2>0, <4>3
    <3>3. OutcomeAt(r)'
      <4>1. status'[Id(r)] = "rejected" /\ code'[r] \in {200, 500} /\ Id(r)' = Id(r)
        BY <1>f, <2>0, <3>1, SamePair DEF Answer, IInv, Types
      <4>. QED
        BY <2>0, <4>1 DEF OutcomeAt
    <3>. QED
      BY <1>f, <2>0, <2>1, <3>1, <3>2, <3>3, StatusKeeps
  <2>2. CASE status[Id(r)] # "pending"
    <3>1. status' = status /\ Answer(r, 409)
      BY <1>5, <2>2 DEF Reject
    <3>2. status[Id(r)] \in {"accepted", "rejected"}
      BY <1>ac, <1>f, <1>st, <2>0, <2>2 DEF AcceptAt
    <3>. QED
      BY <1>x, <2>0, <3>1, <3>2
  <2>. QED
    BY <2>1, <2>2
<1>6. ASSUME NEW r \in Reqs, Update(r) PROVE Good'
  <2>0. pc[r] = "update" /\ arg[r].op = "accept" /\ UNCHANGED <<arg, got, mysql>>
    BY <1>6 DEF Update
  <2>1. CASE status[Id(r)] = "pending"
    <3> DEFINE x == <<<<"apply", Id(r)>>, r>>
    <3>1. FreeFor(r, <<"apply", Id(r)>>) /\ locks' = locks \cup {x} /\ Goto(r, "upsert")
      BY <1>6, <2>1 DEF Update, Take
    <3>2. pc'[r] = "upsert"
      BY <3>1 DEF Goto, IInv, Types
    <3>3. OpAt(r)' /\ CommitAt(r)'
      BY <2>0, <3>2 DEF OpAt, CommitAt
    <3>4. AcceptAt(r)'
      BY <2>0, <2>1, <3>1, <3>2, SamePair DEF AcceptAt
    <3>5. PICK y : y = <<"apply", Id(r)>>
      OBVIOUS
    <3>6. FreeFor(r, y) /\ locks' = locks \cup {<<y, r>>} /\ "upsert" \in Tx
      BY <3>1, <3>5 DEF Tx
    <3>. QED
      BY <1>k, <2>0, <3>1, <3>3, <3>4, <3>6
  <2>2. CASE status[Id(r)] # "pending"
    <3>1. Answer(r, 409)
      BY <1>6, <2>2 DEF Update
    <3>2. status[Id(r)] \in {"accepted", "rejected"}
      BY <1>ac, <1>f, <1>st, <2>0, <2>2 DEF AcceptAt
    <3>. QED
      BY <1>x, <2>0, <3>1, <3>2
  <2>. QED
    BY <2>1, <2>2
<1>7. ASSUME NEW r \in Reqs, Upsert(r) PROVE Good'
  <2> DEFINE x == <<<<"friend", Pair(r)>>, r>>
  <2>0. /\ pc[r] = "upsert" /\ UNCHANGED <<arg, got, mysql>> /\ Goto(r, "select")
        /\ FreeFor(r, <<"friend", Pair(r)>>) /\ locks' = locks \cup {x}
    BY <1>7 DEF Upsert, Take
  <2>1. arg[r].op = "accept" /\ <<<<"apply", Id(r)>>, r>> \in locks /\ status[Id(r)] = "pending"
    BY <1>op, <1>ac, <2>0 DEF OpAt, AcceptAt, Tx
  <2>2. pc'[r] = "select"
    BY <2>0 DEF Goto, IInv, Types
  <2>3. OpAt(r)' /\ CommitAt(r)'
    BY <2>0, <2>1, <2>2 DEF OpAt, CommitAt
  <2>4. AcceptAt(r)'
    BY <2>0, <2>1, <2>2, SamePair DEF AcceptAt
  <2>5. PICK y : y = <<"friend", Pair(r)>>
    OBVIOUS
  <2>6. FreeFor(r, y) /\ locks' = locks \cup {<<y, r>>} /\ "select" \in Tx
    BY <2>0, <2>5 DEF Tx
  <2>. QED
    BY <1>k, <2>0, <2>3, <2>4, <2>6
<1>8. ASSUME NEW r \in Reqs, Select(r) PROVE Good'
  <2>0. /\ pc[r] = "select" /\ UNCHANGED <<arg, status, friends, convs>>
        /\ arg[r].op \in {"accept", "open"}
    BY <1>8, <1>op DEF Select, OpAt
  <2>a. arg[r].op = "accept" => <<<<"apply", Id(r)>>, r>> \in locks /\ status[Id(r)] = "pending"
    BY <1>ac, <2>0 DEF AcceptAt, Tx
  <2>1. CASE ByPeerKey(Pair(r)) = {}
    <3>1. Goto(r, "create") /\ UNCHANGED <<got, states, locks>>
      BY <1>8, <2>1 DEF Select
    <3>2. pc'[r] = "create"
      BY <3>1 DEF Goto, IInv, Types
    <3>3. OpAt(r)' /\ CommitAt(r)'
      BY <2>0, <3>2 DEF OpAt, CommitAt
    <3>4. AcceptAt(r)'
      BY <2>0, <2>a, <3>1, <3>2, SamePair DEF AcceptAt
    <3>. QED
      BY <1>g, <2>0, <3>1, <3>3, <3>4 DEF PCs, Tx
  <2>2. CASE ByPeerKey(Pair(r)) # {}
    <3>1. PICK x \in ByPeerKey(Pair(r)) :
             /\ got' = [got EXCEPT ![r] = x]
             /\ IF arg[r].op = "accept"
                THEN Goto(r, "commit") /\ UNCHANGED <<states, locks>>
                ELSE Committed(r) /\ states' = [states EXCEPT ![x] = states[x] \cup Pair(r)]
      BY <1>8, <2>2 DEF Select
    <3>2. got'[r] = x /\ (\A q \in Reqs : q # r => got'[q] = got[q]) /\ x \in convs
      BY <3>1 DEF IInv, Types, ByPeerKey
    <3>p. ByPeerKey(Pair(r))' = ByPeerKey(Pair(r))
      BY <2>0, SamePair DEF ByPeerKey
    <3>3. CASE arg[r].op = "accept"
      <4>1. pc'[r] = "commit"
        BY <3>1, <3>3 DEF Goto, IInv, Types
      <4>2. x # r
        BY <1>do, <2>0, <3>2 DEF DoneAt
      <4>3. OpAt(r)'
        BY <2>0, <4>1 DEF OpAt
      <4>4. CommitAt(r)'
        BY <3>1, <3>2, <3>p, <4>2 DEF CommitAt
      <4>5. AcceptAt(r)'
        BY <2>0, <2>a, <3>1, <3>3, <4>1, SamePair DEF AcceptAt
      <4>. QED
        BY <1>g, <2>0, <3>1, <3>2, <3>3, <4>3, <4>4, <4>5 DEF PCs, Tx
    <3>4. CASE arg[r].op # "accept"
      <4>1. PICK k \in {200, 500} :
               Answer(r, k) /\ states' = [states EXCEPT ![x] = states[x] \cup Pair(r)]
        BY <3>1, <3>4, Replies
      <4>2. \A c \in Reqs : states[c] \subseteq states'[c]
        BY <4>1 DEF IInv, Types
      <4>3. ChatAt(r)'
        BY <3>1, <3>2, <3>p DEF ChatAt
      <4>4. OutcomeAt(r)'
        BY <2>0, <3>4 DEF OutcomeAt
      <4>. QED
        BY <2>0, <3>2, <4>1, <4>2, <4>3, <4>4, AnswerKeeps
    <3>. QED
      BY <3>3, <3>4
  <2>. QED
    BY <2>1, <2>2
<1>9. ASSUME NEW r \in Reqs, Create(r) PROVE Good'
  <2>0. /\ pc[r] = "create" /\ UNCHANGED <<arg, mysql>>
        /\ arg[r].op \in {"accept", "open"}
    BY <1>9, <1>op DEF Create, OpAt
  <2>a. arg[r].op = "accept" => <<<<"apply", Id(r)>>, r>> \in locks /\ status[Id(r)] = "pending"
    BY <1>ac, <2>0 DEF AcceptAt, Tx
  <2>1. CASE ByPeerKey(Pair(r)) = {}
    <3> DEFINE x == <<<<"peer", Pair(r)>>, r>>
    <3>1. /\ FreeFor(r, <<"peer", Pair(r)>>) /\ locks' = locks \cup {x}
          /\ got' = [got EXCEPT ![r] = r] /\ Goto(r, "commit")
      BY <1>9, <2>1 DEF Create, Take
    <3>2. pc'[r] = "commit" /\ got'[r] = r /\ \A q \in Reqs : q # r => got'[q] = got[q]
      BY <3>1 DEF Goto, IInv, Types
    <3>p. ByPeerKey(Pair(r))' = ByPeerKey(Pair(r)) /\ Pair(r)' = Pair(r)
      BY <2>0, SamePair DEF ByPeerKey
    <3>3. OpAt(r)'
      BY <2>0, <3>2 DEF OpAt
    <3>4. CommitAt(r)'
      BY <2>1, <3>1, <3>2, <3>p DEF CommitAt
    <3>5. AcceptAt(r)'
      BY <2>0, <2>a, <3>1, <3>2, SamePair DEF AcceptAt
    <3>6. PICK y : y = <<"peer", Pair(r)>>
      OBVIOUS
    <3>7. FreeFor(r, y) /\ locks' = locks \cup {<<y, r>>} /\ "commit" \in Tx
      BY <3>1, <3>6 DEF Tx
    <3>. QED
      BY <1>k, <2>0, <3>1, <3>2, <3>3, <3>4, <3>5, <3>7
  <2>2. CASE ByPeerKey(Pair(r)) # {}
    <3>1. Goto(r, "again") /\ UNCHANGED <<got, locks>>
      BY <1>9, <2>2 DEF Create
    <3>2. pc'[r] = "again"
      BY <3>1 DEF Goto, IInv, Types
    <3>3. OpAt(r)' /\ CommitAt(r)'
      BY <2>0, <3>2 DEF OpAt, CommitAt
    <3>4. AcceptAt(r)'
      BY <2>0, <2>a, <3>1, <3>2, SamePair DEF AcceptAt
    <3>. QED
      BY <1>g, <2>0, <3>1, <3>3, <3>4 DEF PCs, Tx
  <2>. QED
    BY <2>1, <2>2
<1>10. ASSUME NEW r \in Reqs, Again(r) PROVE Good'
  <2>0. /\ pc[r] = "again" /\ UNCHANGED <<arg, status, friends, convs>>
        /\ arg[r].op \in {"accept", "open"}
    BY <1>10, <1>op DEF Again, OpAt
  <2>1. CASE arg[r].op = "accept"
    BY <1>10, <1>w, <2>0, <2>1 DEF Again
  <2>2. CASE arg[r].op # "accept"
    <3>1. PICK x \in ByPeerKey(Pair(r)), k \in {200, 500} :
             /\ got' = [got EXCEPT ![r] = x]
             /\ Answer(r, k) /\ states' = [states EXCEPT ![x] = states[x] \cup Pair(r)]
      BY <1>10, <2>2, Replies DEF Again
    <3>2. got'[r] = x /\ \A q \in Reqs : q # r => got'[q] = got[q]
      BY <3>1 DEF IInv, Types
    <3>p. ByPeerKey(Pair(r))' = ByPeerKey(Pair(r))
      BY <2>0, SamePair DEF ByPeerKey
    <3>3. \A c \in Reqs : states[c] \subseteq states'[c]
      BY <3>1 DEF IInv, Types
    <3>4. ChatAt(r)'
      BY <3>1, <3>2, <3>p DEF ChatAt
    <3>5. OutcomeAt(r)'
      BY <2>0, <2>2 DEF OutcomeAt
    <3>. QED
      BY <2>0, <3>1, <3>2, <3>3, <3>4, <3>5, AnswerKeeps
  <2>. QED
    BY <2>1, <2>2
<1>11. ASSUME NEW r \in Reqs, Commit(r) PROVE Good'
  BY <1>11, CommitKeeps
<1>12. ASSUME NEW r \in Reqs, Rollback(r) PROVE Good'
  BY <1>12, <1>w DEF Rollback
<1>13. CASE UNCHANGED vars
  <2>1. \A q : Pair(q)' = Pair(q) /\ Own(q)' = Own(q) /\ Id(q)' = Id(q)
    BY <1>13, SamePair DEF vars
  <2>2. \A x : ByPeerKey(x)' = ByPeerKey(x)
    BY <1>13, <2>1 DEF vars, ByPeerKey
  <2>3. RequestInv'
    BY <1>13, <2>1, <2>2 DEF vars, IInv, RequestInv, OpAt, DoneAt, AcceptAt, CommitAt, OutcomeAt, ChatAt
  <2>4. LockInv' /\ ConvInv' /\ FriendInv'
    BY <1>13, <2>1, <2>2 DEF vars, IInv, LockInv, ConvInv, FriendInv
  <2>. QED
    BY <2>3, <2>4
<1>. QED
  BY <1>1, <1>2, <1>3, <1>4, <1>5, <1>6, <1>7, <1>8, <1>9, <1>10, <1>11, <1>12, <1>13 DEF Next, Step, Finished

\* Every reachable state satisfies the inductive invariant.
LEMMA Invariant == Spec => []IInv
<1>1. Init => IInv
  <2>. SUFFICES ASSUME Init PROVE IInv
    OBVIOUS
  <2>1. Types
    BY ConstantsAssumption DEF Init, Types, PCs, None
  <2>2. RequestInv
    BY DEF Init, RequestInv, OpAt, DoneAt, AcceptAt, CommitAt, OutcomeAt, ChatAt, Tx, None
  <2>3. LockInv /\ ConvInv
    BY DEF Init, LockInv, ConvInv
  <2>4. FriendInv
    BY DEF Init, FriendInv
  <2>. QED
    BY <2>1, <2>2, <2>3, <2>4 DEF IInv
<1>2. IInv /\ [Next]_vars => IInv'
  BY TypesInductive, StepKeeps DEF IInv
<1>. QED
  BY <1>1, <1>2, PTL DEF Spec

\* The variables of friends and single chats have their types, and locks belong to
\* transactions that are open (addfriend.go, conversation.go).
THEOREM TypeCorrect == Spec => []TypeOK
<1>1. IInv => TypeOK
  BY DEF IInv, Types, LockInv, TypeOK, Tx
<1>. QED
  BY <1>1, Invariant, PTL

\* Accept and reject of an application never both succeed, and what is refused as
\* handled is handled (UpdateFriendApplyStatusTx).
THEOREM OutcomeIsOne == Spec => []OneOutcome
<1>1. IInv => OneOutcome
  BY DEF IInv, RequestInv, OutcomeAt, OneOutcome
<1>. QED
  BY <1>1, Invariant, PTL

\* Friends have a conversation, in the lists of both, and are the pairs with an
\* accepted application (AcceptApply's transaction).
THEOREM FriendsHaveChat == Spec => []FriendsCanChat
<1>1. IInv => FriendsCanChat
  <2>. SUFFICES ASSUME IInv PROVE FriendsCanChat
    OBVIOUS
  <2>1. ASSUME NEW u \in Users, NEW v \in ListFriends(u)
        PROVE  ConversationList(u) \cap ConversationList(v) \cap ByPeerKey({u, v}) # {}
    <3>1. PICK c \in convs : Pair(c) = {u, v}
      BY <2>1 DEF IInv, FriendInv, ListFriends, ByPeerKey
    <3>2. {u, v} \subseteq states[c]
      BY <3>1 DEF IInv, ConvInv
    <3>. QED
      BY <3>1, <3>2 DEF ConversationList, ByPeerKey
  <2>. QED
    BY <2>1 DEF IInv, FriendInv, FriendsCanChat
<1>. QED
  BY <1>1, Invariant, PTL

\* Whoever opens the chat of a pair, or accepts its application, is given the one
\* conversation of the pair, which both have in their lists (GetOrCreateC2CTx).
THEOREM ChatIsOne == Spec => []SameConversation
<1>1. ASSUME IInv, NEW r \in Reqs, arg[r].op \in {"accept", "open"}, code[r] = 200
      PROVE  ByPeerKey(Pair(r)) = {got[r]} /\ \A u \in Pair(r) : got[r] \in ConversationList(u)
  <2>1. got[r] \in convs /\ Pair(got[r]) = Pair(r)
    BY <1>1 DEF IInv, RequestInv, ChatAt, ByPeerKey
  <2>2. \A c \in convs : Pair(c) = Pair(r) => c = got[r]
    BY <1>1, <2>1 DEF IInv, ConvInv
  <2>3. Pair(r) \subseteq states[got[r]]
    BY <1>1, <2>1 DEF IInv, ConvInv
  <2>. QED
    BY <2>1, <2>2, <2>3 DEF ByPeerKey, ConversationList
<1>2. IInv => SameConversation
  BY <1>1 DEF SameConversation
<1>. QED
  BY <1>2, Invariant, PTL

=============================================================================
