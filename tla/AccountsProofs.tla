--------------------------- MODULE AccountsProofs ---------------------------
(***************************************************************************)
(* Theorems about Accounts for every set of addresses, any number of       *)
(* requests, any plans and any failures.                                   *)
(***************************************************************************)
EXTENDS Accounts, TLAPS

\* The types of the variables.
Types ==
  /\ pc \in [Reqs -> PCs]
  /\ arg \in [Reqs -> RequestType]
  /\ code \in [Reqs -> {None, 200, 400, 401, 404, 409, 429, 500, 502}]
  /\ access \in [Reqs -> Reqs \cup {None}]
  /\ secret \in [Reqs -> Reqs \cup {None}]
  /\ uid \in [Reqs -> Emails \cup {None}]
  /\ users \subseteq Emails
  /\ codes \in [Emails -> Reqs \cup {None}]
  /\ refresh \in [Reqs -> Emails \cup {None}]
  /\ session \in [Emails -> SUBSET Reqs]
  /\ blacklist \subseteq Reqs
  /\ late \subseteq {"setnx", "del", "set"} \X Reqs
  /\ mailed \in [Emails -> SUBSET Reqs]
  /\ expired \subseteq Reqs /\ hit \subseteq Reqs
  /\ past \in [Reqs -> SUBSET Reqs]

\* Which requests get where.
OpAt(r) ==
  /\ pc[r] \in {"reserve", "mail", "drop"} => Op(r) = "getcode"
  /\ pc[r] \in {"exists", "get", "email?", "insert", "del"} => Op(r) = "register"
  /\ pc[r] = "find" => Op(r) = "login"
  /\ pc[r] = "take" => Op(r) = "refresh"
  /\ pc[r] \in {"delete", "srem"} => Op(r) \in {"refresh", "logout"}
  /\ pc[r] \in {"set", "sadd"} => Op(r) \in {"login", "refresh"}
  /\ pc[r] \in {"parse", "blacklisted?"} => Op(r) \in {"logout", "me"}
  /\ pc[r] = "blacklist" => Op(r) = "logout"
  /\ pc[r] = "profile" => Op(r) = "me"

\* A request is answered when it is done; before it begins it has presented nothing.
DoneAt(r) ==
  /\ code[r] # None => pc[r] = "done"
  /\ pc[r] = "idle" => access[r] = None /\ secret[r] = None /\ past[r] = {}

\* What a request presents was given to a client, and a request that works with tokens
\* knows whose they are.
TokenAt(r) ==
  /\ Op(r) \in {"logout", "me"} /\ pc[r] # "idle" => access[r] \in Issued
  /\ Op(r) \notin {"logout", "me"} => access[r] = None
  /\ Op(r) = "refresh" /\ pc[r] # "idle" => secret[r] \in Issued
  /\ Op(r) = "register" /\ pc[r] # "idle" => secret[r] \in InMail
  /\ Op(r) = "logout" => secret[r] \in Issued \cup {None}
  /\ pc[r] \in {"delete", "srem"} => secret[r] # None
  /\ pc[r] \in {"blacklisted?", "delete", "srem", "set", "sadd", "blacklist", "profile"} =>
       uid[r] \in Emails
  /\ r \in Issued => uid[r] \in Emails

RequestInv == \A r \in Reqs : OpAt(r) /\ DoneAt(r) /\ TokenAt(r)

-----------------------------------------------------------------------------
(* Tokens *)

\* What a request presents was in use before it began: the logouts and refreshes it
\* knows of were answered.
PastAt(r) == \A l \in past[r] : Op(l) \in {"refresh", "logout"} /\ code[l] = 200

\* A logout that was answered has made its access token unusable, unless Redis failed.
LogoutAt(r) ==
  Op(r) = "logout" /\ code[r] = 200 /\ r \notin hit => access[r] \in blacklist \cup expired

\* A request that came later with that token is stopped.
StoppedAt(r) ==
  \A l \in past[r] \ hit :
    Op(l) = "logout" /\ access[r] = access[l] /\ r \notin hit
      => pc[r] \in {"parse", "blacklisted?"} \/ code[r] = 401 \/ access[r] \in expired

\* A refresh token is deleted before the request that presents it goes on, unless Redis failed
\* this request or the one that made the token.
SpentAt(r) ==
  Op(r) \in {"refresh", "logout"} /\ secret[r] # None /\ r \notin hit /\ secret[r] \notin hit
    /\ (pc[r] \in {"srem", "set", "sadd", "blacklist"} \/ code[r] = 200)
    => refresh[secret[r]] = None

\* A request that came later with that token gets nothing.
RefusedAt(r) ==
  \A l \in past[r] \ hit :
    Op(r) = "refresh" /\ secret[r] = secret[l] /\ secret[r] \notin hit
      => pc[r] = "take" \/ (pc[r] = "done" /\ code[r] # 200)

\* A refresh token exists from the SET of the request that makes it, for its user, and
\* is listed when it is issued, unless Redis failed.
ListedAt(t) ==
  /\ pc[t] \notin {"sadd", "done"} => refresh[t] = None
  /\ refresh[t] \in {None, uid[t]}
  /\ t \in Issued /\ refresh[t] # None /\ (\A r \in hit : r # t /\ secret[r] # t)
       => t \in session[uid[t]]

\* A copy of a SET can come late only when Redis failed its request, which is past its SET.
LateAt(t) == <<"set", t>> \in late => t \in hit /\ pc[t] \in {"sadd", "done"}

TokenInv ==
  \A r \in Reqs : /\ PastAt(r) /\ LogoutAt(r) /\ StoppedAt(r)
                  /\ LateAt(r) /\ SpentAt(r) /\ RefusedAt(r) /\ ListedAt(r)

-----------------------------------------------------------------------------
(* Codes *)

\* The key of an address holds a code that was made for it, its mailbox holds such codes.
KeysAt(e) ==
  /\ codes[e] # None => By(codes[e]) = e
  /\ \A c \in mailed[e] : By(c) = e

\* A request that registers presents a code of its address.
RegisterAt(r) ==
  pc[r] \in {"email?", "insert", "del"} \/ (Op(r) = "register" /\ code[r] = 200)
    => By(secret[r]) = By(r)

CodeInv ==
  /\ \A e \in Emails : KeysAt(e)
  /\ \A r \in Reqs : RegisterAt(r)

IInv == Types /\ RequestInv /\ TokenInv /\ CodeInv

-----------------------------------------------------------------------------
(* Types, and what a step leaves alone *)

\* What a request asks for is well-typed.
LEMMA Fields ==
  ASSUME Types, NEW r \in Reqs
  PROVE  Op(r) \in Ops /\ By(r) \in Emails /\ r # None
<1>1. arg[r] \in RequestType
  BY DEF Types
<1>. QED
  BY <1>1 DEF RequestType, Op, By, Reqs, None

\* The steps of a request that talk about e-mail codes.
CodeStep(r) ==
  \/ Reserve(r) \/ Send(r) \/ Drop(r) \/ Exists(r) \/ Compare(r) \/ CheckEmail(r)
  \/ Insert(r) \/ UseUp(r)

\* The steps about tokens.
TokenStep(r) ==
  \/ Find(r) \/ Take(r) \/ Delete(r) \/ SRem(r) \/ Set(r) \/ SAdd(r)
  \/ Parse(r) \/ CheckBlacklist(r) \/ Blacklist(r) \/ Profile(r)

\* What Redis and the clocks do.
StoreStep ==
  \/ \E t \in Reqs : \/ LateSetNX(t) \/ LateDel(t) \/ LateSet(t)
                     \/ ExpireRefresh(t) \/ ExpireAccess(t) \/ ExpireEntry(t)
  \/ \E e \in Emails : ExpireCode(e)

\* The kinds of steps.
LEMMA Kinds ==
  ASSUME [Next]_vars
  PROVE  \/ \E r \in Reqs : Begin(r) \/ CodeStep(r) \/ TokenStep(r) \/ DbError(r)
         \/ StoreStep
         \/ UNCHANGED vars
BY DEF Next, Step, CodeStep, TokenStep, StoreStep, Idle

\* A request changes its own state only, ends with its answer, and keeps what it presents.
LEMMA Own ==
  ASSUME Types, NEW r \in Reqs, Begin(r) \/ CodeStep(r) \/ TokenStep(r) \/ DbError(r)
  PROVE  /\ pc[r] # "done" /\ arg' = arg
         /\ \A q \in Reqs : q # r =>
              /\ pc'[q] = pc[q] /\ code'[q] = code[q] /\ access'[q] = access[q]
              /\ secret'[q] = secret[q] /\ uid'[q] = uid[q] /\ past'[q] = past[q]
         /\ pc'[r] # "idle" /\ (code'[r] # code[r] => pc'[r] = "done")
         /\ pc[r] # "idle" => access' = access /\ secret' = secret /\ past' = past
<1> USE DEF Types, request, redis, world, Goto, Answer, PCs
<1>1. CASE Begin(r)
  BY <1>1, Fields DEF Begin, Ops, Op
<1>2. CASE Reserve(r) \/ Send(r) \/ Drop(r) \/ Exists(r)
  BY <1>2 DEF Reserve, Send, Drop, Exists
<1>3. CASE Compare(r) \/ CheckEmail(r) \/ Insert(r) \/ UseUp(r)
  BY <1>3 DEF Compare, CheckEmail, Insert, UseUp
<1>4. CASE Find(r) \/ Take(r) \/ Delete(r)
  BY <1>4 DEF Find, Take, Delete
<1>5. CASE SRem(r) \/ Set(r) \/ SAdd(r)
  BY <1>5 DEF SRem, Set, SAdd
<1>6. CASE Parse(r) \/ CheckBlacklist(r) \/ Blacklist(r) \/ Profile(r)
  BY <1>6 DEF Parse, CheckBlacklist, Blacklist, Profile
<1>7. CASE DbError(r)
  BY <1>7 DEF DbError
<1>. QED
  BY <1>1, <1>2, <1>3, <1>4, <1>5, <1>6, <1>7 DEF CodeStep, TokenStep

\* These change what Redis holds only, and the clocks.
LEMMA OnlyTime ==
  ASSUME StoreStep
  PROVE  UNCHANGED <<pc, code, request, uid, users, session, mailed, hit>>
BY DEF StoreStep, LateSetNX, LateDel, LateSet, ExpireRefresh,
     ExpireAccess, ExpireEntry, ExpireCode, redis, world

\* Redis failures, mails, users and expiries are not undone, nor is an answer.
LEMMA Forward ==
  ASSUME Types, RequestInv, [Next]_vars
  PROVE  /\ arg' = arg /\ hit \subseteq hit' /\ expired \subseteq expired' /\ users \subseteq users'
         /\ \A e \in Emails : mailed[e] \subseteq mailed'[e]
         /\ \A q \in Reqs : pc[q] = "done" =>
              pc'[q] = "done" /\ code'[q] = code[q] /\ uid'[q] = uid[q]
         /\ \A q \in Reqs : pc[q] # "idle" =>
              /\ access'[q] = access[q] /\ secret'[q] = secret[q] /\ past'[q] = past[q]
              /\ pc'[q] # "idle"
         /\ Issued \subseteq Issued' /\ InMail \subseteq InMail'
<1>1. /\ hit \subseteq hit' /\ expired \subseteq expired' /\ users \subseteq users'
      /\ \A e \in Emails : mailed[e] \subseteq mailed'[e]
  <2> USE DEF Types, request, redis, world, Works, Meets, Fails, Lingers
  <2>1. ASSUME NEW r \in Reqs, Begin(r) \/ DbError(r) PROVE <1>1!:
    BY <2>1 DEF Begin, DbError
  <2>2. ASSUME NEW r \in Reqs, CodeStep(r) PROVE <1>1!:
    BY <2>2, Fields DEF CodeStep, Reserve, Send, Drop, Exists, Compare, CheckEmail, Insert, UseUp
  <2>3. ASSUME NEW r \in Reqs, TokenStep(r) PROVE <1>1!:
    BY <2>3 DEF TokenStep, Find, Take, Delete, SRem, Set, SAdd, Parse, CheckBlacklist, Blacklist,
                Profile
  <2>4. CASE StoreStep
    BY <2>4 DEF StoreStep, LateSetNX, LateDel, LateSet, ExpireRefresh,
     ExpireAccess, ExpireEntry, ExpireCode
  <2>5. CASE UNCHANGED vars
    BY <2>5 DEF vars
  <2>. QED
    BY <2>1, <2>2, <2>3, <2>4, <2>5, Kinds
<1>2. /\ arg' = arg
      /\ \A q \in Reqs : pc[q] = "done" =>
           pc'[q] = "done" /\ code'[q] = code[q] /\ uid'[q] = uid[q]
      /\ \A q \in Reqs : pc[q] # "idle" =>
           /\ access'[q] = access[q] /\ secret'[q] = secret[q] /\ past'[q] = past[q]
           /\ pc'[q] # "idle"
  <2>1. ASSUME NEW r \in Reqs, Begin(r) \/ CodeStep(r) \/ TokenStep(r) \/ DbError(r) PROVE <1>2!:
    BY <2>1, Own
  <2>2. CASE StoreStep
    BY <2>2, OnlyTime DEF request
  <2>3. CASE UNCHANGED vars
    BY <2>3 DEF vars, request
  <2>. QED
    BY <2>1, <2>2, <2>3, Kinds
<1>3. Issued \subseteq Issued'
  <2>1. \A q \in Reqs : code[q] = 200 => pc[q] = "done"
    BY DEF RequestInv, DoneAt, None
  <2>. QED
    BY <1>2, <2>1 DEF Issued, Op
<1>4. InMail \subseteq InMail'
  BY <1>1 DEF InMail
<1>. QED
  BY <1>1, <1>2, <1>3, <1>4

\* Every variable keeps its type.
LEMMA TypesInductive ==
  ASSUME Types, RequestInv, [Next]_vars
  PROVE  Types'
<1> USE DEF request, redis, world, Works, Meets, Fails, Lingers, Goto, Answer, PCs
<1>0. Issued \subseteq Reqs /\ InMail \subseteq Reqs
  BY DEF Types, Issued, InMail
<1>1. ASSUME NEW r \in Reqs, Begin(r) PROVE Types'
  <2>1. pc' \in [Reqs -> PCs] /\ code' = code
    BY <1>1, Fields DEF Begin, Types, Ops, Op
  <2>2. access' \in [Reqs -> Reqs \cup {None}] /\ secret' \in [Reqs -> Reqs \cup {None}]
    BY <1>1, <1>0, Fields DEF Begin, Types, Ops, Op
  <2>3. past' \in [Reqs -> SUBSET Reqs]
    BY <1>1 DEF Begin, Types
  <2>. QED
    BY <1>1, <2>1, <2>2, <2>3 DEF Begin, Types
<1>2. ASSUME NEW r \in Reqs, CodeStep(r) PROVE Types'
  <2>1. CASE Reserve(r) \/ Send(r) \/ Drop(r)
    BY <2>1, Fields DEF Reserve, Send, Drop, Types
  <2>2. CASE Exists(r) \/ Compare(r) \/ CheckEmail(r)
    BY <2>2, Fields DEF Exists, Compare, CheckEmail, Types
  <2>3. CASE Insert(r) \/ UseUp(r)
    BY <2>3, Fields DEF Insert, UseUp, Types
  <2>. QED
    BY <1>2, <2>1, <2>2, <2>3 DEF CodeStep
<1>3. ASSUME NEW r \in Reqs, TokenStep(r) PROVE Types'
  <2>0. OpAt(r) /\ TokenAt(r)
    BY DEF RequestInv
  <2>1. CASE Find(r) \/ Take(r)
    <3>1. pc[r] = "take" => secret[r] \in Reqs
      BY <1>0, <2>0 DEF OpAt, TokenAt
    <3>. QED
      BY <2>1, <3>1, Fields DEF Find, Take, Types
  <2>2. CASE Delete(r) \/ SRem(r)
    BY <2>2, Fields DEF Delete, SRem, Types
  <2>3. CASE Set(r)
    <3>1. UNCHANGED <<arg, access, secret, past, uid, users, codes, session, blacklist, mailed, expired>>
      BY <2>3 DEF Set
    <3>2. pc' \in [Reqs -> PCs] /\ code' \in [Reqs -> {None, 200, 400, 401, 404, 409, 429, 500, 502}]
      BY <2>3 DEF Set, Types
    <3>3. hit' \subseteq Reqs /\ late' \subseteq {"setnx", "del", "set"} \X Reqs
      BY <2>3 DEF Set, Types
    <3>4. uid[r] \in Emails
      BY <2>0, <2>3 DEF Set, TokenAt
    <3>5. refresh' \in [Reqs -> Emails \cup {None}]
      BY <2>3, <3>4 DEF Set, Types
    <3>. QED
      BY <3>1, <3>2, <3>3, <3>5 DEF Types
  <2>31. CASE SAdd(r)
    BY <2>31, Fields DEF SAdd, Types
  <2>4. CASE Parse(r)
    <3>1. access[r] \in Reqs
      BY <1>0, <2>0, <2>4 DEF OpAt, TokenAt, Parse
    <3>. QED
      BY <2>4, <3>1, Fields DEF Parse, Types
  <2>5. CASE CheckBlacklist(r) \/ Profile(r)
    BY <2>5, Fields DEF CheckBlacklist, Profile, Types
  <2>6. CASE Blacklist(r)
    <3>1. access[r] \in Reqs
      BY <1>0, <2>0, <2>6 DEF OpAt, TokenAt, Blacklist
    <3>. QED
      BY <2>6, <3>1, Fields DEF Blacklist, Types
  <2>. QED
    BY <1>3, <2>1, <2>2, <2>3, <2>31, <2>4, <2>5, <2>6 DEF TokenStep
<1>4. ASSUME NEW r \in Reqs, DbError(r) PROVE Types'
  BY <1>4 DEF DbError, Types
<1>5. CASE StoreStep
  <2>0. ASSUME NEW t \in Reqs, LateSetNX(t) \/ LateDel(t) \/ LateSet(t) PROVE Types'
    <3>1. late' \subseteq {"setnx", "del", "set"} \X Reqs
      BY <2>0 DEF LateSetNX, LateDel, LateSet, Types
    <3>2. codes' \in [Emails -> Reqs \cup {None}] /\ refresh' \in [Reqs -> Emails \cup {None}]
      BY <2>0, Fields DEF LateSetNX, LateDel, LateSet, Types
    <3>. QED
      BY <2>0, <3>1, <3>2 DEF LateSetNX, LateDel, LateSet, Types
  <2>1. ASSUME NEW t \in Reqs, ExpireRefresh(t) \/ ExpireAccess(t) \/ ExpireEntry(t) PROVE Types'
    BY <2>1, <1>0 DEF ExpireRefresh, ExpireAccess, ExpireEntry, Types
  <2>2. ASSUME NEW e \in Emails, ExpireCode(e) PROVE Types'
    BY <2>2 DEF ExpireCode, Types
  <2>. QED
    BY <1>5, <2>0, <2>1, <2>2 DEF StoreStep
<1>6. CASE UNCHANGED vars
  BY <1>6 DEF vars, Types
<1>. QED
  BY <1>1, <1>2, <1>3, <1>4, <1>5, <1>6, Kinds

\* Requests keep to their course, and know whose tokens they work with.
LEMMA RequestInductive ==
  ASSUME Types, RequestInv, [Next]_vars
  PROVE  RequestInv'
<1> SUFFICES ASSUME NEW q \in Reqs
             PROVE  (OpAt(q) /\ DoneAt(q) /\ TokenAt(q))'
  BY DEF RequestInv
<1>0. OpAt(q) /\ DoneAt(q) /\ TokenAt(q)
  BY DEF RequestInv
<1>1. Issued \subseteq Issued' /\ InMail \subseteq InMail' /\ arg' = arg
  BY Forward
<1>2. CASE /\ pc'[q] = pc[q] /\ code'[q] = code[q] /\ access'[q] = access[q]
           /\ secret'[q] = secret[q] /\ uid'[q] = uid[q] /\ past'[q] = past[q]
  BY <1>0, <1>1, <1>2 DEF OpAt, DoneAt, TokenAt, Op, Issued
<1>3. CASE Begin(q)
  <2>1. Issued' = Issued /\ InMail' = InMail
    BY <1>3, Fields DEF Begin, Issued, InMail, Goto, world, Op, request, Ops
  <2>2. OpAt(q)' /\ DoneAt(q)'
    BY <1>0, <1>3, Fields DEF Begin, Goto, Op, Ops, Types, OpAt, DoneAt
  <2>3. TokenAt(q)'
    BY <1>0, <1>3, <2>1, Fields DEF Begin, Goto, Op, Ops, Types, TokenAt, DoneAt
  <2>. QED
    BY <2>2, <2>3
<1>4. CASE CodeStep(q) \/ TokenStep(q) \/ DbError(q)
  <2> USE DEF Types, request, redis, world, Goto, Answer, Works, Meets, Fails, Lingers
  <2>1. access' = access /\ secret' = secret /\ past' = past /\ pc[q] # "idle"
    <3>1. pc[q] # "idle"
      BY <1>4 DEF CodeStep, TokenStep, DbError, Reserve, Send, Drop, Exists, Compare, CheckEmail,
                  Insert, UseUp, Find, Take, Delete, SRem, Set, SAdd, Parse, CheckBlacklist,
                  Blacklist, Profile
    <3>. QED
      BY <1>4, <3>1, Own
  <2>2. OpAt(q)' /\ DoneAt(q)'
    <3>0. CASE DbError(q)
      BY <1>0, <3>0, <1>1 DEF DbError, OpAt, DoneAt, Op
    <3>1. CASE Reserve(q) \/ Send(q) \/ Drop(q) \/ Exists(q)
      BY <1>0, <1>1, <3>1 DEF OpAt, DoneAt, Op, Reserve, Send, Drop, Exists
    <3>2. CASE Compare(q) \/ CheckEmail(q) \/ Insert(q) \/ UseUp(q)
      BY <1>0, <1>1, <3>2 DEF OpAt, DoneAt, Op, Compare, CheckEmail, Insert, UseUp
    <3>3. CASE Find(q) \/ Take(q) \/ Delete(q) \/ SRem(q)
      BY <1>0, <1>1, <3>3 DEF OpAt, DoneAt, Op, Find, Take, Delete, SRem
    <3>4. CASE Set(q) \/ SAdd(q) \/ Parse(q)
      BY <1>0, <1>1, <3>4 DEF OpAt, DoneAt, Op, Set, SAdd, Parse
    <3>5. CASE CheckBlacklist(q) \/ Blacklist(q) \/ Profile(q)
      BY <1>0, <1>1, <3>5 DEF OpAt, DoneAt, Op, CheckBlacklist, Blacklist, Profile
    <3>. QED
      BY <1>4, <3>0, <3>1, <3>2, <3>3, <3>4, <3>5 DEF CodeStep, TokenStep
  <2>3. /\ pc'[q] \in {"delete", "srem"} => secret[q] # None
        /\ pc'[q] \in {"blacklisted?", "delete", "srem", "set", "sadd", "blacklist", "profile"} =>
             uid'[q] \in Emails
        /\ q \in Issued' => uid'[q] \in Emails
    <3> USE DEF OpAt, DoneAt, TokenAt, Issued, Op
    <3>0. CASE DbError(q)
      BY <1>0, <1>1, <3>0 DEF DbError
    <3>1. CASE CodeStep(q)
      BY <1>0, <1>1, <3>1 DEF CodeStep, Reserve, Send, Drop, Exists, Compare, CheckEmail,
                              Insert, UseUp
    <3>2. CASE Find(q)
      BY <1>0, <1>1, <3>2, Fields DEF Find
    <3>3. CASE Take(q)
      <4>1. secret[q] \in Reqs /\ secret[q] # None
        BY <1>0, <3>3, Fields DEF Take
      <4>. QED
        BY <1>0, <1>1, <3>3, <4>1 DEF Take
    <3>4. CASE Delete(q) \/ SRem(q)
      BY <1>0, <1>1, <3>4 DEF Delete, SRem
    <3>5. CASE Set(q) \/ SAdd(q)
      BY <1>0, <1>1, <3>5 DEF Set, SAdd
    <3>6. CASE Parse(q)
      <4>1. access[q] \in Reqs /\ TokenAt(access[q]) /\ access[q] \in Issued
        BY <1>0, <3>6 DEF Parse, RequestInv
      <4>2. uid[access[q]] \in Emails
        BY <4>1
      <4>. QED
        BY <1>0, <1>1, <3>6, <4>2 DEF Parse
    <3>7. CASE CheckBlacklist(q) \/ Blacklist(q) \/ Profile(q)
      BY <1>0, <1>1, <3>7 DEF CheckBlacklist, Blacklist, Profile
    <3>. QED
      BY <1>4, <3>0, <3>1, <3>2, <3>3, <3>4, <3>5, <3>6, <3>7 DEF CodeStep, TokenStep
  <2>. QED
    BY <1>0, <1>1, <2>1, <2>2, <2>3 DEF TokenAt, Op
<1>5. CASE StoreStep
  BY <1>2, <1>5, OnlyTime DEF request
<1>6. CASE UNCHANGED vars
  BY <1>2, <1>6 DEF vars, request
<1>. QED
  BY <1>2, <1>3, <1>4, <1>5, <1>6, Kinds, Own

-----------------------------------------------------------------------------
(* Tokens *)

\* A request that was answered 200 is done, and presents what it presented.
LEMMA Answered ==
  ASSUME Types, RequestInv, [Next]_vars, NEW l \in Reqs, code[l] = 200
  PROVE  /\ pc[l] = "done" /\ pc'[l] = "done" /\ code'[l] = 200 /\ Op(l)' = Op(l)
         /\ access'[l] = access[l] /\ secret'[l] = secret[l]
<1>1. pc[l] = "done"
  BY DEF RequestInv, DoneAt, None
<1>. QED
  BY <1>1, Forward DEF Op

\* Where requests are answered 200.
LEMMA Ends ==
  ASSUME Types, [Next]_vars, NEW q \in Reqs, code'[q] = 200, code[q] # 200
  PROVE  Send(q) \/ UseUp(q) \/ SAdd(q) \/ Blacklist(q) \/ Profile(q)
<1> USE DEF Types, request, redis, world, Goto, Answer, Works, Meets, Fails, Lingers
<1>1. ASSUME NEW r \in Reqs, Begin(r) \/ DbError(r) PROVE FALSE
  <2>1. CASE Begin(r)
    BY <2>1, Fields DEF Begin, Op, Ops
  <2>2. CASE DbError(r)
    BY <2>2 DEF DbError
  <2>. QED
    BY <1>1, <2>1, <2>2
<1>2. ASSUME NEW r \in Reqs, Reserve(r) \/ Drop(r) \/ Exists(r) \/ Compare(r) \/ CheckEmail(r) \/ Insert(r)
      PROVE  FALSE
  BY <1>2 DEF Reserve, Drop, Exists, Compare, CheckEmail, Insert
<1>3. ASSUME NEW r \in Reqs, Find(r) \/ Take(r) \/ Delete(r) \/ SRem(r) \/ Set(r)
      PROVE  FALSE
  BY <1>3 DEF Find, Take, Delete, SRem, Set
<1>4. ASSUME NEW r \in Reqs, Parse(r) \/ CheckBlacklist(r) PROVE FALSE
  BY <1>4 DEF Parse, CheckBlacklist
<1>5. ASSUME NEW r \in Reqs, Send(r) \/ UseUp(r) \/ SAdd(r) \/ Blacklist(r) \/ Profile(r) PROVE r = q
  BY <1>5, Own DEF CodeStep, TokenStep
<1>6. CASE StoreStep
  BY <1>6, OnlyTime
<1>7. CASE UNCHANGED vars
  BY <1>7 DEF vars
<1>. QED
  BY <1>1, <1>2, <1>3, <1>4, <1>5, <1>6, <1>7, Kinds DEF CodeStep, TokenStep

\* What JWTAuth turns away stays turned away.
LEMMA BarredStays ==
  ASSUME Types, [Next]_vars
  PROVE  blacklist \cup expired \subseteq (blacklist \cup expired)'
<1> USE DEF Types, request, redis, world
<1>1. ASSUME NEW r \in Reqs, Begin(r) \/ DbError(r) PROVE blacklist' = blacklist /\ expired' = expired
  BY <1>1 DEF Begin, DbError
<1>2. ASSUME NEW r \in Reqs, CodeStep(r) PROVE blacklist' = blacklist /\ expired' = expired
  BY <1>2 DEF CodeStep, Reserve, Send, Drop, Exists, Compare, CheckEmail, Insert, UseUp
<1>3. ASSUME NEW r \in Reqs, TokenStep(r) PROVE blacklist \subseteq blacklist' /\ expired' = expired
  BY <1>3 DEF TokenStep, Find, Take, Delete, SRem, Set, SAdd, Parse, CheckBlacklist, Blacklist, Profile
<1>4. ASSUME NEW t \in Reqs, LateSetNX(t) \/ LateDel(t) \/ LateSet(t) \/ ExpireRefresh(t)
      PROVE  blacklist' = blacklist /\ expired' = expired
  BY <1>4 DEF LateSetNX, LateDel, LateSet, ExpireRefresh
<1>5. ASSUME NEW t \in Reqs, ExpireAccess(t) PROVE blacklist' = blacklist /\ expired \subseteq expired'
  BY <1>5 DEF ExpireAccess
<1>6. ASSUME NEW t \in Reqs, ExpireEntry(t)
      PROVE  t \in expired /\ blacklist' = blacklist \ {t} /\ expired' = expired
  BY <1>6 DEF ExpireEntry
<1>7. ASSUME NEW e \in Emails, ExpireCode(e) PROVE blacklist' = blacklist /\ expired' = expired
  BY <1>7 DEF ExpireCode
<1>8. CASE UNCHANGED vars
  BY <1>8 DEF vars
<1>. QED
  BY <1>1, <1>2, <1>3, <1>4, <1>5, <1>6, <1>7, <1>8, Kinds DEF StoreStep

\* Only its own request sets a refresh token, by its SET or a late copy of this.
LEMMA OnlySet ==
  ASSUME Types, [Next]_vars, NEW t \in Reqs, refresh'[t] # None
  PROVE  \/ refresh'[t] = refresh[t]
         \/ Set(t) /\ refresh'[t] = uid[t]
         \/ <<"set", t>> \in late /\ refresh'[t] = uid[t] /\ UNCHANGED <<pc, uid, hit>>
<1> USE DEF Types, request, redis, world
<1>1. ASSUME NEW r \in Reqs, Begin(r) \/ DbError(r) PROVE refresh' = refresh
  BY <1>1 DEF Begin, DbError
<1>2. ASSUME NEW r \in Reqs, CodeStep(r) PROVE refresh' = refresh
  BY <1>2 DEF CodeStep, Reserve, Send, Drop, Exists, Compare, CheckEmail, Insert, UseUp
<1>3. ASSUME NEW r \in Reqs, Delete(r) PROVE refresh'[t] = refresh[t]
  BY <1>3 DEF Delete
<1>4. ASSUME NEW r \in Reqs, Set(r)
      PROVE  refresh'[t] = refresh[t] \/ (r = t /\ refresh'[t] = uid[t])
  BY <1>4 DEF Set
<1>5. ASSUME NEW r \in Reqs, Find(r) \/ Take(r) \/ SRem(r) \/ SAdd(r) \/ Parse(r)
                             \/ CheckBlacklist(r) \/ Blacklist(r) \/ Profile(r)
      PROVE  refresh' = refresh
  BY <1>5 DEF Find, Take, SRem, SAdd, Parse, CheckBlacklist, Blacklist, Profile
<1>6. ASSUME NEW r \in Reqs, LateSet(r)
      PROVE  \/ refresh'[t] = refresh[t]
             \/ <<"set", t>> \in late /\ refresh'[t] = uid[t] /\ UNCHANGED <<pc, uid, hit>>
  BY <1>6 DEF LateSet
<1>7. ASSUME NEW r \in Reqs, ExpireRefresh(r) PROVE refresh'[t] = refresh[t]
  BY <1>7 DEF ExpireRefresh
<1>8. ASSUME NEW r \in Reqs, LateSetNX(r) \/ LateDel(r) \/ ExpireAccess(r) \/ ExpireEntry(r)
      PROVE  refresh' = refresh
  BY <1>8 DEF LateSetNX, LateDel, ExpireAccess, ExpireEntry
<1>9. ASSUME NEW e \in Emails, ExpireCode(e) PROVE refresh' = refresh
  BY <1>9 DEF ExpireCode
<1>10. CASE UNCHANGED vars
  BY <1>10 DEF vars
<1>. QED
  BY <1>1, <1>2, <1>3, <1>4, <1>5, <1>6, <1>7, <1>8, <1>9, <1>10, Kinds DEF TokenStep, StoreStep

\* Only a request that lets go of a refresh token takes it from its list.
LEMMA OnlyUnlisted ==
  ASSUME Types, [Next]_vars, NEW e \in Emails, NEW t \in session[e], t \notin session'[e]
  PROVE  \E r \in Reqs : SRem(r) /\ secret[r] = t
<1> USE DEF Types, request, redis, world
<1>1. ASSUME NEW r \in Reqs, Begin(r) \/ DbError(r) PROVE FALSE
  BY <1>1 DEF Begin, DbError
<1>2. ASSUME NEW r \in Reqs, CodeStep(r) PROVE FALSE
  BY <1>2 DEF CodeStep, Reserve, Send, Drop, Exists, Compare, CheckEmail, Insert, UseUp
<1>3. ASSUME NEW r \in Reqs, SRem(r) PROVE secret[r] = t
  BY <1>3 DEF SRem
<1>4. ASSUME NEW r \in Reqs, SAdd(r) PROVE FALSE
  BY <1>4 DEF SAdd
<1>5. ASSUME NEW r \in Reqs, Find(r) \/ Take(r) \/ Delete(r) \/ Set(r) \/ Parse(r)
                             \/ CheckBlacklist(r) \/ Blacklist(r) \/ Profile(r)
      PROVE  FALSE
  BY <1>5 DEF Find, Take, Delete, Set, Parse, CheckBlacklist, Blacklist, Profile
<1>6. CASE StoreStep
  BY <1>6 DEF StoreStep, LateSetNX, LateDel, LateSet, ExpireRefresh,
     ExpireAccess, ExpireEntry, ExpireCode
<1>7. CASE UNCHANGED vars
  BY <1>7 DEF vars
<1>. QED
  BY <1>1, <1>2, <1>3, <1>4, <1>5, <1>6, <1>7, Kinds DEF TokenStep

\* A later request knows requests that were answered.
LEMMA PastInductive ==
  ASSUME Types, RequestInv, TokenInv, [Next]_vars, NEW q \in Reqs
  PROVE  /\ PastAt(q)'
         /\ Begin(q) \/ past'[q] = past[q]
<1>1. PastAt(q)
  BY DEF TokenInv
<1>2. Begin(q) \/ past'[q] = past[q]
  <2>1. ASSUME NEW r \in Reqs, Begin(r) \/ CodeStep(r) \/ TokenStep(r) \/ DbError(r), ~Begin(q)
        PROVE  past'[q] = past[q]
    <3>1. CASE Begin(r)
      BY <2>1, <3>1, Own
    <3>2. CASE CodeStep(r) \/ TokenStep(r) \/ DbError(r)
      BY <3>2 DEF request, CodeStep, TokenStep, DbError, Reserve, Send, Drop, Exists, Compare,
                  CheckEmail, Insert, UseUp, Find, Take, Delete, SRem, Set, SAdd, Parse,
                  CheckBlacklist, Blacklist, Profile
    <3>. QED
      BY <2>1, <3>1, <3>2
  <2>2. CASE StoreStep
    BY <2>2, OnlyTime DEF request
  <2>3. CASE UNCHANGED vars
    BY <2>3 DEF vars, request
  <2>. QED
    BY <2>1, <2>2, <2>3, Kinds
<1>3. \A l \in past'[q] : l \in Reqs /\ Op(l) \in {"refresh", "logout"} /\ code[l] = 200
  <2>1. CASE Begin(q)
    BY <2>1 DEF Begin, Types
  <2>2. CASE past'[q] = past[q]
    BY <2>2, <1>1 DEF PastAt, Types
  <2>. QED
    BY <2>1, <2>2, <1>2
<1>4. PastAt(q)'
  BY <1>3, Answered DEF PastAt
<1>. QED
  BY <1>2, <1>4

\* A logout that is answered has blacklisted its token.
LEMMA LogoutInductive ==
  ASSUME Types, RequestInv, TokenInv, [Next]_vars, NEW q \in Reqs
  PROVE  LogoutAt(q)'
<1> SUFFICES ASSUME Op(q) = "logout", code'[q] = 200, q \notin hit'
             PROVE  access'[q] \in blacklist' \cup expired'
  BY Forward DEF LogoutAt, Op
<1>1. q \notin hit
  BY Forward
<1>2. CASE code[q] = 200
  <2>1. access[q] \in blacklist \cup expired
    BY <1>1, <1>2 DEF TokenInv, LogoutAt
  <2>. QED
    BY <2>1, <1>2, Answered, BarredStays
<1>3. CASE code[q] # 200
  <2>1. Blacklist(q)
    <3>1. OpAt(q)
      BY DEF RequestInv
    <3>. QED
      BY <1>3, <3>1, Ends DEF OpAt, Send, UseUp, SAdd, Profile
  <2>. QED
    BY <2>1 DEF Blacklist, Works, Meets, Fails, Lingers, world, request
<1>. QED
  BY <1>2, <1>3

\* A request with the access token of an earlier logout is stopped.
LEMMA StoppedInductive ==
  ASSUME Types, RequestInv, TokenInv, [Next]_vars, NEW q \in Reqs
  PROVE  StoppedAt(q)'
<1> SUFFICES ASSUME NEW l \in past'[q], l \notin hit', Op(l) = "logout",
                    access'[q] = access'[l], q \notin hit'
             PROVE  \/ pc'[q] \in {"parse", "blacklisted?"} \/ code'[q] = 401
                    \/ access'[q] \in expired'
  BY Forward DEF StoppedAt, Op
<1>0. q \notin hit /\ l \notin hit /\ OpAt(q) /\ DoneAt(q) /\ TokenAt(q)
  BY Forward DEF RequestInv
<1>1. /\ l \in Reqs /\ code[l] = 200 /\ pc[l] = "done" /\ access'[l] = access[l]
      /\ access[l] \in Issued /\ access[l] \in blacklist \cup expired
  <2>1. PastAt(q) /\ (Begin(q) \/ past'[q] = past[q])
    BY PastInductive DEF TokenInv
  <2>2. l \in Reqs /\ code[l] = 200
    BY <2>1 DEF Begin, PastAt, Types, TokenInv
  <2>3. pc[l] = "done" /\ access'[l] = access[l]
    BY <2>2, Answered
  <2>4. access[l] \in Issued
    BY <2>2, <2>3 DEF RequestInv, TokenAt
  <2>5. access[l] \in blacklist \cup expired
    BY <1>0, <2>2 DEF TokenInv, LogoutAt
  <2>. QED
    BY <2>2, <2>3, <2>4, <2>5
<1>2. CASE Begin(q)
  <2>1. CASE Op(q) \in {"logout", "me"}
    BY <1>2, <2>1 DEF Begin, Goto, Types
  <2>2. CASE Op(q) \notin {"logout", "me"}
    <3>1. access[q] = None /\ access'[q] = access[q]
      BY <1>0, <1>2, <2>2, Fields DEF Begin, TokenAt, Ops
    <3>2. access[l] # None
      BY <1>1, Fields DEF Issued
    <3>. QED
      BY <3>1, <3>2, <1>1
  <2>. QED
    BY <2>1, <2>2
<1>3. CASE ~Begin(q)
  <2>1. l \in past[q] /\ access'[q] = access[q]
    <3>1. l \in past[q]
      BY <1>3, PastInductive
    <3>2. pc[q] # "idle"
      BY <1>0, <3>1 DEF DoneAt
    <3>. QED
      BY <3>1, <3>2, Forward
  <2>2. pc[q] \in {"parse", "blacklisted?"} \/ code[q] = 401 \/ access[q] \in expired
    BY <1>0, <1>1, <2>1 DEF TokenInv, StoppedAt
  <2>3. CASE access[q] \in expired
    BY <2>1, <2>3, Forward
  <2>4. CASE code[q] = 401
    BY <1>0, <2>4, Forward DEF DoneAt, None
  <2>5. CASE pc[q] \in {"parse", "blacklisted?"} /\ access[q] \notin expired
    <3> USE DEF Types, Goto, Answer, Works, Meets, Fails, Lingers
    <3>1. CASE Parse(q)
      BY <2>5, <3>1 DEF Parse
    <3>2. CASE CheckBlacklist(q)
      BY <1>1, <2>1, <2>5, <3>2 DEF CheckBlacklist
    <3>3. CASE pc'[q] = pc[q]
      BY <2>5, <3>3
    <3>4. ASSUME CodeStep(q) \/ TokenStep(q) \/ DbError(q) PROVE Parse(q) \/ CheckBlacklist(q)
      BY <2>5, <3>4 DEF CodeStep, TokenStep, DbError, Reserve, Send, Drop, Exists, Compare,
                    CheckEmail, Insert, UseUp, Find, Take, Delete, SRem, Set, SAdd, Blacklist, Profile
    <3>5. CASE StoreStep \/ UNCHANGED vars
      BY <3>3, <3>5, OnlyTime DEF vars
    <3>. QED
      BY <1>3, <3>1, <3>2, <3>3, <3>4, <3>5, Kinds, Own
  <2>. QED
    BY <2>2, <2>3, <2>4, <2>5
<1>. QED
  BY <1>2, <1>3

\* Who presents a refresh token that was issued does not make it.
LEMMA NotSetAgain ==
  ASSUME Types, RequestInv, NEW q \in Reqs, Op(q) \in {"refresh", "logout"}, secret[q] # None,
         pc[q] # "idle"
  PROVE  secret[q] \in Reqs /\ pc[secret[q]] = "done"
<1>1. secret[q] \in Issued
  BY DEF RequestInv, TokenAt
<1>. QED
  BY <1>1 DEF Issued, RequestInv, DoneAt, None

\* A refresh token is gone once the request that spends it goes on.
LEMMA SpentInductive ==
  ASSUME Types, RequestInv, TokenInv, [Next]_vars, NEW q \in Reqs
  PROVE  SpentAt(q)'
<1>0. arg' = arg /\ hit \subseteq hit'
  BY Forward
<1>00. RequestInv' /\ Types'
  BY RequestInductive, TypesInductive
<1> SUFFICES ASSUME Op(q) \in {"refresh", "logout"}, secret'[q] # None, q \notin hit',
                    secret'[q] \notin hit',
                    pc'[q] \in {"srem", "set", "sadd", "blacklist"} \/ code'[q] = 200
             PROVE  refresh'[secret'[q]] = None
  BY <1>0 DEF SpentAt, Op
<1>1. q \notin hit /\ OpAt(q) /\ DoneAt(q) /\ TokenAt(q) /\ SpentAt(q)
  BY Forward DEF RequestInv, TokenInv
<1>2. pc[q] # "idle" /\ secret'[q] = secret[q]
  <2>1. pc[q] # "idle"
    <3>1. ASSUME Begin(q) PROVE FALSE
      BY <3>1, Fields, <1>1 DEF Begin, Goto, Types, Op, Ops, DoneAt, None
    <3>2. ASSUME pc[q] = "idle" PROVE Begin(q) \/ (pc'[q] = pc[q] /\ code'[q] = code[q])
      <4>1. ASSUME CodeStep(q) \/ TokenStep(q) \/ DbError(q) PROVE FALSE
        BY <3>2, <4>1 DEF CodeStep, TokenStep, DbError, Reserve, Send, Drop, Exists, Compare,
                          CheckEmail, Insert, UseUp, Find, Take, Delete, SRem, Set, SAdd, Parse,
                          CheckBlacklist, Blacklist, Profile
      <4>2. CASE StoreStep \/ UNCHANGED vars
        BY <4>2, OnlyTime DEF vars
      <4>. QED
        BY <4>1, <4>2, Kinds, Own
    <3>. QED
      BY <3>1, <3>2, <1>1 DEF DoneAt, None
  <2>. QED
    BY <2>1, Forward
<1>3. secret[q] \in Reqs /\ pc[secret[q]] = "done"
  BY <1>2, NotSetAgain
<1>4. ~Set(secret[q])
  BY <1>3 DEF Set
<1>40. <<"set", secret[q]>> \notin late
  <2>1. secret[q] \notin hit
    BY <1>0, <1>2
  <2>. QED
    BY <1>3, <2>1 DEF TokenInv, LateAt
<1>5. CASE refresh[secret[q]] = None
  BY <1>2, <1>3, <1>4, <1>40, <1>5, OnlySet
<1>6. CASE refresh[secret[q]] # None
  <2>1. pc[q] \notin {"srem", "set", "sadd", "blacklist"} /\ code[q] # 200
    BY <1>0, <1>1, <1>2, <1>6 DEF SpentAt
  <2>2. pc'[q] # pc[q] \/ code'[q] # code[q]
    BY <2>1
  <2>3. CodeStep(q) \/ TokenStep(q) \/ DbError(q)
    <3>1. CASE StoreStep \/ UNCHANGED vars
      BY <2>2, <3>1, OnlyTime DEF vars
    <3>2. ~Begin(q)
      BY <1>2 DEF Begin
    <3>. QED
      BY <2>2, <3>1, <3>2, Kinds, Own
  <2>4. Delete(q) \/ CheckBlacklist(q)
    <3> USE DEF Types, Goto, Answer
    <3>1. ASSUME CodeStep(q) PROVE FALSE
      BY <1>1, <3>1 DEF CodeStep, Reserve, Send, Drop, Exists, Compare,
                        CheckEmail, Insert, UseUp, OpAt
    <3>2. ASSUME Find(q) \/ Take(q) \/ Parse(q) \/ Profile(q) PROVE FALSE
      BY <1>1, <2>1, <3>2, Fields DEF Find, Take, Parse, Profile, OpAt
    <3>3. ASSUME SRem(q) \/ Set(q) \/ SAdd(q) \/ Blacklist(q) PROVE FALSE
      BY <2>1, <3>3 DEF SRem, Set, SAdd, Blacklist
    <3>4. ASSUME DbError(q) PROVE FALSE
      BY <1>1, <2>1, <3>4, Fields DEF DbError, OpAt
    <3>. QED
      BY <2>3, <3>1, <3>2, <3>3, <3>4 DEF TokenStep
  <2>5. CASE Delete(q)
    BY <1>2, <1>3, <2>5 DEF Delete, Meets, Fails, Types
  <2>6. CASE CheckBlacklist(q)
    BY <1>1, <1>2, <2>1, <2>6, Fields DEF CheckBlacklist, Goto, Answer, Types, OpAt
  <2>. QED
    BY <2>4, <2>5, <2>6
<1>. QED
  BY <1>5, <1>6

\* A refresh with a refresh token that was spent before gets nothing.
LEMMA RefusedInductive ==
  ASSUME Types, RequestInv, TokenInv, [Next]_vars, NEW q \in Reqs
  PROVE  RefusedAt(q)'
<1>0. arg' = arg /\ hit \subseteq hit'
  BY Forward
<1> SUFFICES ASSUME NEW l \in past'[q], l \notin hit', Op(q) = "refresh", secret'[q] = secret'[l],
                    secret'[q] \notin hit'
             PROVE  pc'[q] = "take" \/ (pc'[q] = "done" /\ code'[q] # 200)
  BY <1>0 DEF RefusedAt, Op
<1>1. l \notin hit /\ TokenAt(q) /\ DoneAt(q)
  BY <1>0 DEF RequestInv
<1>2. CASE Begin(q)
  BY <1>2 DEF Begin, Goto, Types
<1>3. CASE ~Begin(q)
  <2>1. l \in past[q] /\ pc[q] # "idle" /\ secret'[q] = secret[q]
    <3>1. l \in past[q]
      BY <1>3, PastInductive
    <3>2. pc[q] # "idle"
      BY <1>1, <3>1 DEF DoneAt
    <3>. QED
      BY <3>1, <3>2, Forward
  <2>2. l \in Reqs /\ code[l] = 200 /\ Op(l) \in {"refresh", "logout"}
    BY <2>1 DEF TokenInv, PastAt, Types
  <2>3. secret[q] = secret[l] /\ secret[q] # None
    <3>1. secret[q] \in Issued
      BY <1>1, <2>1 DEF TokenAt
    <3>. QED
      BY <2>1, <2>2, <3>1, Answered, Fields DEF Issued
  <2>30. secret[q] \notin hit
    BY <1>0, <2>1
  <2>4. refresh[secret[q]] = None
    BY <1>1, <2>2, <2>3, <2>30 DEF TokenInv, SpentAt
  <2>5. pc[q] = "take" \/ (pc[q] = "done" /\ code[q] # 200)
    BY <1>1, <2>1, <2>3, <2>30 DEF TokenInv, RefusedAt
  <2>6. CASE pc[q] = "done"
    BY <2>5, <2>6, Forward
  <2>7. CASE pc[q] = "take"
    <3>1. CASE pc'[q] = pc[q]
      BY <2>7, <3>1
    <3>2. CASE Take(q)
      BY <2>4, <3>2 DEF Take, Answer, Types
    <3>3. ASSUME CodeStep(q) \/ TokenStep(q) \/ DbError(q) PROVE Take(q)
      BY <2>7, <3>3 DEF CodeStep, TokenStep, DbError, Reserve, Send, Drop, Exists, Compare,
                    CheckEmail, Insert, UseUp, Find, Delete, SRem, Set, SAdd, Parse,
                    CheckBlacklist, Blacklist, Profile
    <3>4. CASE StoreStep \/ UNCHANGED vars
      BY <3>1, <3>4, OnlyTime DEF vars
    <3>. QED
      BY <1>3, <3>1, <3>2, <3>3, <3>4, Kinds, Own
  <2>. QED
    BY <2>5, <2>6, <2>7
<1>. QED
  BY <1>2, <1>3

\* A refresh token exists from its SET on, for its user.
LEMMA StoredInductive ==
  ASSUME Types, RequestInv, TokenInv, [Next]_vars, NEW t \in Reqs
  PROVE  /\ pc'[t] \notin {"sadd", "done"} => refresh'[t] = None
         /\ refresh'[t] \in {None, uid'[t]}
<1>0. ListedAt(t)
  BY DEF TokenInv
<1>1. CASE Set(t)
  BY <1>0, <1>1 DEF Set, ListedAt, Goto, Answer, Types
<1>20. CASE <<"set", t>> \in late /\ refresh'[t] = uid[t] /\ UNCHANGED <<pc, uid, hit>>
  BY <1>20 DEF TokenInv, LateAt
<1>2. CASE ~Set(t) /\ refresh'[t] \in {None, refresh[t]}
  <2>1. refresh'[t] \in {None, refresh[t]}
    BY <1>2
  <2>2. CASE pc'[t] = pc[t] /\ uid'[t] = uid[t]
    BY <1>0, <2>1, <2>2 DEF ListedAt
  <2>3. CASE Begin(t) \/ CodeStep(t) \/ TokenStep(t) \/ DbError(t)
    <3>1. pc[t] # "done"
      BY <2>3, Own
    <3>2. CASE pc[t] = "sadd"
      <4>1. SAdd(t)
        BY <2>3, <3>2 DEF Begin, CodeStep, TokenStep, DbError, Reserve, Send, Drop, Exists, Compare,
                    CheckEmail, Insert, UseUp, Find, Take, Delete, SRem, Set, Parse,
                    CheckBlacklist, Blacklist, Profile
      <4>. QED
        BY <1>0, <2>1, <4>1 DEF SAdd, Answer, Types, ListedAt
    <3>3. CASE pc[t] # "sadd"
      BY <1>0, <2>1, <3>1, <3>3 DEF ListedAt
    <3>. QED
      BY <3>2, <3>3
  <2>4. CASE StoreStep \/ UNCHANGED vars
    BY <2>2, <2>4, OnlyTime DEF vars
  <2>. QED
    BY <2>2, <2>3, <2>4, Kinds, Own
<1>. QED
  BY <1>1, <1>2, <1>20, OnlySet

\* A refresh token that was issued stays listed until it is deleted.
LEMMA ListedInductive ==
  ASSUME Types, RequestInv, TokenInv, [Next]_vars, NEW t \in Reqs
  PROVE  ListedAt(t)'
<1>0. arg' = arg /\ hit \subseteq hit'
  BY Forward
<1>1. /\ pc'[t] \notin {"sadd", "done"} => refresh'[t] = None
      /\ refresh'[t] \in {None, uid'[t]}
  BY StoredInductive
<1>2. ASSUME t \in Issued', refresh'[t] # None, \A r \in hit' : r # t /\ secret'[r] # t
      PROVE  t \in session'[uid'[t]]
  <2>0. Types' /\ RequestInv' /\ ListedAt(t)
    BY TypesInductive, RequestInductive DEF TokenInv
  <2>1. Op(t) \in {"login", "refresh"} /\ code'[t] = 200
    BY <1>0, <1>2 DEF Issued, Op
  <2>2. CASE code[t] = 200
    <3>1. pc[t] = "done" /\ t \in Issued /\ uid'[t] = uid[t] /\ uid[t] \in Emails
      <4>1. pc[t] = "done" /\ t \in Issued
        BY <2>1, <2>2, Answered DEF Issued
      <4>. QED
        BY <4>1, Forward DEF RequestInv, TokenAt
    <3>2. refresh[t] # None
      <4>1. ~Set(t)
        BY <3>1 DEF Set
      <4>2. <<"set", t>> \notin late
        BY <1>0, <1>2 DEF TokenInv, LateAt
      <4>. QED
        BY <1>2, <4>1, <4>2, OnlySet
    <3>3. \A r \in hit : r # t /\ secret[r] # t
      <4>1. ASSUME NEW r \in hit PROVE r # t /\ secret[r] # t
        <5>1. r \in hit' /\ r \in Reqs
          BY <1>0 DEF Types
        <5>2. pc[r] = "idle" => secret[r] = None
          BY <5>1 DEF RequestInv, DoneAt
        <5>. QED
          BY <1>2, <5>1, <5>2, Forward, Fields
      <4>. QED
        BY <4>1
    <3>4. t \in session[uid[t]]
      BY <2>0, <3>1, <3>2, <3>3 DEF ListedAt
    <3>5. ASSUME t \notin session'[uid[t]] PROVE FALSE
      <4>1. PICK r \in Reqs : SRem(r) /\ secret[r] = t
        BY <3>1, <3>4, <3>5, OnlyUnlisted
      <4>2. pc[r] = "srem" /\ OpAt(r) /\ TokenAt(r) /\ SpentAt(r)
        BY <4>1 DEF SRem, RequestInv, TokenInv
      <4>3. Op(r) \in {"refresh", "logout"} /\ secret[r] # None
        BY <4>1, <4>2, Fields DEF OpAt
      <4>4. r \notin hit /\ t \notin hit
        BY <3>3, <4>1
      <4>. QED
        BY <3>2, <4>1, <4>2, <4>3, <4>4 DEF SpentAt
    <3>. QED
      BY <3>1, <3>5
  <2>3. CASE code[t] # 200
    <3>1. SAdd(t)
      <4>1. OpAt(t)
        BY DEF RequestInv
      <4>. QED
        BY <2>1, <2>3, <4>1, Ends DEF OpAt, Send, UseUp, Blacklist, Profile
    <3>2. uid[t] \in Emails /\ t \notin hit'
      BY <1>2, <3>1 DEF SAdd, RequestInv, TokenAt
    <3>. QED
      BY <3>1, <3>2 DEF SAdd, Meets, Fails, Types
  <2>. QED
    BY <2>2, <2>3
<1>. QED
  BY <1>1, <1>2 DEF ListedAt

\* A copy of a SET comes from the SET of its request.
LEMMA LateInductive ==
  ASSUME Types, RequestInv, TokenInv, [Next]_vars, NEW t \in Reqs
  PROVE  LateAt(t)'
<1>0. <<"set", t>> \in late => t \in hit' /\ pc[t] \in {"sadd", "done"}
  <2>1. hit \subseteq hit'
    BY Forward
  <2>. QED
    BY <2>1 DEF TokenInv, LateAt
<1> SUFFICES ASSUME <<"set", t>> \in late'
             PROVE  t \in hit' /\ pc'[t] \in {"sadd", "done"}
  BY DEF LateAt
<1> USE DEF Types, request, redis, world, Works, Meets, Fails, Lingers
<1>1. CASE <<"set", t>> \in late
  <2>1. t \in hit' /\ pc[t] \in {"sadd", "done"}
    BY <1>0, <1>1
  <2>2. CASE pc[t] = "done"
    BY <2>1, <2>2, Forward
  <2>3. CASE pc'[t] = pc[t]
    BY <2>1, <2>3
  <2>4. CASE pc[t] = "sadd" /\ (Begin(t) \/ CodeStep(t) \/ TokenStep(t) \/ DbError(t))
    <3>1. SAdd(t)
      BY <2>4 DEF Begin, CodeStep, TokenStep, DbError, Reserve, Send, Drop, Exists, Compare,
                  CheckEmail, Insert, UseUp, Find, Take, Delete, SRem, Set, Parse,
                  CheckBlacklist, Blacklist, Profile
    <3>. QED
      BY <2>1, <3>1 DEF SAdd, Answer
  <2>. QED
    BY <2>1, <2>2, <2>3, <2>4, Kinds, Own, OnlyTime DEF vars
<1>2. CASE <<"set", t>> \notin late
  <2>1. ASSUME NEW r \in Reqs, Begin(r) \/ DbError(r) PROVE FALSE
    BY <1>2, <2>1 DEF Begin, DbError
  <2>2. ASSUME NEW r \in Reqs, Reserve(r) \/ Send(r) \/ Drop(r) \/ Exists(r) PROVE FALSE
    BY <1>2, <2>2 DEF Reserve, Send, Drop, Exists
  <2>3. ASSUME NEW r \in Reqs, Compare(r) \/ CheckEmail(r) \/ Insert(r) \/ UseUp(r) PROVE FALSE
    BY <1>2, <2>3 DEF Compare, CheckEmail, Insert, UseUp
  <2>4. ASSUME NEW r \in Reqs, Find(r) \/ Take(r) \/ Delete(r) \/ SRem(r) \/ SAdd(r) PROVE FALSE
    BY <1>2, <2>4 DEF Find, Take, Delete, SRem, SAdd
  <2>5. ASSUME NEW r \in Reqs, Parse(r) \/ CheckBlacklist(r) \/ Blacklist(r) \/ Profile(r) PROVE FALSE
    BY <1>2, <2>5 DEF Parse, CheckBlacklist, Blacklist, Profile
  <2>6. ASSUME NEW r \in Reqs, Set(r) PROVE t \in hit' /\ pc'[t] \in {"sadd", "done"}
    <3>1. r = t /\ t \in hit'
      BY <1>2, <2>6 DEF Set
    <3>2. pc'[r] \in {"sadd", "done"}
      BY <2>6 DEF Set, Goto, Answer
    <3>. QED
      BY <3>1, <3>2
  <2>7. CASE StoreStep
    <3>1. ASSUME NEW r \in Reqs, LateSetNX(r) \/ LateDel(r) \/ LateSet(r) PROVE late' \subseteq late
      BY <3>1 DEF LateSetNX, LateDel, LateSet
    <3>2. ASSUME NEW r \in Reqs, ExpireRefresh(r) \/ ExpireAccess(r) \/ ExpireEntry(r) PROVE late' = late
      BY <3>2 DEF ExpireRefresh, ExpireAccess, ExpireEntry
    <3>3. ASSUME NEW e \in Emails, ExpireCode(e) PROVE late' = late
      BY <3>3 DEF ExpireCode
    <3>. QED
      BY <1>2, <2>7, <3>1, <3>2, <3>3 DEF StoreStep
  <2>8. CASE UNCHANGED vars
    BY <1>2, <2>8 DEF vars
  <2>. QED
    BY <2>1, <2>2, <2>3, <2>4, <2>5, <2>6, <2>7, <2>8, Kinds DEF CodeStep, TokenStep
<1>. QED
  BY <1>1, <1>2

\* Together.
LEMMA TokensInductive ==
  ASSUME Types, RequestInv, TokenInv, [Next]_vars
  PROVE  TokenInv'
BY PastInductive, LateInductive, LogoutInductive, StoppedInductive, SpentInductive, RefusedInductive,
   ListedInductive DEF TokenInv

-----------------------------------------------------------------------------
(* Codes *)

\* What becomes of the key of an address: it is taken with a code of that address, or emptied.
LEMMA KeyMoves ==
  ASSUME Types, [Next]_vars, NEW e \in Emails, codes'[e] # codes[e]
  PROVE  codes'[e] = None \/ (codes'[e] \in Reqs /\ By(codes'[e]) = e)
<1> USE DEF Types, request, redis, world
<1>1. ASSUME NEW r \in Reqs, Begin(r) \/ DbError(r) PROVE FALSE
  BY <1>1 DEF Begin, DbError
<1>2. ASSUME NEW r \in Reqs, TokenStep(r) PROVE FALSE
  BY <1>2 DEF TokenStep, Find, Take, Delete, SRem, Set, SAdd, Parse, CheckBlacklist, Blacklist, Profile
<1>3. ASSUME NEW r \in Reqs, Send(r) \/ Exists(r) \/ Compare(r) \/ CheckEmail(r) \/ Insert(r) PROVE FALSE
  BY <1>3 DEF Send, Exists, Compare, CheckEmail, Insert
<1>4. ASSUME NEW r \in Reqs, Reserve(r) PROVE By(r) = e /\ codes'[e] = r
  BY <1>4, Fields DEF Reserve
<1>5. ASSUME NEW r \in Reqs, Drop(r) \/ UseUp(r) PROVE codes'[e] = None
  BY <1>5, Fields DEF Drop, UseUp
<1>6. ASSUME NEW r \in Reqs, LateSetNX(r) PROVE By(r) = e /\ codes'[e] = r
  BY <1>6, Fields DEF LateSetNX
<1>7. ASSUME NEW r \in Reqs, LateDel(r) PROVE codes'[e] = None
  BY <1>7, Fields DEF LateDel
<1>8. ASSUME NEW r \in Reqs, LateSet(r) \/ ExpireRefresh(r) \/ ExpireAccess(r) \/ ExpireEntry(r)
      PROVE  FALSE
  BY <1>8 DEF LateSet, ExpireRefresh, ExpireAccess, ExpireEntry
<1>9. ASSUME NEW f \in Emails, ExpireCode(f) PROVE codes'[e] = None
  BY <1>9 DEF ExpireCode
<1>10. CASE UNCHANGED vars
  BY <1>10 DEF vars
<1>. QED
  BY <1>1, <1>2, <1>3, <1>4, <1>5, <1>6, <1>7, <1>8, <1>9, <1>10, Kinds DEF CodeStep, StoreStep

\* Only a request that mails a code puts it into a mailbox, that of its address.
LEMMA MailMoves ==
  ASSUME Types, [Next]_vars, NEW e \in Emails, NEW c \in mailed'[e], c \notin mailed[e]
  PROVE  c \in Reqs /\ By(c) = e
<1> USE DEF Types, request, redis, world
<1>1. ASSUME NEW r \in Reqs, Begin(r) \/ DbError(r) PROVE FALSE
  BY <1>1 DEF Begin, DbError
<1>2. ASSUME NEW r \in Reqs, TokenStep(r) PROVE FALSE
  BY <1>2 DEF TokenStep, Find, Take, Delete, SRem, Set, SAdd, Parse, CheckBlacklist, Blacklist, Profile
<1>3. ASSUME NEW r \in Reqs, Reserve(r) \/ Insert(r) \/ Drop(r) \/ Exists(r) \/ Compare(r)
                             \/ CheckEmail(r) \/ UseUp(r)
      PROVE  FALSE
  BY <1>3 DEF Reserve, Insert, Drop, Exists, Compare, CheckEmail, UseUp
<1>4. ASSUME NEW r \in Reqs, Send(r) PROVE c = r /\ By(r) = e
  BY <1>4, Fields DEF Send
<1>5. CASE StoreStep
  BY <1>5, OnlyTime
<1>6. CASE UNCHANGED vars
  BY <1>6 DEF vars
<1>. QED
  BY <1>1, <1>2, <1>3, <1>4, <1>5, <1>6, Kinds DEF CodeStep

\* Keys and mailboxes hold codes of their address.
LEMMA KeysInductive ==
  ASSUME Types, RequestInv, CodeInv, [Next]_vars, NEW e \in Emails
  PROVE  KeysAt(e)'
<1>0. arg' = arg /\ KeysAt(e)
  BY Forward DEF CodeInv
<1>1. codes'[e] # None => By(codes'[e]) = e
  BY <1>0, KeyMoves DEF KeysAt
<1>2. ASSUME NEW c \in mailed'[e] PROVE By(c) = e
  BY <1>0, <1>2, MailMoves DEF KeysAt
<1>. QED
  BY <1>0, <1>1, <1>2 DEF KeysAt, By

\* A request comes to register through its comparison.
LEMMA RegisterCourse ==
  ASSUME Types, RequestInv, [Next]_vars, NEW q \in Reqs,
         pc'[q] \in {"email?", "insert", "del"} \/ (Op(q) = "register" /\ code'[q] = 200)
  PROVE  \/ Compare(q) /\ codes[By(q)] = secret[q]
         \/ pc[q] \in {"email?", "insert", "del"} \/ (Op(q) = "register" /\ code[q] = 200)
<1> USE DEF Types, request, redis, world, Goto, Answer
<1>0. OpAt(q)
  BY DEF RequestInv
<1>1. CASE Begin(q)
  BY <1>1, Fields DEF Begin, Op, Ops
<1>2. CASE DbError(q)
  BY <1>2 DEF DbError
<1>3. CASE Find(q) \/ Take(q) \/ Delete(q) \/ SRem(q) \/ Set(q) \/ SAdd(q)
  BY <1>0, <1>3 DEF Find, Take, Delete, SRem, Set, SAdd, OpAt
<1>4. CASE Parse(q) \/ CheckBlacklist(q) \/ Blacklist(q) \/ Profile(q)
  BY <1>0, <1>4 DEF Parse, CheckBlacklist, Blacklist, Profile, OpAt
<1>5. CASE Reserve(q) \/ Send(q) \/ Drop(q) \/ Exists(q)
  BY <1>0, <1>5, Fields DEF Reserve, Send, Drop, Exists, OpAt
<1>6. CASE Compare(q) \/ CheckEmail(q) \/ Insert(q) \/ UseUp(q)
  BY <1>6, Fields DEF Compare, CheckEmail, Insert, UseUp
<1>7. CASE StoreStep \/ UNCHANGED vars
  BY <1>7, OnlyTime DEF vars
<1>8. CASE pc'[q] = pc[q] /\ code'[q] = code[q]
  BY <1>8
<1>. QED
  BY <1>1, <1>2, <1>3, <1>4, <1>5, <1>6, <1>7, <1>8, Kinds, Own DEF CodeStep, TokenStep

\* A request that registers presents a code of its address: it found it in the key.
LEMMA RegisterInductive ==
  ASSUME Types, RequestInv, CodeInv, [Next]_vars, NEW q \in Reqs
  PROVE  RegisterAt(q)'
<1>0. arg' = arg
  BY Forward
<1> SUFFICES ASSUME pc'[q] \in {"email?", "insert", "del"} \/ (Op(q) = "register" /\ code'[q] = 200)
             PROVE  By(secret'[q]) = By(q)
  BY <1>0 DEF RegisterAt, By, Op
<1>1. CASE Compare(q) /\ codes[By(q)] = secret[q]
  <2>1. secret' = secret /\ secret[q] # None
    <3>1. secret[q] \in InMail
      BY <1>1 DEF Compare, RequestInv, OpAt, TokenAt
    <3>. QED
      BY <1>1, <3>1, Fields DEF Compare, request, InMail, Types
  <2>. QED
    BY <1>1, <2>1, Fields DEF CodeInv, KeysAt
<1>2. CASE pc[q] \in {"email?", "insert", "del"} \/ (Op(q) = "register" /\ code[q] = 200)
  <2>1. pc[q] # "idle"
    BY <1>2, Answered
  <2>2. By(secret[q]) = By(q)
    BY <1>2 DEF CodeInv, RegisterAt
  <2>. QED
    BY <2>1, <2>2, Forward
<1>. QED
  BY <1>1, <1>2, RegisterCourse

\* Together.
LEMMA CodesInductive ==
  ASSUME Types, RequestInv, CodeInv, [Next]_vars
  PROVE  CodeInv'
BY KeysInductive, RegisterInductive DEF CodeInv

-----------------------------------------------------------------------------
(* The theorems *)

\* The inductive invariant holds at the start and is kept by every step.
LEMMA Invariant == Spec => []IInv
<1>1. Init => IInv
  <2> SUFFICES ASSUME Init PROVE IInv
    OBVIOUS
  <2>1. Types
    BY ConstantsAssumption, Fields DEF Init, Types, PCs
  <2>2. \A r \in Reqs : pc[r] = "idle" /\ code[r] = None /\ access[r] = None /\ secret[r] = None
                        /\ past[r] = {} /\ refresh[r] = None
    BY DEF Init
  <2>3. RequestInv
    BY <2>2 DEF RequestInv, OpAt, DoneAt, TokenAt, Issued, None
  <2>4. TokenInv
    BY <2>2 DEF Init, TokenInv, LateAt, PastAt, LogoutAt, StoppedAt, SpentAt, RefusedAt, ListedAt, Issued, None
  <2>5. CodeInv
    BY <2>2 DEF Init, CodeInv, KeysAt, RegisterAt, None
  <2>. QED
    BY <2>1, <2>3, <2>4, <2>5 DEF IInv
<1>2. IInv /\ [Next]_vars => IInv'
  BY TypesInductive, RequestInductive, TokensInductive, CodesInductive DEF IInv
<1>. QED
  BY <1>1, <1>2, PTL DEF Spec

\* Every variable keeps its type, and no token is stored for nobody.
THEOREM TypeCorrect == Spec => []TypeOK
<1>1. IInv => TypeOK
  BY DEF IInv, Types, RequestInv, TokenAt, TypeOK
<1>. QED
  BY <1>1, Invariant, PTL

\* A registration goes on only with a code that was mailed to the address it registers,
\* however requests interleave and whatever fails or comes late.
THEOREM OwnMailbox == Spec => []MailboxIsOwn
<1>1. IInv => MailboxIsOwn
  <2> SUFFICES ASSUME IInv, NEW r \in Reqs,
                      pc[r] \in {"email?", "insert", "del"} \/ (Op(r) = "register" /\ code[r] = 200)
               PROVE  secret[r] \in mailed[By(r)]
    BY DEF MailboxIsOwn
  <2>1. Op(r) = "register" /\ pc[r] # "idle"
    BY DEF IInv, RequestInv, OpAt, DoneAt, None
  <2>2. PICK e \in Emails : secret[r] \in mailed[e]
    BY <2>1 DEF IInv, RequestInv, TokenAt, InMail
  <2>3. By(secret[r]) = By(r) /\ By(secret[r]) = e
    BY <2>2 DEF IInv, CodeInv, RegisterAt, KeysAt
  <2>. QED
    BY <2>2, <2>3
<1>. QED
  BY <1>1, Invariant, PTL

\* After a logout was answered, no request that begins with its access token gets past
\* JWTAuth before exp on the first clock, unless Redis failed one of the two.
THEOREM LogoutHolds == Spec => []LoggedOutStaysOut
<1>1. IInv => LoggedOutStaysOut
  BY DEF IInv, RequestInv, DoneAt, TokenInv, StoppedAt, LoggedOutStaysOut
<1>. QED
  BY <1>1, Invariant, PTL

\* After a refresh or a logout was answered, no refresh that begins then with its refresh
\* token gets a new pair, unless Redis failed it or the request that made the token.
THEOREM TokenSpentOnce == Spec => []SpentOnce
<1>1. IInv => SpentOnce
  BY DEF IInv, RequestInv, DoneAt, TokenInv, RefusedAt, SpentOnce, None
<1>. QED
  BY <1>1, Invariant, PTL

\* Every refresh token that can still be used is in the session list of its user, Redis
\* errors excepted.
THEOREM UsableListed == Spec => []UsableIsListed
<1>1. IInv => UsableIsListed
  BY DEF IInv, TokenInv, ListedAt, UsableIsListed, Issued
<1>. QED
  BY <1>1, Invariant, PTL

=============================================================================
