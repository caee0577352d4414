------------------------------ MODULE Accounts ------------------------------
(***************************************************************************)
(* Registration, login and sessions: service/email, service/user,          *)
(* service/auth, the JWTAuth middleware and their handlers.  A request is  *)
(* one HTTP call; requests interleave at every Redis and MySQL call.  A    *)
(* code, an access token and a refresh token bear the number of the        *)
(* request that made them, a user is named by its e-mail address.  A       *)
(* request whose process dies is one that takes no further step.  A call   *)
(* whose reply is lost is sent again by the Redis client, and one that the *)
(* client gave up may still be executed: both copies count.                *)
(***************************************************************************)
EXTENDS Naturals, FiniteSets

CONSTANTS
  Emails,      \* addresses
  Registered,  \* those with an account at the start
  MaxReqs,     \* bound: requests in a behaviour
  Plans,       \* what they may ask: functions from them to RequestType
  MaxHits,     \* bound: requests that meet Redis errors
  Faults       \* a subset of FaultKinds

FaultKinds == {"mailErr",   \* the mail server refuses, or its answer is lost
               "redisErr",  \* a Redis call reports an error
               "dbErr"}     \* a MySQL statement fails

Reqs == 1..MaxReqs
None == 0

Ops == {"getcode", "register", "login", "refresh", "logout", "me"}
RequestType == [op : Ops, by : Emails]

ASSUME ConstantsAssumption ==
  /\ Registered \subseteq Emails
  /\ MaxReqs \in Nat /\ MaxHits \in Nat
  /\ None \notin Emails
  /\ Plans \subseteq [Reqs -> RequestType]
  /\ Faults \subseteq FaultKinds

VARIABLES
  pc,       \* where each request is
  arg,      \* what it asks
  code,     \* its HTTP status, None before
  access,   \* the access token it presents, or None
  secret,   \* the refresh token or e-mail code it presents, or None
  uid,      \* the user it acts for, None before that is known
  users,    \* MySQL: the addresses with a row in users
  codes,    \* Redis: sendEmailCode:<e-mail>
  refresh,  \* Redis: refresh:<token>, the user or None
  session,  \* Redis: userSession:<uid>
  blacklist,\* Redis: blacklist:<jti>
  late,     \* the calls no client waits for that Redis may still execute
  mailed,   \* the codes in each mailbox
  expired,  \* access tokens past their exp on the clock of some instance
  past,     \* history: the logouts and refreshes that had succeeded when each began
  hit       \* history: requests a Redis call of which failed

request == <<arg, access, secret, past>>
redis == <<codes, refresh, session, blacklist, late>>
world == <<mailed, expired>>
vars == <<pc, code, request, uid, users, redis, world, hit>>

PCs == {"idle", "reserve", "mail", "drop", "exists", "get", "email?", "insert", "del",
        "find", "take", "parse", "blacklisted?", "delete", "srem", "set", "sadd",
        "blacklist", "profile", "done"}

Op(r) == arg[r].op
By(r) == arg[r].by

Goto(r, l) == pc' = [pc EXCEPT ![r] = l] /\ UNCHANGED code

\* response.OK or response.Fail.
Answer(r, c) == pc' = [pc EXCEPT ![r] = "done"] /\ code' = [code EXCEPT ![r] = c]

\* A Redis call reports success, or something goes wrong with it: an error, or a reply
\* that is lost, so that the client sends it again.
Works(r) == r \in Reqs /\ UNCHANGED <<hit, late>>
Meets(r) ==
  /\ "redisErr" \in Faults
  /\ Cardinality(hit \cup {r}) <= MaxHits
  /\ hit' = hit \cup {r}
Fails(r) == Meets(r) /\ UNCHANGED late

\* The same of a call k that writes: a copy of it may be executed later.
Lingers(k, r) == Meets(r) /\ late' \in {late, late \cup {<<k, r>>}}

\* The token pairs, and the codes, that clients have got.
Issued == {r \in Reqs : Op(r) \in {"login", "refresh"} /\ code[r] = 200}
InMail == UNION {mailed[e] : e \in Emails}

Init ==
  /\ pc = [r \in Reqs |-> "idle"]
  /\ arg \in Plans
  /\ code = [r \in Reqs |-> None]
  /\ access = [r \in Reqs |-> None]
  /\ secret = [r \in Reqs |-> None]
  /\ uid = [r \in Reqs |-> None]
  /\ users = Registered
  /\ codes = [e \in Emails |-> None]
  /\ refresh = [r \in Reqs |-> None]
  /\ session = [e \in Emails |-> {}]
  /\ blacklist = {}
  /\ late = {}
  /\ mailed = [e \in Emails |-> {}]
  /\ expired = {}
  /\ past = [r \in Reqs |-> {}]
  /\ hit = {}

\* A request arrives at its route, with what its client has.  /logout and /me
\* go through JWTAuth.
Begin(r) ==
  /\ pc[r] = "idle"
  /\ CASE Op(r) = "getcode" -> Goto(r, "reserve") /\ UNCHANGED <<access, secret>>
       [] Op(r) = "login" -> Goto(r, "find") /\ UNCHANGED <<access, secret>>
       [] Op(r) = "register" -> /\ Goto(r, "exists")
                                /\ \E c \in InMail : secret' = [secret EXCEPT ![r] = c]
                                /\ UNCHANGED access
       [] Op(r) = "refresh" -> /\ Goto(r, "take")
                               /\ \E t \in Issued : secret' = [secret EXCEPT ![r] = t]
                               /\ UNCHANGED access
       [] OTHER -> /\ Goto(r, "parse")
                   /\ \E a \in Issued : access' = [access EXCEPT ![r] = a]
                   /\ \E t \in IF Op(r) = "logout" THEN Issued \cup {None} ELSE {None} :
                        secret' = [secret EXCEPT ![r] = t]
  /\ past' = [past EXCEPT ![r] = {q \in Reqs : Op(q) \in {"refresh", "logout"} /\ code[q] = 200}]
  /\ UNCHANGED <<arg, uid, users, redis, world, hit>>

-----------------------------------------------------------------------------
(* E-mail codes and registration *)

\* SendEmailCode: SET NX with the TTL.  An error may hide a key that was set; a SET
\* that is sent again after it took the key finds it taken.
Reserve(r) ==
  /\ pc[r] = "reserve"
  /\ \/ /\ codes[By(r)] = None
        /\ codes' = [codes EXCEPT ![By(r)] = r]
        /\ \/ Goto(r, "mail") /\ (Works(r) \/ Lingers("setnx", r))
           \/ (Answer(r, 429) \/ Answer(r, 500)) /\ Lingers("setnx", r)
     \/ /\ codes[By(r)] # None /\ UNCHANGED codes
        /\ Answer(r, 429) /\ (Works(r) \/ Lingers("setnx", r))
     \/ Answer(r, 500) /\ Lingers("setnx", r) /\ UNCHANGED codes
  /\ UNCHANGED <<request, uid, users, refresh, session, blacklist, world>>

Send(r) ==
  /\ pc[r] = "mail"
  /\ \/ mailed' = [mailed EXCEPT ![By(r)] = @ \cup {r}] /\ Answer(r, 200)
     \/ /\ "mailErr" \in Faults
        /\ Goto(r, "drop")
        /\ mailed' \in {mailed, [mailed EXCEPT ![By(r)] = @ \cup {r}]}
  /\ UNCHANGED <<request, uid, users, redis, expired, hit>>

\* The mail failed: DEL of the key, whatever it holds; an error is logged.
Drop(r) ==
  /\ pc[r] = "drop"
  /\ \/ codes' = [codes EXCEPT ![By(r)] = None] /\ Works(r)
     \/ codes' \in {codes, [codes EXCEPT ![By(r)] = None]} /\ Lingers("del", r)
  /\ Answer(r, 502)
  /\ UNCHANGED <<request, uid, users, refresh, session, blacklist, world>>

\* Register: the key exists ...
Exists(r) ==
  /\ pc[r] = "exists"
  /\ \/ Works(r) /\ IF codes[By(r)] = None THEN Answer(r, 400) ELSE Goto(r, "get")
     \/ Fails(r) /\ Answer(r, 400)
  /\ UNCHANGED <<request, uid, users, redis, world>>

\* Mutant: that the key exists is enough.
MutCompareNone(r) ==
  /\ pc[r] = "get"
  /\ Works(r) /\ IF codes[By(r)] # None THEN Goto(r, "email?") ELSE Answer(r, 400)
  /\ UNCHANGED <<request, uid, users, redis, world>>

\* ... and, in a second call, holds the code that was typed; a key that went in
\* between reads as "", which no request contains.
Compare(r) ==
  /\ pc[r] = "get"
  /\ \/ Works(r) /\ IF codes[By(r)] = secret[r] THEN Goto(r, "email?") ELSE Answer(r, 400)
     \/ Fails(r) /\ Answer(r, 500)
  /\ UNCHANGED <<request, uid, users, redis, world>>

CheckEmail(r) ==
  /\ pc[r] = "email?"
  /\ IF By(r) \in users THEN Answer(r, 409) ELSE Goto(r, "insert")
  /\ UNCHANGED <<request, uid, users, redis, world, hit>>

\* INSERT, with its unique index on email.
Insert(r) ==
  /\ pc[r] = "insert"
  /\ IF By(r) \in users
       THEN Answer(r, 500) /\ UNCHANGED users
       ELSE users' = users \cup {By(r)} /\ Goto(r, "del")
  /\ UNCHANGED <<request, uid, redis, world, hit>>

\* DelValueByKey after the registration.
UseUp(r) ==
  /\ pc[r] = "del"
  /\ \/ codes' = [codes EXCEPT ![By(r)] = None] /\ Works(r)
     \/ codes' \in {codes, [codes EXCEPT ![By(r)] = None]} /\ Lingers("del", r)
  /\ Answer(r, 200)
  /\ UNCHANGED <<request, uid, users, refresh, session, blacklist, world>>

-----------------------------------------------------------------------------
(* Tokens *)

\* Mutant: an address without a user is not refused.
MutFindAny(r) ==
  /\ pc[r] = "find"
  /\ Goto(r, "set")
  /\ UNCHANGED <<request, uid, users, redis, world, hit>>

\* Login: the user by e-mail, and the password.
Find(r) ==
  /\ pc[r] = "find"
  /\ \/ Answer(r, 401) /\ UNCHANGED uid
     \/ By(r) \in users /\ uid' = [uid EXCEPT ![r] = By(r)] /\ Goto(r, "set")
  /\ UNCHANGED <<request, users, redis, world, hit>>

\* Refresh: GET of the token presented.
Take(r) ==
  /\ pc[r] = "take"
  /\ \/ /\ Works(r)
        /\ IF refresh[secret[r]] = None
             THEN Answer(r, 401) /\ UNCHANGED uid
             ELSE Goto(r, "delete") /\ uid' = [uid EXCEPT ![r] = refresh[secret[r]]]
     \/ Fails(r) /\ Answer(r, 401) /\ UNCHANGED uid
  /\ UNCHANGED <<request, users, redis, world>>

\* Mutant: only the session list forgets the token.
MutDeleteNone(r) ==
  /\ pc[r] = "delete"
  /\ Works(r) /\ UNCHANGED refresh
  /\ Goto(r, "srem")
  /\ UNCHANGED <<request, uid, users, codes, session, blacklist, world>>

\* Refresh and Logout delete it, whoever's it is now; errors are ignored.
Delete(r) ==
  /\ pc[r] = "delete"
  /\ \/ refresh' = [refresh EXCEPT ![secret[r]] = None] /\ Works(r)
     \/ Fails(r) /\ UNCHANGED refresh
  /\ Goto(r, "srem")
  /\ UNCHANGED <<request, uid, users, codes, session, blacklist, world>>

SRem(r) ==
  /\ pc[r] = "srem"
  /\ \/ session' = [session EXCEPT ![uid[r]] = @ \ {secret[r]}] /\ Works(r)
     \/ Fails(r) /\ UNCHANGED session
  /\ Goto(r, IF Op(r) = "refresh" THEN "set" ELSE "blacklist")
  /\ UNCHANGED <<request, uid, users, codes, refresh, blacklist, world>>

\* IssueTokenPair: SET of the new token; a failure is 401 of /refresh, 500 of /login.
Set(r) ==
  /\ pc[r] = "set"
  /\ \/ /\ Works(r) \/ Lingers("set", r)
        /\ Goto(r, "sadd") /\ refresh' = [refresh EXCEPT ![r] = uid[r]]
     \/ /\ Lingers("set", r)
        /\ Answer(r, IF Op(r) = "refresh" THEN 401 ELSE 500)
        /\ refresh' \in {refresh, [refresh EXCEPT ![r] = uid[r]]}
  /\ UNCHANGED <<request, uid, users, codes, session, blacklist, world>>

\* Mutant: the new token is not listed.
MutSAddNone(r) ==
  /\ pc[r] = "sadd"
  /\ Works(r) /\ UNCHANGED session
  /\ Answer(r, 200)
  /\ UNCHANGED <<request, uid, users, codes, refresh, blacklist, world>>

\* Its SADD: an error is ignored.
SAdd(r) ==
  /\ pc[r] = "sadd"
  /\ \/ session' = [session EXCEPT ![uid[r]] = @ \cup {r}] /\ Works(r)
     \/ Fails(r) /\ UNCHANGED session
  /\ Answer(r, 200)
  /\ UNCHANGED <<request, uid, users, codes, refresh, blacklist, world>>

-----------------------------------------------------------------------------
(* JWTAuth, and what is behind it *)

\* ParseAccessToken: the signature holds, exp has not passed on this instance's clock,
\* which may be behind.
Parse(r) ==
  /\ pc[r] = "parse"
  /\ \/ access[r] \in expired /\ Answer(r, 401) /\ UNCHANGED uid
     \/ Goto(r, "blacklisted?") /\ uid' = [uid EXCEPT ![r] = uid[access[r]]]
  /\ UNCHANGED <<request, users, redis, world, hit>>

\* IsAccessBlacklisted: an error of Redis counts as "no".
CheckBlacklist(r) ==
  /\ pc[r] = "blacklisted?"
  /\ \/ access[r] \in blacklist /\ Works(r) /\ Answer(r, 401)
     \/ /\ (access[r] \notin blacklist /\ Works(r)) \/ Fails(r)
        /\ Goto(r, IF Op(r) = "me" THEN "profile"
                   ELSE IF secret[r] = None THEN "blacklist" ELSE "delete")
  /\ UNCHANGED <<request, uid, users, redis, world>>

\* Mutant: Logout only deletes the refresh token.
MutBlacklistNone(r) ==
  /\ pc[r] = "blacklist"
  /\ Works(r) /\ UNCHANGED blacklist
  /\ Answer(r, 200)
  /\ UNCHANGED <<request, uid, users, codes, refresh, session, world>>

\* Logout: the access token is blacklisted for as long as it lasts on this instance's clock.
Blacklist(r) ==
  /\ pc[r] = "blacklist"
  /\ \/ blacklist' = blacklist \cup {access[r]} /\ Works(r)
     \/ access[r] \in expired /\ Works(r) /\ UNCHANGED blacklist
     \/ Fails(r) /\ UNCHANGED blacklist
  /\ Answer(r, 200)
  /\ UNCHANGED <<request, uid, users, codes, refresh, session, world>>

\* Me: GetUserByIDWithCtx.
Profile(r) ==
  /\ pc[r] = "profile"
  /\ Answer(r, IF uid[r] \in users THEN 200 ELSE 404)
  /\ UNCHANGED <<request, uid, users, redis, world, hit>>

-----------------------------------------------------------------------------
(* Failures and time *)

DbError(r) ==
  /\ "dbErr" \in Faults
  /\ pc[r] \in {"email?", "insert", "find", "profile"}
  /\ Answer(r, IF pc[r] = "profile" THEN 404 ELSE 500)
  /\ UNCHANGED <<request, uid, users, redis, world, hit>>

\* Redis executes a call whose client has gone on.
LateSetNX(r) ==
  /\ <<"setnx", r>> \in late
  /\ late' = late \ {<<"setnx", r>>}
  /\ codes' = IF codes[By(r)] = None THEN [codes EXCEPT ![By(r)] = r] ELSE codes
  /\ UNCHANGED <<pc, code, request, uid, users, refresh, session, blacklist, world, hit>>

LateDel(r) ==
  /\ <<"del", r>> \in late
  /\ late' = late \ {<<"del", r>>}
  /\ codes' = [codes EXCEPT ![By(r)] = None]
  /\ UNCHANGED <<pc, code, request, uid, users, refresh, session, blacklist, world, hit>>

LateSet(r) ==
  /\ <<"set", r>> \in late
  /\ late' = late \ {<<"set", r>>}
  /\ refresh' = [refresh EXCEPT ![r] = uid[r]]
  /\ UNCHANGED <<pc, code, request, uid, users, codes, session, blacklist, world, hit>>

\* TTLs: a code's five minutes, a refresh token's days.
ExpireCode(e) ==
  /\ codes[e] # None
  /\ codes' = [codes EXCEPT ![e] = None]
  /\ UNCHANGED <<pc, code, request, uid, users, refresh, session, blacklist, late, world, hit>>

ExpireRefresh(t) ==
  /\ refresh[t] # None
  /\ refresh' = [refresh EXCEPT ![t] = None]
  /\ UNCHANGED <<pc, code, request, uid, users, codes, session, blacklist, late, world, hit>>

\* An access token's exp passes on the first clock, and its entry in the blacklist goes
\* when the instance that made it expected this: another may still be behind.
ExpireAccess(t) ==
  /\ t \in Issued \ expired
  /\ expired' = expired \cup {t}
  /\ UNCHANGED <<pc, code, request, uid, users, redis, mailed, hit>>

ExpireEntry(t) ==
  /\ t \in blacklist \cap expired
  /\ blacklist' = blacklist \ {t}
  /\ UNCHANGED <<pc, code, request, uid, users, codes, refresh, session, late, world, hit>>

Idle ==
  /\ \A r \in Reqs : pc[r] \in {"idle", "done"}
  /\ UNCHANGED vars

Step(r) ==
  \/ Begin(r) \/ Reserve(r) \/ Send(r) \/ Drop(r) \/ Exists(r) \/ Compare(r) \/ CheckEmail(r)
  \/ Insert(r) \/ UseUp(r) \/ Find(r) \/ Take(r) \/ Delete(r) \/ SRem(r) \/ Set(r) \/ SAdd(r)
  \/ Parse(r) \/ CheckBlacklist(r) \/ Blacklist(r) \/ Profile(r)

Next ==
  \/ \E r \in Reqs : \/ Step(r) \/ DbError(r)
                     \/ LateSetNX(r) \/ LateDel(r) \/ LateSet(r)
                     \/ ExpireRefresh(r) \/ ExpireAccess(r) \/ ExpireEntry(r)
  \/ \E e \in Emails : ExpireCode(e)
  \/ Idle

Spec == Init /\ [][Next]_vars

-----------------------------------------------------------------------------
(* Properties *)

\* Every variable has its type, and a request that works with tokens knows whose
\* they are: no token is stored for nobody.
TypeOK ==
  /\ pc \in [Reqs -> PCs]
  /\ arg \in [Reqs -> RequestType]
  /\ code \in [Reqs -> {None, 200, 400, 401, 404, 409, 429, 500, 502}]
  /\ access \in [Reqs -> Reqs \cup {None}]
  /\ secret \in [Reqs -> Reqs \cup {None}]
  /\ uid \in [Reqs -> Emails \cup {None}]
  /\ users \subseteq Emails
  /\ codes \in [Emails -> Reqs \cup {None}]
  /\ refresh \in [Reqs -> Emails \cup {None}]
  /\ session \in [Emails -> SUBSET Reqs]
  /\ blacklist \subseteq Reqs
  /\ late \subseteq {"setnx", "del", "set"} \X Reqs
  /\ mailed \in [Emails -> SUBSET Reqs]
  /\ expired \subseteq Reqs /\ hit \subseteq Reqs
  /\ past \in [Reqs -> SUBSET Reqs]
  /\ \A r \in Reqs : pc[r] \in {"delete", "srem", "set", "sadd", "blacklist", "profile"} =>
       uid[r] \in Emails

\* A registration goes on from the comparison only with a code that was mailed to the
\* address it registers, whichever codes the key held before, whoever deletes it in
\* between and whatever calls to Redis come late.
MailboxIsOwn ==
  \A r \in Reqs :
    pc[r] \in {"email?", "insert", "del"} \/ (Op(r) = "register" /\ code[r] = 200)
      => secret[r] \in mailed[By(r)]

\* After a logout was answered, a request that begins with its access token is turned
\* away, or exp passed meanwhile on the clock of some instance.  Redis errors excepted:
\* Logout ignores them and JWTAuth lets the request pass.
LoggedOutStaysOut ==
  \A r, l \in Reqs :
    ( /\ l \in past[r] \ hit /\ r \notin hit
      /\ Op(l) = "logout"
      /\ access[r] = access[l] /\ code[r] \notin {None, 401} ) => access[r] \in expired

\* After a refresh or a logout with a refresh token was answered, no refresh that begins
\* with that token gets a new pair, unless the DEL failed or a copy of the token's own SET
\* may come late.  Two refreshes that overlap may both get one.
SpentOnce ==
  \A r, l \in Reqs :
    l \in past[r] \ hit /\ Op(r) = "refresh" /\ secret[r] = secret[l] /\ secret[r] \notin hit
      => code[r] # 200

\* A refresh token that a client got and can still use is in the session list of its
\* user, unless a Redis error was ignored by the request that issued it or by one that
\* deleted it.
UsableIsListed ==
  \A t \in Issued :
    refresh[t] # None /\ (\A r \in hit : r # t /\ secret[r] # t) => t \in session[refresh[t]]

=============================================================================
