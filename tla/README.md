# Verification of BlahajChatServer

TLA+ specifications of the chat server in `src/`, the TLC configurations that check
them on small instances, and TLAPS proofs of theorems about them for every value of
their constants.

- [What the system is made of](#what-the-system-is-made-of)
- [The modules](#the-modules)
- [The runs](#the-runs)
- [What is proved](#what-is-proved)
- [Disagreements with the documentation](#disagreements-with-the-documentation)
- [What is not modelled, and the plan](#what-is-not-modelled-and-the-plan)

## What the system is made of

The server is a Go process; any number of instances run side by side and share MySQL,
Redis and one Kafka topic. A client holds a WebSocket to one instance and calls the
REST API of any.

| Component | State it keeps | Operations | Talks to |
|---|---|---|---|
| Send path (`service/chat/chat.go`, `dispatch` in `ws/client.go`) | Redis idempotency key per (uid, client_msg_id); MySQL `messages`, `conversations.last_msg_*`, `conversation_state.unread` | `HandleSend`, ackok, publish | Redis, MySQL, Kafka bus, hub |
| Connection hub (`ws/hub.go`, `ws/client.go`, `ws/handler.go`) | registry of clients, three channels, a send buffer and a closed flag per client | `Run`, `Register`, `Unregister`, `Broadcast`, `SendToUser(s)`, both pumps | Kafka bus (callback `HandleEvent`), the sockets |
| Kafka bus (`bus/kafka.go`) | writer, reader and offset of the instance's consumer group, closed flag | `Publish`, the consumer loop, `Close` | Kafka, hub |
| Groups (`service/conversation/group.go`, `dao/group.go`, `dao/conversation_state.go`) | `group_info.members` (a JSON array), `conversation_state` rows, member cache in Redis, the pool of MySQL connections | create, add, leave, `ListMembers`/`IsMember` | MySQL, Redis; read by the send path |
| Read state (`service/chat/read.go`, `dao/conversation_state.go`) | `last_read_msg_id`, `unread` | `HandleRead`, conversation list | MySQL |
| History (`service/conversation/conversation.go`, `dao/message.go`) | none | one page before a cursor | MySQL |
| Friends and C2C (`service/friend/addfriend.go`, `dao/friend*.go`, `dao/conversation.go`) | `friend_applies`, `friendships`, the C2C conversation of a pair | apply, accept, reject, `GetOrCreateC2CTx` | MySQL |
| Sessions (`service/auth/`, `middleware/auth.go`) | refresh tokens, the set of a user's tokens, the blacklist of access tokens | issue, refresh, logout, logout of all devices | Redis |
| Registration (`service/user`, `service/email`) | `users`, e-mail codes | send code, register, log in | MySQL, Redis, SMTP |
| Profiles (`dao/user.go`) | profile cache | read through the cache | MySQL, Redis |
| Start and shutdown (`cmd/server/main.go`, `InitHub`, `CloseHub`) | the process of an instance | start, signal, shutdown, end | hub, Kafka bus |
| HTTP layer, search, configuration, logging | none | – | – |

What is hard in it, and what makes each part correct:

- *Send path.* The claim of the key, the transaction, the ackok and the publication are
  separate calls to three stores; retries and duplicates on other connections and other
  instances interleave with them, and each call may fail, take effect without saying so,
  or be the last thing the process does. A client message must be stored once, an ackok
  must name the stored message, the conversation rows must agree with the messages, and
  a key must not be claimed for nothing.
- *Hub.* Run, two pumps per connection, the kicks and the spills share channels and a
  closed flag. Nobody may send on a closed channel, a connection must get events once
  and in order, a connection that missed one must be closed, and nothing may hang.
- *Kafka bus, start and shutdown.* At-least-once delivery: redelivery, restart, a consumer
  that commits when the event is queued, and shutdown while sends still run. A client must
  be able to make up for all of it from the history.
- *Groups.* A JSON array rewritten under a row lock; a cache invalidated after the commit
  while readers refill it; membership checked before the transaction that relies on it; a
  second connection of the pool asked for while one is held.
- *Read state.* Reads and incoming messages update one row in any order.
- *Friends and C2C.* Check-then-insert, and a unique key that is expected to collide inside
  a transaction with a snapshot.
- *Registration and sessions.* A code's key that expires and is taken again while somebody
  is about to delete it; token rotation and logout in several Redis calls, some of whose
  errors are ignored.
- *History.* Cursor and page-size arithmetic at the limit, while messages commit.

## The modules

| Module | What it is |
|---|---|
| `SendOnce` | abstract: what the send path promises (a message stored once per key, an ackok names it, only acknowledged messages are published) |
| `SendPath` | the send path; implements `SendOnce` under the mapping `storedBar`, `ackedBar`, `publishedBar` |
| `MCSendPath` | its instances for TLC |
| `SendPathProofs` | its theorems |
| `Fanout` | abstract: what the hub of an instance promises a connection (it is a member once; while it is, it is given events that reach it, each once; afterwards nothing) |
| `Hub` | the connection hub; implements `Fanout` under the mapping `reachBar`, `memberBar`, `streamBar` |
| `MCHub` | its instances for TLC |
| `HubProofs` | its theorems |
| `Groups`, `MCGroups` | group conversations, the member cache, unread counts, the connection pool |
| `GroupsProofs` | the theorems of `Groups` |
| `Friends`, `MCFriends` | friend applications, friendships and single chats |
| `FriendsProofs` | the theorems of `Friends` |
| `Delivery`, `MCDelivery` | Kafka bus, start and shutdown, history: how a stored message comes to a client |
| `DeliveryProofs` | the theorems of `Delivery` |
| `Accounts`, `MCAccounts` | registration, login and sessions |
| `AccountsProofs` | the theorems of `Accounts` |

The modules meet where the code's components do: a message that `SendPath` stores and
publishes is one that `Delivery` hands to an instance's hub, which `Hub` distributes to
connections (the `inHub` of `Delivery` takes events from it in any order, which the spills of
`Hub` make necessary, and to connections that Run has registered, which is what `Fanout`
says of it); the membership that is an arbitrary answer in `SendPath` is what `Groups` says
it can be. They are separate because their state spaces multiply and their properties do
not depend on each other's details.

The modules hold a few operators named `Mut...`: plausible mistakes in the operator that
follows them. Each property is violated when such a mistake replaces the operator; they
are not part of any specification.

### SendPath

A *send* is one `send` frame, identified by the `msg_id` that `HandleSend` generates for
it. `pc` says which call the send makes next, and each action is one call with what
the code does with its answer: `Claim`, `Taken`, `SetNXError` for SETNX; `ReadKey` for
GET; `LookupHit`, `LookupMiss` for the three reads of `waitExistingMsgData`;
`CheckMember`, `NotMember`; `Commit`, `Rollback` for the transaction of
`CreateMessageTx`, `UpdateLastMsgTx` and `IncrUnreadExceptTx`; `Release` for the DEL of a
failed send; `Ack` and `Publish` for what `dispatch` does afterwards. Every call may
also fail, and `Faults` selects the failures that leave something behind:

| Fault | What happens |
|---|---|
| `crash` | the process dies between two calls of a send |
| `setnxLost` | a SETNX gets no reply: the Redis client reports an error or sends it again, and Redis may execute the first one at any later time (`LateSetNX`) |
| `delErr` | the DEL does not reach Redis; `DelValueByKey` only logs the error |
| `delLost` | a DEL gets no reply: the client gives up or sends it again, and Redis may execute the first one at any later time (`LateDel`) |
| `commitLost` | COMMIT takes effect, `Transaction` returns an error |
| `expire` | the 24 h of `ClientMsgIDIdemTTL` pass |

`delLost` is in `SendPath_live` but not in `SendPath_safety`, because `AtMostOnce` is false
with it: a DEL that is executed again after another send claimed the key frees that send's
key, and the next resend is stored too. TLC finds this when `delLost` is put into the `Faults`
of `SendPath_safety.cfg`.

`dispatch` of one connection is sequential, because `readPump` calls it; sends of
different connections interleave at every action. Several instances of the server need
no extra state: a connection belongs to one, and all they share is Redis, MySQL and
Kafka. Membership is an arbitrary answer. A transaction is one step: its row locks
serialise the transactions of one conversation. A conversation is created at any time of
some server's clock, which another server's clock may not have reached.

`Publish` hands the event to the Kafka writer and dispatch goes on, when the event is
written or when the 5 s of `sendHandleWait` are over; the writer keeps what it has and
appends it in `AppendEvent`, at any time, more than once if acknowledgements are lost, or
never if its process dies. The writer sends the batches of one partition one after the other,
and the broker is assumed to execute one producer's requests to a partition in this order.
Events of one conversation, which are in one partition, therefore keep their order;
between the conversations of one connection there is none.

### Hub

Channels are bounded sequences. `RunStep` is Run's `select`: `AddClient`, `RemoveClient`,
`TakeEnvelope`, and the delivery of the envelope in hand (`Snapshot`: the copy of one
user's connections under the read lock; `Deliver`: one send without it). A *spill* is
the goroutine that `Broadcast` starts when the channel is full; it runs `Snapshot` and
`Deliver` beside Run. A *kick* is the goroutine that unregisters a connection whose
buffer is full. `reader` and `writer` follow the two pumps; `Unregister` is the closed
check and then the blocking send, as separate steps of each caller. A client frame is
one that `dispatch` answers; what else it does is SendPath's business. `panicked` records
a send on a closed channel outside `sendRaw`'s `recover`; it ends every goroutine. A socket may break as a whole
(`PeerGone`) or fail in one direction first (`ReadBreaks`, `WriteBreaks`).
`removeClient` is one step: it holds `Hub.mu`, and the two things others look at without
it, the flag and the channel, are read separately by everyone.

`delivered` and `dropped` record what a connection was given and what met a full buffer;
`Received(c)` adds what still waits in its buffer, and `Given(c)` is the set of events in that.
The hub refines `Fanout`: a connection that is closed is out, one that is in the registry is
in, and the frames it is given are `Received(c)`. In the hub the decision to give an event is
a copy of the registry made earlier, by Run or by a spill, and the refinement says that no copy
ever reaches a connection that has been closed, is not of a target of the event, or was given
the event before.

### Groups

A request is one HTTP call (create, add, leave, list) or one frame (send, read), and `pc`
names its next call. A transaction takes a connection of the pool (`BeginTx`), the row of
`group_info` (`Lock`, SELECT ... FOR UPDATE with the permission check) and gives both back in
`EndTx`. `CheckUsers` is `ensureUsersExist`, which needs a connection of its own for profiles
that are not cached, in the transaction of `AddGroupMembers` too. `Create`, `Add`, `Leave`
commit what the transaction wrote; `Invalidate` is the DEL after the commit; `List` is the
answer. `CacheHit`, `CacheMiss`, `Fetch`, `Fill` are the four steps of
`dao.ListGroupMembers`, each interleaved with everything; `Expire` is its TTL. `NotMember`,
`Post`, `FanOut`, `Read` and `ReadRefused` are what `HandleSend` and `HandleRead` do with the
list. A send reads the list twice, for the check and for the fan-out, and each time
`dao.ListMembers` first reads the conversation's type (`GetConv`), which takes a connection
whatever the cache holds. Who waits for a row waits until `innodb_lock_wait_timeout`
(`LockTimeout`), who waits for a connection waits without a limit. `crash` ends a request
at any call, `dbErr` fails a MySQL call, `delErr` the DEL; none of them is bound to happen.
`past` records the lists a group ever had. Cached profiles outlive a behaviour: their TTL is longer than any request.

### Friends

The steps of `ApplyFriend`, `AcceptApply`, `RejectApply` and `GetOrCreateC2C` are their SQL
statements. MySQL's REPEATABLE READ is modelled: a plain SELECT in a transaction reads the
snapshot of its first one, an UPDATE or INSERT sees the newest rows and keeps its lock (a
row, or a key of a unique index) until the transaction ends, and what a transaction writes
appears at COMMIT. So the INSERT that finds the `peer_key` taken, and the SELECT that is then
repeated in an old snapshot and finds nothing, happen as in `dao.GetOrCreateC2CTx`. Faults: a
transaction that rolls back, a COMMIT that takes effect but reports an error, also the one
that gorm wraps a single INSERT or UPDATE in.

### Delivery

`topic` is the partition of one conversation; an instance's consumer has a position in it and
a committed offset. Starting, joining the group, fetching (with the commit that may fail),
handing an event to the connections, the signal, the end of the HTTP server, `CloseHub` and
the end of the process are actions, and so are a crash at any moment and a restart with or
without a committed offset (`LastOffset`). The hub is the set of events that were handed to
it and not yet given to connections: its queues are in `Hub`. A send stores, checks
`closed`, writes: `Close` may come between any two, and a write that was given up (the fault
`publishErr`) or whose process died may be in the topic later (`LateWrite`). A client connects
and pages through the history with `Page`, which is `GetHistoryMessageByID` over
`ListMessageByConvID` with both of their clamps, while messages commit in any order of ids.
Run registers its connection at any time (`Registered`), before, while or after it pages:
nothing tells the client. `early` records what the hub handled after the client's first page
and before this, which the client does not get.

### Accounts

A code, an access token and a refresh token bear the number of the request that made them,
and a user is its e-mail address. The steps are the Redis, MySQL and mail calls of
`GetEmailCode`, `Register`, `Login`, `Refresh`, `Logout`, `JWTAuth` and `Me`, with the status
codes of their handlers. A code lapses after its TTL, a refresh token after its days. An access
token is in `expired` when its `exp` has passed on the first of the instances' clocks; another
instance may accept it still, and its blacklist entry may be gone by then (`ExpireEntry`). A dead
process is a request that takes no further step: nothing is fair. `redisErr` makes a call report
an error, having taken effect or not, or lose its reply, so that the Redis client sends it
again; a copy of a SETNX or DEL of a code, or of the SET of a refresh token, may then be executed
at any later time (`late`, `LateSetNX`, `LateDel`, `LateSet`). `hit` records which requests met
one, `MaxHits` bounds them.

## The runs

| Run | Bounds | What it shows |
|---|---|---|
| `SendPath_safety` | 2 connections of one user, 2 client messages of one conversation, 3 frames; crash, setnxLost, delErr; 2 lookups, 2 writes, 1 clock value | nothing is stored twice (`AtMostOnce`), acknowledged without being stored (`AckNamesStored`), unclaimed once stored (`StoredKeepsKey`), published by a retry (`PublishedOnce`) or out of order (`ConnectionOrder`); refinement of `SendOnce` |
| `SendPath_live` | 3 frames of 2 of 3 connections, of one or both of 2 users, in one conversation (`MC2Plans`); 2 lookups, 2 clock values; commitLost, delLost, expire | the rows of the conversation agree with the messages (`RowsMatchMessages`), a claimed key is given back or its message stored, or its DEL is on its way (`KeyResolved`) |
| `SendPath_commitLost` | as the first, commitLost only | `AtMostOnce` is violated |
| `Hub_safety` | 2 connections of one user, 2 events, every channel of capacity 1 | with spills: Run holds open connections only (`RunServesOpen`), an event is given once (`GivenOnce`); refinement of `Fanout` |
| `Hub_fifo` | 1 connection, 3 events, 2 answered frames, broadcast channel of 3, the others of 1 | without spills: `InOrder`, `NoSilentGap`, `NoPanic`; slow and departed connections are closed and their pumps end |
| `Hub_spillPanic`, `Hub_spillOrder` | 1 connection, 2 events, broadcast channel of 1 | `NoPanic` and `InOrder` are violated |
| `Groups` | 1 group, 3 users, a pool of 2; a creation and any 3 of 7 other requests; crash, delErr, dbErr | members and rows agree (`StatesMatchMembers`), no addition or leave is undone (`NoLostUpdate`), a cached list is one the group had (`CachedWasCommitted`), unread counts are covered by messages (`UnreadBounded`), old lists leave the cache (`CacheConverges`), every request ends without a failure's help (`RequestsEnd`) |
| `Friends` | 2 users who apply to each other, any 3 of 9 accepts, rejects, openings of the chat and other applications; rollback, commitLost | one outcome per application (`OneOutcome`), friends have a chat (`FriendsCanChat`), everyone is given the same one (`SameConversation`) |
| `Delivery` | 1 instance, 1 client, 2 messages, 2 copies of an event, pages of 1 with a cap of 2; crash, publishErr, newGroup | a client that paged to the end after it connected misses no published message for good, but those in `early` and those a new group skipped (`CaughtUp`), paging below the cap is complete (`HistoryComplete`), events come (`Delivered`) |
| `Delivery_cap` | 1 instance, 1 client, 3 messages, pages of 2 with a cap of 2 | `HistoryComplete` is violated |
| `Accounts` | 4 requests: up to 3 codes for and 2 registrations of 2 addresses, or a login, up to 2 refreshes and 2 logouts and a `/me`; mailErr, dbErr, one request that meets redisErr | a registration goes on only with a code mailed to its address (`MailboxIsOwn`), logout and spent refresh tokens hold (`LoggedOutStaysOut`, `SpentOnce`), usable tokens are listed (`UsableIsListed`) |

Why the bounds are enough. Three frames over two keys give a first send, a retry on the
same or another connection, and a send of the other key between them; a retry after a
released key needs three as well. Two clock values make commits meet in the wrong order
of their timestamps, and a conversation younger by its clock than its first message. Capacities of 1 make every full channel happen; two events are
enough for an overtaking, three for a gap between two delivered events. The code's own
capacities (64, 64, 256) and three lookups only lengthen the same behaviours; the
theorems below hold for all of them. `MaxWrites` bounds how often the Kafka writer
appends one event, `MaxFrames` the frames of a connection, `MaxEvents` the events.

`Groups`: a hazard of the lists takes a creation, two changes and one that reads, sends or
fills the cache between them, which is four requests; two connections are the fewest with
which an addition that holds one can get its second, and two additions run out of them: one
holds the row and wants a second connection, the other holds that and waits for the row. `Friends`: two applications are what a pair can
race into; three more requests give an accept and a reject of one application, or two
accepts, with an opening of the chat between their statements. `Delivery`: two messages
commit in either order of their ids and need two pages of one row; two copies give a
redelivery by the writer, and restarts are not bounded. A second instance adds a consumer
with its own offset and no state that the two share but `topic`. `Accounts`: two codes for an
address and two registrations, or a login with three uses of its tokens, are the shortest
sequences in which one request meets what another left; one request with failing Redis
calls is enough to break what the properties except.

Fairness. SendPath: `dispatch` runs to its end (`WF` of each send's steps): every call it
makes returns or times out after `sendHandleWait`. That says nothing of which answer it
gets. Hub: each goroutine that was started keeps running (`ReaderRuns`, `WriterRuns`, without the
`Breaks`); Run as a whole is fair, not each case of its `select`; nothing obliges a client to connect, to send or to leave, nor
Kafka to deliver. The two liveness runs take no crash: after one, a claimed key stays
claimed until it expires, because nobody is left to give it back. A lost SETNX reply and
a failed DEL have the same effect, which is why `KeyResolved` is not asked of them. Nothing
obliges Redis to execute a late command or the writer to append an event. Groups:
each request runs to its end or to its crash (`WF` of its steps, since calls return), the wait
for a row ends after `innodb_lock_wait_timeout` (`LockTimeout`, one of the steps), and Redis drops
expired lists (`WF` of `Expire`). Failures and crashes are not among the fair steps. A request
that waits for a connection waits with it: weak fairness promises it nothing, and
`RequestsEnd` follows because the connections come back for good. Delivery: a running instance's consumer, hub and
registrations go on, a shutdown that has begun ends, and a client pages until it is done;
nobody has to connect, send, stop or start. Friends and Accounts state no fairness: what they
promise is safety, and a dead process is one that stops.

## What is proved

TLAPS proves the following for every set of users, connections, keys and conversations,
any number of sends, requests, events and frames, any capacities, and any clocks.
`ConstantsAssumption` of each module is assumed of the constants in all of them; TLC
evaluates it in every run. Three hypotheses are made where a theorem is false without them,
and a run or a fault of the models shows why:

- `Reliable` (`SendPath`: no COMMIT and no DEL goes without a reply, keys do not expire while
  retries come): `SendPath_commitLost` violates `AtMostOnce` without the first, the faults
  `delLost` and `expire` without the others.
- `[]NoSpills` (`Hub`: no broadcast finds its channel full): `Hub_spillPanic` and
  `Hub_spillOrder` violate `NoPanic` and `InOrder` without it.
- `BelowCap` (`Delivery`: no client asks for pages as large as the cap of the DAO): with it,
  paging is complete; `Delivery_cap` violates `HistoryComplete` without it.

Every theorem that names none of them holds under all faults of its module.

| Theorem | Statement | Argument |
|---|---|---|
| `SendPathProofs!TypeCorrect` | `Spec => []TypeOK` | `TypeInv` adds that a send that may still look up has a lookup left, and one that stores or acknowledges knows its message |
| `AckCorrect` | `Spec => []AckNamesStored`, whatever fails | `AckInv`: a key names a send of that key, so the message a duplicate finds is its own client message; messages are never removed |
| `KeyKept`, `StoredOnce` | `StoredKeepsKey`, `AtMostOnce`, under `Reliable`: with crashes, SETNXs executed late or twice, and DELs that fail | `ClaimInv`: a send between its claim and its release owns its key and has stored nothing, so the key it deletes is nobody else's, and a SETNX executed late takes only a key that is free; stored messages with one key are then both the key's value |
| `Implementation` | `Spec => ImplementsSendOnce`, under `Reliable` | each step of the send path is a step of `SendOnce` or leaves its three variables alone |
| `PublicationOnce` | `Spec => []PublishedOnce`, whatever fails | `PublishInv`: what is in the topic is stored and acknowledged, and an event the writer still holds has less than `MaxWrites` copies there; the lemma `CopiesAdded` counts them |
| `RowsAgree` | `Spec => []RowsMatchMessages`, whatever fails | `RowsInv`: a send before its COMMIT is in no row, so the commit adds one message to the set that the rows of its conversation count and, unless it is older than the conversation, take the latest of; the lemmas compare the cardinalities and the maximum of the timestamps before and after |
| `PublicationOrder` | `Spec => []ConnectionOrder`, whatever fails | `OrderInv`: sends of a connection begin in order, one at a time, and what is published has begun; what the writer still holds of a conversation precedes nothing of it in the topic, because it gives up a batch before it sends the next |
| `HubProofs!TypeCorrect` | `Spec => []TypeOK` | a task with connections to serve carries an event |
| `RunSafe` | `Spec => []RunServesOpen` | `RegistryInv`: a connection is put on the register channel once, so while it waits there it is neither registered nor closed; only registered connections are closed, by Run, with no copy in hand |
| `PanicNeedsSpill` | `Spec /\ []NoSpills => []NoPanic`, for any capacities | `CalmStep` with `RegistryInv`: without spills only Run delivers, and it holds open connections only |
| `NeverTwice` | `Spec => []GivenOnce`, with spills too | `PlacesInv`: an event that was handed over is in one place, the channel or one carrier, and a carrier still has to serve a connection through its user or through its copy but not both; `GivenInv`: what a connection was given is in no place from which it could come again |
| `OrderWithoutSpills` | `Spec /\ []NoSpills => []InOrder` | `OrderInv`: the channel is sorted, what Run has in hand precedes it, and what a connection was given precedes both |
| `NoGapWithoutSpills` | `Spec /\ []NoSpills => []NoSilentGap` | `GapInv`: an event after one that a registered connection was given was given to it, dropped at its buffer, or is still queued or in Run's hand for it; a connection enters the registry with nothing given |
| `HubProofs!Implementation` | `Spec => ImplementsFanout`, with spills too | `CopyInv`: who is in a copy is registered or closed by now, and is of a target of its event; with `GivenInv` and `RegistryInv` each step of the hub is one of `Fanout` or leaves its variables alone |
| `GroupsProofs!TypeCorrect` | `Spec => []TypeOK` | `TxInv`: who is in the transaction of an addition or a leave holds a connection, and from `Lock` on the row of its group, whose members are still those it read |
| `RowsOfMembers`, `UpdatesKept` | `StatesMatchMembers`, `NoLostUpdate`, whatever fails | `MatchInv` with `TxInv`: because the list a request read is still current when it writes, its commit adds to the members or takes one user out, and the rows follow; `EmptyInv` says that a group without an owner has no members, so a creation finds none |
| `ListsWereCommitted` | `Spec => []CachedWasCommitted` | `ListInv`: a list that a request read from MySQL or from the cache is in `past`, so it may be cached or trusted at any later time |
| `UnreadCovered` | `Spec => []UnreadBounded` | `UnreadInv` adds that the message somebody read last is stored, so that a send adds an element to what every other row has not read |
| `FriendsProofs!TypeCorrect` | `Spec => []TypeOK` | `LockInv`: a lock is held by an open transaction, and by one only |
| `OutcomeIsOne` | `Spec => []OneOutcome`, whatever fails | `AcceptAt`: an acceptance past its UPDATE holds the lock of the application, which stays pending until it commits or rolls back, so no other request answers it in between |
| `FriendsHaveChat`, `ChatIsOne` | `FriendsCanChat`, `SameConversation`, whatever fails | `CommitAt`: what commits is the pair's conversation, or its first one under the lock of its `peer_key`; hence `ConvInv`, one conversation per pair with a row for both, and `FriendInv` |
| `DeliveryProofs!TypeCorrect` | `Spec => []TypeOK` | `ConnInv`: only a connection pages, with a page size that was asked for, and has a cursor after its first page |
| `HistoryHasAll` | `Spec => []HistoryComplete`, below the cap | `PagedInv`: what was stored when the first page was read is held, or lies before the cursor while there is more; the lemmas about `Page` say that a page holds everything from its last row to the cursor, and that a page without `has_more` reaches the beginning |
| `NothingMissed` | `Spec => []CaughtUp`, below the cap | `CaughtInv`: a stored message that a paging client has not read and will not page to is not published, is still to come to the instance, or lies before the place where a new group began; a message that commits below a cursor that has passed is published only later, and so comes, or is handled before the client is registered and is in `early` |
| `AccountsProofs!TypeCorrect` | `Spec => []TypeOK` | `RequestInv` (`OpAt`, `DoneAt`, `TokenAt`): a request is at a call of its own handler, and has the token or the user that the call needs |
| `OwnMailbox` | `Spec => []MailboxIsOwn`, whatever fails | a code under the key of an address, now or by a late SETNX, was made for that address, and a code that somebody typed was mailed to the address it was made for |
| `LogoutHolds` | `Spec => []LoggedOutStaysOut`: about the access token, until its `exp` on the first clock, and but for requests that met a Redis error | `LogoutAt`, `StoppedAt`: the access token of an answered logout is on the blacklist until then, and a request that began later has not passed that check |
| `TokenSpentOnce` | `Spec => []SpentOnce`: about refreshes that begin after the answer, with the same exception | `SpentAt`, `RefusedAt`: a refresh token that bought a pair or was logged out is not in Redis, and who presents it later gets nothing |
| `UsableListed` | `Spec => []UsableIsListed`, with the same exception | `ListedAt`: SADD follows SET and SREM the DEL |

Few of the properties are inductive as they stand: most of the work is to say where a request
may be and what it then knows (`TxInv`, `ClaimInv`, `AcceptAt`, `RequestInv`) or in how many
places a thing may be (`PlacesInv`, `RegistryInv`). TLC finds the inductive invariants to hold
on the instances above. Steps that leave alone
what an invariant speaks of are grouped in a lemma (`...Frame`, `Quiet...`), so that a proof
has one case per action that matters.

Every invariant that a passing run checks is a theorem, and so are both refinements. Model-
checked only are the liveness properties `KeyResolved`, `MissedIsClosed`, `LeaverIsClosed`,
`ClosedPumpsEnd`, `CacheConverges`, `RequestsEnd` and `Delivered`: TLAPS does not do
liveness under fairness, nor ENABLED.

## Disagreements with the documentation

- `SendPath_commitLost`. `docs/消息流程.md:38` says that a resend with the same
  `client_msg_id` is never stored again. After a COMMIT whose reply is lost, `HandleSend`
  deletes the key (`chat.go:95`), no unique index covers the message, and the retry is
  stored a second time.
- `Hub_spillPanic`. `client.go:53` says that a panic of one connection must not bring
  the process down. A spill that copied a connection before Run removed and closed it
  sends on the closed channel (`hub.go:175`) in a goroutine without `recover`.
- `Hub_spillOrder`. `docs/项目中的kafka用法.md:195` lists what completes the ordering
  guarantee. A spill (`hub.go:153`) overtakes the events still in the broadcast channel.
- `Delivery_cap`. `Readme.md:413` allows pages of 100. `GetHistoryMessageByID` asks for one row
  more to learn whether there are more (`conversation.go:54-59`), and `ListMessageByConvID`
  cuts 101 down to 100 (`dao/message.go:33`): `has_more` is always false at the limit, and a
  client that pages until it is false never reads the rest.

Some more are in the models, where the properties leave room for them and no run of their
own is about them:

- A DEL of the idempotency key whose reply is lost is sent again by the Redis client
  (`redis.go:97`), or reported as failed and executed late; it may then delete the key of a
  message that another connection stored in between, and a resend is stored a second time
  (the fault `delLost`). The key of an e-mail code meets the same in `Accounts`.
- `WriteMessages` that returns because the 5 s are over leaves its event with the writer: it may
  come after events of the same connection's later frames to other conversations.
- `last_msg_at` starts at the creation time by one server's clock: a first message stamped by a
  server that is behind is not named by `last_msg_id` (`RowsMatchMessages` allows it).
- A reader that missed the cache may write an old list back after the DEL, until the TTL
  passes; the comments at `dao/conversation_state.go:115` and `group.go:145` mean to exclude it.
- Two users who apply to each other at once both have a pending application, which
  `Readme.md:480` excludes: the two checks of `ApplyFriend` precede its INSERT.
- Two refreshes that overlap both get a pair from one token, though `auth.go:45` speaks of
  rotation; a refresh beside a logout leaves a session that was not logged out.
- `AcceptApply` answers 500 when the chat of the pair was created between its two statements
  about it: the repeated SELECT reads an old snapshot. The application stays pending.
- `UpdateLastRead` answers "not a member" to a member who repeats a read within the
  millisecond of `updated_at`.
- As many `AddGroupMembers` as there are connections in the pool (50 by default), on different
  groups, each hold a row and wait for a second connection for good: the pool has no timeout,
  and an HTTP request has no deadline. `RequestsEnd` is checked with more connections than
  groups.
- An event delivered between the upgrade of a WebSocket and Run's `addClient` is not given to
  that connection, so a client that has read the history by then misses it (`early`).
- The mail says that a code is good for one minute (`sendemail.go:16`); it is for five
  (`const.go:22`).
- A WebSocket outlives the logout of the token that opened it, and `userSession` keeps
  refresh tokens that expired.

## What is not modelled, and the plan

Not modelled, because nothing in it holds state or interleaves:

- search (`handler/search.go` and the queries behind it): single read-only queries;
- configuration, logging, the set-up of MySQL, Redis and their schema, CORS, the debug page;
  of the set-up, the size of the connection pool is a constant of `Groups`;
- the binding and formatting of the HTTP layer and of frames: the handlers of the modelled
  routes are the first and last steps of their requests.

Not modelled, because the server never does it: `LogoutAll` and `InvalidateUser` have no
caller; no code writes `blocks`, deletes a friendship, pins or mutes a conversation, sets an
application to canceled, or changes a profile, so the profile cache cannot be stale.
`UsableIsListed` states what `LogoutAll` would rely on.

Left out of the modules: two instances of one consumer group (each instance has a group of
its own, so a rebalance only interrupts it, as a restart does); frames that cannot be
decoded; passwords and the text of mails. The early unregistration of a connection whose
registration Run has not taken yet is in `Hub`: the connection stays registered without pumps
until its buffer fills, and `LeaverIsClosed` makes no claim about it.

The plan:

1. An abstract bus that `Delivery` implements (every published event comes to every running
   instance's hub at least once, first copies in partition order, unless the instance's group
   is new).
2. An abstract membership service that `Groups` implements, with the one thing its cache adds
   to it: an answer may be any list since the group was made.
