--------------------------- MODULE DeliveryProofs ---------------------------
(***************************************************************************)
(* Theorems about Delivery for all sets of instances and clients, any      *)
(* number of messages and copies, and any crashes and failures.            *)
(***************************************************************************)
EXTENDS Delivery, FiniteSetTheorems, TLAPS

-----------------------------------------------------------------------------
(* Finite sets of numbers *)

\* A finite set of numbers has a greatest and a least element.
LEMMA Extremes ==
  ASSUME NEW S \in SUBSET Nat, IsFiniteSet(S), S # {}
  PROVE  /\ \E m \in S : \A x \in S : x <= m
         /\ \E m \in S : \A x \in S : m <= x
<1> DEFINE Above(m) == {x \in S : x > m}
           Below(m) == {x \in S : x < m}
           R == StrictSubsetOrdering(S)
<1>1. IsWellFoundedOn(R, SUBSET S)
  BY FS_FiniteSubsetsOfFinite, FS_StrictSubsetOrderingWellFounded
<1>2. \E m \in S : \A x \in S : x <= m
  <2> DEFINE T == {Above(m) : m \in S}
  <2>1. PICK A \in T : \A B \in T : <<B, A>> \notin R
    <3>1. T \subseteq SUBSET S /\ T # {}
      OBVIOUS
    <3> HIDE DEF T, R
    <3>. QED
      BY <1>1, <3>1, WFMin
  <2>2. PICK m \in S : A = Above(m)
    BY <2>1
  <2>3. ASSUME NEW x \in S, x > m PROVE FALSE
    <3>1. m \in Nat /\ \A y \in S : y \in Nat
      OBVIOUS
    <3>2. \A y \in S : y > x => y > m
      BY <2>3, <3>1
    <3>3. Above(x) \subseteq Above(m)
      BY <3>2
    <3>4. x \in Above(m) /\ x \notin Above(x)
      BY <2>3, <3>1
    <3>5. <<Above(x), A>> \in R
      BY <2>2, <3>3, <3>4 DEF StrictSubsetOrdering
    <3>. QED
      BY <2>1, <3>5
  <2>. QED
    BY <2>3
<1>3. \E m \in S : \A x \in S : m <= x
  <2> DEFINE T == {Below(m) : m \in S}
  <2>1. PICK A \in T : \A B \in T : <<B, A>> \notin R
    <3>1. T \subseteq SUBSET S /\ T # {}
      OBVIOUS
    <3> HIDE DEF T, R
    <3>. QED
      BY <1>1, <3>1, WFMin
  <2>2. PICK m \in S : A = Below(m)
    BY <2>1
  <2>3. ASSUME NEW x \in S, x < m PROVE FALSE
    <3>1. m \in Nat /\ \A y \in S : y \in Nat
      OBVIOUS
    <3>2. \A y \in S : y < x => y < m
      BY <2>3, <3>1
    <3>3. Below(x) \subseteq Below(m)
      BY <3>2
    <3>4. x \in Below(m) /\ x \notin Below(x)
      BY <2>3, <3>1
    <3>5. <<Below(x), A>> \in R
      BY <2>2, <3>3, <3>4 DEF StrictSubsetOrdering
    <3>. QED
      BY <2>1, <3>5
  <2>. QED
    BY <2>3
<1>. QED
  BY <1>2, <1>3

\* Sets of messages are finite.
LEMMA MsgsFinite ==
  ASSUME NEW S \in SUBSET Msgs
  PROVE  IsFiniteSet(S) /\ Cardinality(S) \in Nat /\ S \in SUBSET Nat
<1>1. IsFiniteSet(Msgs)
  BY ConstantsAssumption, FS_Interval DEF Msgs
<1>2. S \in SUBSET Nat
  BY ConstantsAssumption DEF Msgs
<1>. QED
  BY <1>1, <1>2, FS_Subset, FS_CardinalityType

\* The n newest of a set of messages.
Newest(S, n) == {m \in S : Cardinality({x \in S : x >= m}) <= n}

\* They are the newest: with a message they contain every newer one.
LEMMA NewestUpward ==
  ASSUME NEW S \in SUBSET Msgs, NEW n \in Nat, NEW m \in Newest(S, n), NEW x \in S, x >= m
  PROVE  x \in Newest(S, n)
<1> DEFINE Up(y) == {z \in S : z >= y}
<1>0. m \in S /\ \A y \in S : y \in Nat
  BY MsgsFinite DEF Newest
<1>1. Up(x) \subseteq Up(m) /\ Up(m) \in SUBSET Msgs /\ Up(x) \in SUBSET Msgs
  BY <1>0
<1>2. Cardinality(Up(x)) <= Cardinality(Up(m)) /\ Cardinality(Up(m)) <= n
  BY <1>1, MsgsFinite, FS_Subset DEF Newest
<1>3. Cardinality(Up(x)) \in Nat /\ Cardinality(Up(m)) \in Nat
  BY <1>1, MsgsFinite
<1>. QED
  BY <1>2, <1>3 DEF Newest

\* Some messages are among the n newest ones, if n is not 0.
LEMMA NewestSome ==
  ASSUME NEW S \in SUBSET Msgs, S # {}, NEW n \in Nat \ {0}
  PROVE  Newest(S, n) # {}
<1>1. PICK m \in S : \A x \in S : x <= m
  BY MsgsFinite, Extremes
<1>2. {x \in S : x >= m} = {m}
  BY <1>1, MsgsFinite
<1>3. Cardinality({x \in S : x >= m}) = 1
  BY <1>2, FS_Singleton
<1>. QED
  BY <1>3 DEF Newest

\* If fewer than n were taken, all were.
LEMMA NewestAll ==
  ASSUME NEW S \in SUBSET Msgs, NEW n \in Nat, Cardinality(Newest(S, n)) < n
  PROVE  Newest(S, n) = S
<1> DEFINE N == Newest(S, n)
           A == S \ N
<1>1. N \in SUBSET Msgs /\ A \in SUBSET Msgs /\ N \subseteq S
  BY DEF Newest
<1>2. ASSUME A # {} PROVE FALSE
  <2>1. PICK m \in A : \A x \in A : x <= m
    BY <1>1, <1>2, MsgsFinite, Extremes
  <2>2. m \in S /\ \A y \in S : y \in Nat
    BY <2>1, MsgsFinite
  <2>3. {x \in S : x >= m} \subseteq N \cup {m}
    BY <2>1, <2>2
  <2>4. N \cup {m} \in SUBSET Msgs /\ {x \in S : x >= m} \in SUBSET Msgs
    BY <1>1, <2>1
  <2>5. Cardinality({x \in S : x >= m}) <= Cardinality(N \cup {m})
    BY <2>3, <2>4, MsgsFinite, FS_Subset
  <2>6. Cardinality(N \cup {m}) <= Cardinality(N) + 1
    BY <1>1, MsgsFinite, FS_AddElement
  <2>7. Cardinality({x \in S : x >= m}) <= n
    BY <1>1, <2>4, <2>5, <2>6, MsgsFinite
  <2>. QED
    BY <2>1, <2>2, <2>7 DEF Newest
<1>. QED
  BY <1>1, <1>2

-----------------------------------------------------------------------------
(* The history page *)

\* The rows with a smaller id than the cursor.
Older(b) == {m \in Stored : b > 0 => m < b}

\* A page has no row that was not asked for; its last row is the next cursor; between
\* the two cursors no row is left out.  The last page has all older rows, provided the
\* row that tells whether there are more still fits under the DAO's cap.
LEMMA PageComplete ==
  ASSUME NEW b \in Nat, NEW n \in Limits
  PROVE  LET page == History(b, n) IN
         /\ page.items \subseteq Older(b)
         /\ page.next \in Msgs \cup {0}
         /\ page.hasMore => /\ page.next \in Msgs
                            /\ \A x \in Older(b) : x >= page.next => x \in page.items
         /\ ~page.hasMore /\ Clamp(n) < Cap => page.items = Older(b)
<1> DEFINE L == Clamp(n)
           R == Clamp(L + 1)
           rows == Newest(Older(b), R)
           items == Newest(rows, L)
           next == IF items = {} THEN 0 ELSE CHOOSE m \in items : \A x \in items : m <= x
<1>0. History(b, n) = [items |-> items, hasMore |-> Cardinality(rows) > L, next |-> next]
  BY DEF History, ListMessage, Newest, Older
<1>1. L \in Nat \ {0} /\ R \in Nat \ {0} /\ L <= Cap /\ (L < Cap => R = L + 1)
  BY ConstantsAssumption DEF Clamp
<1>2. /\ Older(b) \in SUBSET Msgs /\ rows \in SUBSET Msgs /\ items \in SUBSET Msgs
      /\ rows \subseteq Older(b) /\ items \subseteq rows
  BY DEF Older, Stored, Newest
<1>3. items # {} => next \in items /\ \A x \in items : next <= x
  BY <1>2, MsgsFinite, Extremes
<1> HIDE DEF next
<1>4. next \in Msgs \cup {0}
  BY <1>2, <1>3 DEF next
<1>5. Cardinality(rows) > L => next \in items
  <2>1. ASSUME Cardinality(rows) > L PROVE rows # {}
    BY <1>1, <2>1, FS_EmptySet
  <2>. QED
    BY <1>1, <1>2, <1>3, <2>1, NewestSome
<1>6. ASSUME next \in items, NEW x \in Older(b), x >= next PROVE x \in items
  <2>1. x \in rows
    BY <1>1, <1>2, <1>6, NewestUpward
  <2>. QED
    BY <1>1, <1>2, <1>6, <2>1, NewestUpward
<1>7. ASSUME ~(Cardinality(rows) > L), L < Cap PROVE items = Older(b)
  <2>1. Cardinality(rows) \in Nat /\ Cardinality(rows) <= L
    BY <1>1, <1>2, <1>7, MsgsFinite
  <2>2. rows = Older(b)
    BY <1>1, <1>2, <1>7, <2>1, NewestAll
  <2>3. \A m \in rows : Cardinality({x \in rows : x >= m}) <= L
    <3>1. ASSUME NEW m \in rows PROVE Cardinality({x \in rows : x >= m}) <= L
      <4>1. {x \in rows : x >= m} \in SUBSET Msgs /\ {x \in rows : x >= m} \in SUBSET rows
        BY <1>2
      <4>2. Cardinality({x \in rows : x >= m}) \in Nat
        BY <4>1, MsgsFinite
      <4>3. Cardinality({x \in rows : x >= m}) <= Cardinality(rows)
        BY <1>2, <4>1, MsgsFinite, FS_Subset
      <4>. QED
        BY <1>1, <2>1, <4>2, <4>3
    <3>. QED
      BY <3>1
  <2>. QED
    BY <2>2, <2>3 DEF Newest
<1> DEFINE page == History(b, n)
<1>8. page.items = items /\ page.next = next /\ page.hasMore = (Cardinality(rows) > L)
  BY <1>0
<1> HIDE DEF L, R, rows, items, page
<1>9. page.hasMore => page.next \in Msgs /\ \A x \in Older(b) : x >= page.next => x \in page.items
  BY <1>2, <1>5, <1>6, <1>8
<1>10. ~page.hasMore /\ L < Cap => page.items = Older(b)
  BY <1>7, <1>8
<1>11. page.items \subseteq Older(b) /\ page.next \in Msgs \cup {0}
  BY <1>2, <1>4, <1>8
<1>. QED
  BY <1>9, <1>10, <1>11 DEF L, page

-----------------------------------------------------------------------------
(* The invariant *)

\* A connection has a page size that was asked for; only a connection pages, and only
\* after its first page it has a cursor.
ConnInv ==
  \A c \in Clients :
    /\ conn[c] # NoInstance => limit[c] \in Limits
    /\ conn[c] = NoInstance => paging[c] = "no" /\ ~reg[c]
    /\ paging[c] = "no" => before[c] = 0
    /\ paging[c] = "more" => before[c] # 0

\* Only a consumer that has the partition began anywhere.
BaseInv == \A i \in Instances : ~joined[i] => base[i] = None

\* A client that pages has message m, or it is on a page to come.
Read(c, m) == m \in got[c] \/ (paging[c] = "more" /\ m < before[c])

\* What was stored when a client read its first page is read.
PagedInv ==
  \A c \in Clients : paging[c] # "no" =>
    wanted[c] \subseteq Stored /\ \A m \in wanted[c] : Read(c, m)

\* The event of m comes to the connections of instance i.
Comes(i, m) == \E k \in DOMAIN topic : topic[k] = m /\ Coming(i, k)

\* No published message passes by a client that pages, but for those its hub handled
\* while it was not registered.
CaughtInv ==
  \A c \in Clients : paging[c] # "no" =>
    \A m \in Stored : \/ Read(c, m) \/ m \in early[c] \/ stage[m] # "published"
                      \/ Comes(conn[c], m) \/ Skipped(conn[c], m)

\* The kinds of steps.
LEMMA Kinds ==
  ASSUME [Next]_vars
  PROVE  \/ \E m \in Msgs : SendStep(m)
         \/ \E i \in Instances : \/ Join(i) \/ Handle(i) \/ Commit(i)
                                 \/ \E k \in inHub[i] : Deliver(i, k)
         \/ \E i \in Instances : BeginClose(i) \/ CloseBus(i) \/ Start(i)
         \/ \E i \in Instances : Die(i)
         \/ \E c \in Clients : (\E i \in Instances : Connect(c, i)) \/ Registered(c)
         \/ \E c \in Clients : Disconnect(c)
         \/ \E c \in Clients : Page(c)
         \/ UNCHANGED vars
BY DEF Next, InstanceStep, ClosingStep, Crash, Exit

\* The answer to a client that asks for a page.
Answer(c) == History(before[c], limit[c])

\* It is a page of the history up to the client's cursor.
LEMMA AnswerPage ==
  ASSUME TypeOK, ConnInv, NEW c \in Clients, conn[c] # NoInstance
  PROVE  /\ Answer(c).items \subseteq Older(before[c])
         /\ Answer(c).next \in Msgs \cup {0}
         /\ Answer(c).hasMore =>
              /\ Answer(c).next \in Msgs
              /\ \A x \in Older(before[c]) : x >= Answer(c).next => x \in Answer(c).items
         /\ ~Answer(c).hasMore /\ Clamp(limit[c]) < Cap => Answer(c).items = Older(before[c])
<1>1. before[c] \in Nat /\ limit[c] \in Limits
  BY ConstantsAssumption DEF TypeOK, ConnInv, Msgs
<1>. QED
  BY <1>1, PageComplete DEF Answer

\* Every variable keeps its type.
LEMMA TypeInductive ==
  ASSUME TypeOK, ConnInv, [Next]_vars
  PROVE  TypeOK'
<1> USE ConstantsAssumption DEF sends, consumers, pages, clients
<1>1. ASSUME NEW m \in Msgs, SendStep(m) PROVE TypeOK'
  <2>1. CASE Insert(m) \/ EndTx(m) \/ CheckClosed(m) \/ WriteFails(m)
    <3>1. \E t \in Stages : stage' = [stage EXCEPT ![m] = t]
      BY <2>1 DEF Insert, EndTx, CheckClosed, WriteFails, At, Stages
    <3>2. stage' \in [Msgs -> Stages]
      BY <3>1 DEF TypeOK
    <3>3. UNCHANGED <<via, topic, phase, consumers, clients>>
      BY <2>1 DEF Insert, EndTx, CheckClosed, WriteFails
    <3>. QED
      BY <3>2, <3>3 DEF TypeOK
  <2>2. CASE Write(m) \/ LateWrite(m)
    <3>1. topic' = Append(topic, m) /\ stage' \in [Msgs -> Stages]
      BY <2>2 DEF Write, LateWrite, At, TypeOK, Stages
    <3>2. topic' \in Seq(Msgs) /\ Len(topic') = Len(topic) + 1 /\ Len(topic) \in Nat
      BY <3>1 DEF TypeOK
    <3>3. DOMAIN topic \subseteq DOMAIN topic'
      <4>1. DOMAIN topic = 1..Len(topic) /\ DOMAIN topic' = 1..Len(topic')
        BY <3>2 DEF TypeOK
      <4>. QED
        BY <3>2, <4>1
    <3>. QED
      BY <2>2, <3>1, <3>2, <3>3 DEF Write, LateWrite, TypeOK
  <2>. QED
    BY <1>1, <2>1, <2>2 DEF SendStep
<1>2. ASSUME NEW i \in Instances, Join(i) PROVE TypeOK'
  <2>1. Len(topic) \in Nat
    BY DEF TypeOK
  <2>2. CASE offset[i] = None
    <3>1. /\ pos' = [pos EXCEPT ![i] = Len(topic) + 1]
          /\ base' = [base EXCEPT ![i] = Len(topic) + 1]
      BY <1>2, <2>2 DEF Join
    <3>2. pos' \in [Instances -> 1..Len(topic) + 1] /\ base' \in [Instances -> 0..Len(topic) + 1]
      BY <2>1, <3>1 DEF TypeOK
    <3>. QED
      BY <1>2, <3>2 DEF Join, TypeOK
  <2>3. CASE offset[i] # None
    <3>1. offset[i] \in 1..Len(topic) + 1
      BY <2>1, <2>3 DEF TypeOK, None
    <3>2. pos' = [pos EXCEPT ![i] = offset[i]] /\ base' = [base EXCEPT ![i] = None]
      BY <1>2, <2>3 DEF Join
    <3>3. pos' \in [Instances -> 1..Len(topic) + 1] /\ base' \in [Instances -> 0..Len(topic) + 1]
      BY <2>1, <3>1, <3>2 DEF TypeOK, None
    <3>. QED
      BY <1>2, <3>3 DEF Join, TypeOK
  <2>. QED
    BY <2>2, <2>3
<1>3. ASSUME NEW i \in Instances, Handle(i) PROVE TypeOK'
  <2>1. pos[i] \in DOMAIN topic /\ pos[i] + 1 \in 1..Len(topic)+1
    BY <1>3 DEF Handle, Fetches, TypeOK
  <2>. QED
    BY <1>3, <2>1 DEF Handle, TypeOK
<1>4. ASSUME NEW i \in Instances, Commit(i) PROVE TypeOK'
  <2>1. pos[i] \in 0..Len(topic) + 1 /\ offset' = [offset EXCEPT ![i] = pos[i]]
    BY <1>4 DEF Commit, TypeOK
  <2>2. offset' \in [Instances -> 0..Len(topic) + 1]
    BY <2>1 DEF TypeOK
  <2>3. UNCHANGED <<sends, topic, phase, joined, pos, base, inHub, clients>>
    BY <1>4 DEF Commit
  <2>. QED
    BY <2>2, <2>3 DEF TypeOK
<1>5. ASSUME NEW i \in Instances, NEW k \in inHub[i], Deliver(i, k) PROVE TypeOK'
  <2>1. topic[k] \in Msgs
    BY DEF TypeOK
  <2>. QED
    BY <1>5, <2>1 DEF Deliver, TypeOK
<1>6. ASSUME NEW i \in Instances, BeginClose(i) \/ CloseBus(i) \/ Start(i) PROVE TypeOK'
  BY <1>6 DEF BeginClose, CloseBus, Start, TypeOK
<1>7. ASSUME NEW i \in Instances, Die(i) PROVE TypeOK'
  <2>1. Len(topic) \in Nat
    BY DEF TypeOK
  <2>2. stage' \in [Msgs -> Stages]
    BY <1>7 DEF Die, TypeOK, Stages
  <2>. QED
    BY <1>7, <2>1, <2>2 DEF Die, Gone, TypeOK, None
<1>8. ASSUME NEW c \in Clients, NEW i \in Instances, Connect(c, i) PROVE TypeOK'
  BY <1>8 DEF Connect, TypeOK
<1>9. ASSUME NEW c \in Clients, Registered(c) PROVE TypeOK'
  BY <1>9 DEF Registered, TypeOK
<1>10. ASSUME NEW c \in Clients, Disconnect(c) PROVE TypeOK'
  BY <1>10 DEF Disconnect, Gone, TypeOK
<1>11. ASSUME NEW c \in Clients, Page(c) PROVE TypeOK'
  <2>1. Answer(c).items \subseteq Msgs /\ Answer(c).next \in Msgs \cup {0}
    BY <1>11, AnswerPage DEF Page, Older, Stored
  <2>2. got' \in [Clients -> SUBSET Msgs] /\ before' \in [Clients -> Msgs \cup {0}]
    BY <1>11, <2>1 DEF Page, TypeOK, Answer
  <2>3. Stored \subseteq Msgs
    BY DEF Stored
  <2>. QED
    BY <1>11, <2>2, <2>3 DEF Page, TypeOK
<1>12. CASE UNCHANGED vars
  BY <1>12 DEF vars, TypeOK
<1>. QED
  BY <1>1, <1>2, <1>3, <1>4, <1>5, <1>6, <1>7, <1>8, <1>9, <1>10, <1>11, <1>12, Kinds

\* Cursors, page sizes and places to begin stay in order.
LEMMA ConnInductive ==
  ASSUME TypeOK, ConnInv, BaseInv, [Next]_vars
  PROVE  ConnInv' /\ BaseInv'
<1> USE DEF sends, consumers, pages, clients, ConnInv, BaseInv
<1>1. ASSUME NEW m \in Msgs, SendStep(m) PROVE ConnInv' /\ BaseInv'
  BY <1>1 DEF SendStep, Insert, EndTx, CheckClosed, Write, WriteFails, LateWrite
<1>2. ASSUME NEW i \in Instances, Join(i) \/ Handle(i) \/ Commit(i) \/ \E k \in inHub[i] : Deliver(i, k)
      PROVE  ConnInv' /\ BaseInv'
  <2>1. UNCHANGED <<conn, reg, pages>>
    BY <1>2 DEF Join, Handle, Commit, Deliver
  <2>2. \A j \in Instances : ~joined'[j] => ~joined[j] /\ base'[j] = base[j]
    BY <1>2 DEF Join, Handle, Commit, Deliver, TypeOK
  <2>. QED
    BY <2>1, <2>2
<1>3. ASSUME NEW i \in Instances, BeginClose(i) \/ CloseBus(i) \/ Start(i)
      PROVE  ConnInv' /\ BaseInv'
  BY <1>3 DEF BeginClose, CloseBus, Start
<1>4. ASSUME NEW i \in Instances, Die(i) PROVE ConnInv' /\ BaseInv'
  BY <1>4 DEF Die, Gone, TypeOK
<1>5. ASSUME NEW c \in Clients, (\E i \in Instances : Connect(c, i)) \/ Registered(c)
      PROVE  ConnInv' /\ BaseInv'
  <2>1. CASE Registered(c)
    BY <2>1 DEF Registered, TypeOK
  <2>2. CASE \E i \in Instances : Connect(c, i)
    BY <2>2, ConstantsAssumption DEF Connect, TypeOK
  <2>. QED
    BY <1>5, <2>1, <2>2
<1>6. ASSUME NEW c \in Clients, Disconnect(c) PROVE ConnInv' /\ BaseInv'
  BY <1>6 DEF Disconnect, Gone, TypeOK
<1>7. ASSUME NEW c \in Clients, Page(c) PROVE ConnInv' /\ BaseInv'
  <2>1. Answer(c).hasMore => Answer(c).next # 0
    BY <1>7, AnswerPage, ConstantsAssumption DEF Page, Msgs
  <2>. QED
    BY <1>7, <2>1 DEF Page, Answer, TypeOK
<1>8. CASE UNCHANGED vars
  BY <1>8 DEF vars
<1>. QED
  BY <1>1, <1>2, <1>3, <1>4, <1>5, <1>6, <1>7, <1>8, Kinds

-----------------------------------------------------------------------------
(* Paging *)

\* Pages stay below the cap, so that the row that tells whether there are more fits.
BelowCap == \A n \in Limits : Clamp(n) < Cap

\* Rows stay, and no message is published by the step that stores it.
RowsKept ==
  /\ Stored \subseteq Stored'
  /\ \A m \in Msgs : m \notin Stored => stage'[m] # "published"

\* Every step keeps the rows.
LEMMA RowsStay ==
  ASSUME TypeOK, [Next]_vars
  PROVE  RowsKept
<1> USE DEF sends, Stored, RowsKept
<1>1. ASSUME NEW m \in Msgs, SendStep(m) PROVE RowsKept
  BY <1>1 DEF SendStep, Insert, EndTx, CheckClosed, Write, WriteFails, LateWrite, At, TypeOK
<1>2. ASSUME NEW i \in Instances, Join(i) \/ Handle(i) \/ Commit(i) \/ \E k \in inHub[i] : Deliver(i, k)
      PROVE  stage' = stage
  BY <1>2 DEF Join, Handle, Commit, Deliver
<1>3. ASSUME NEW i \in Instances, BeginClose(i) \/ CloseBus(i) \/ Start(i)
      PROVE  stage' = stage
  BY <1>3 DEF BeginClose, CloseBus, Start
<1>4. ASSUME NEW i \in Instances, Die(i) PROVE RowsKept
  BY <1>4 DEF Die, TypeOK
<1>5. ASSUME NEW c \in Clients, \/ (\E i \in Instances : Connect(c, i)) \/ Registered(c)
                                \/ Disconnect(c) \/ Page(c)
      PROVE  stage' = stage
  BY <1>5 DEF Connect, Registered, Disconnect, Page
<1>6. CASE UNCHANGED vars
  BY <1>6 DEF vars
<1>. QED
  BY <1>1, <1>2, <1>3, <1>4, <1>5, <1>6, Kinds

\* A step leaves the paging of a client alone, unless it pages or its connection ends.
LEMMA ClientMoves ==
  ASSUME TypeOK, ConnInv, [Next]_vars, NEW c \in Clients
  PROVE  \/ Page(c)
         \/ paging'[c] = "no"
         \/ /\ paging'[c] = paging[c] /\ before'[c] = before[c] /\ wanted'[c] = wanted[c]
            /\ conn'[c] = conn[c] /\ got[c] \subseteq got'[c] /\ early[c] \subseteq early'[c]
<1> USE DEF clients, pages, TypeOK
<1>1. ASSUME NEW m \in Msgs, SendStep(m) PROVE UNCHANGED clients
  BY <1>1 DEF SendStep, Insert, EndTx, CheckClosed, Write, WriteFails, LateWrite
<1>2. ASSUME NEW i \in Instances, Join(i) \/ Handle(i) \/ Commit(i) PROVE UNCHANGED clients
  BY <1>2 DEF Join, Handle, Commit
<1>3. ASSUME NEW i \in Instances, NEW k \in inHub[i], Deliver(i, k)
      PROVE  /\ UNCHANGED <<conn, reg, pages>>
             /\ got[c] \subseteq got'[c] /\ early[c] \subseteq early'[c]
  BY <1>3 DEF Deliver
<1>4. ASSUME NEW i \in Instances, BeginClose(i) \/ CloseBus(i) \/ Start(i)
      PROVE  UNCHANGED clients
  BY <1>4 DEF BeginClose, CloseBus, Start
<1>5. ASSUME NEW i \in Instances, Die(i)
      PROVE  \/ paging'[c] = "no"
             \/ /\ paging'[c] = paging[c] /\ before'[c] = before[c] /\ wanted'[c] = wanted[c]
                /\ conn'[c] = conn[c] /\ early'[c] = early[c] /\ got'[c] = got[c]
  BY <1>5 DEF Die, Gone
<1>6. ASSUME NEW d \in Clients, NEW i \in Instances, Connect(d, i)
      PROVE  \/ paging'[c] = "no"
             \/ /\ UNCHANGED <<paging, before, wanted, early, got>> /\ conn'[c] = conn[c]
  BY <1>6 DEF Connect, ConnInv
<1>7. ASSUME NEW d \in Clients, Registered(d)
      PROVE  UNCHANGED <<conn, pages, got, early>>
  BY <1>7 DEF Registered
<1>8. ASSUME NEW d \in Clients, Disconnect(d)
      PROVE  \/ paging'[c] = "no"
             \/ /\ paging'[c] = paging[c] /\ before'[c] = before[c] /\ wanted'[c] = wanted[c]
                /\ conn'[c] = conn[c] /\ early'[c] = early[c] /\ got'[c] = got[c]
  BY <1>8 DEF Disconnect, Gone
<1>9. ASSUME NEW d \in Clients, Page(d), d # c
      PROVE  /\ paging'[c] = paging[c] /\ before'[c] = before[c] /\ wanted'[c] = wanted[c]
             /\ conn'[c] = conn[c] /\ early'[c] = early[c] /\ got'[c] = got[c]
  BY <1>9 DEF Page
<1>10. CASE UNCHANGED vars
  BY <1>10 DEF vars
<1>. QED
  BY <1>1, <1>2, <1>3, <1>4, <1>5, <1>6, <1>7, <1>8, <1>9, <1>10, Kinds

\* After a page the client has every row on it, and what is older is on pages to come.
LEMMA PageReads ==
  ASSUME BelowCap, TypeOK, ConnInv, NEW c \in Clients, Page(c)
  PROVE  /\ stage' = stage /\ topic' = topic /\ UNCHANGED <<consumers, conn, early>>
         /\ paging'[c] # "no"
         /\ wanted'[c] = IF paging[c] = "no" THEN Stored ELSE wanted[c]
         /\ \A m \in Stored : Read(c, m) \/ paging[c] = "no" => Read(c, m)'
<1>1. stage' = stage /\ topic' = topic /\ UNCHANGED <<consumers, conn, early>>
  BY DEF Page, sends
<1>2. /\ wanted'[c] = IF paging[c] = "no" THEN Stored ELSE wanted[c]
      /\ paging'[c] # "no"
      /\ got'[c] = got[c] \cup Answer(c).items
      /\ before'[c] = Answer(c).next
      /\ paging'[c] = IF Answer(c).hasMore THEN "more" ELSE "done"
  BY DEF Page, Answer, TypeOK
<1>3. ASSUME NEW m \in Stored, Read(c, m) \/ paging[c] = "no"
      PROVE  m \in got'[c] \/ (paging'[c] = "more" /\ m < before'[c])
  <2>1. CASE m \in got[c]
    BY <1>2, <2>1
  <2>2. CASE m \in Older(before[c])
    <3>1. CASE Answer(c).hasMore
      <4>1. Answer(c).next \in Msgs /\ (m >= Answer(c).next => m \in Answer(c).items)
        BY <2>2, <3>1, AnswerPage DEF Page
      <4>2. m \in Nat /\ Answer(c).next \in Nat
        BY <4>1, ConstantsAssumption DEF Stored, Msgs
      <4>. QED
        BY <1>2, <3>1, <4>1, <4>2
    <3>2. CASE ~Answer(c).hasMore
      <4>1. Clamp(limit[c]) < Cap
        BY DEF Page, ConnInv, BelowCap
      <4>2. Answer(c).items = Older(before[c])
        BY <3>2, <4>1, AnswerPage DEF Page
      <4>. QED
        BY <1>2, <2>2, <4>2
    <3>. QED
      BY <3>1, <3>2
  <2>3. m \in got[c] \/ m \in Older(before[c])
    BY <1>3 DEF Read, Older, ConnInv
  <2>. QED
    BY <2>1, <2>2, <2>3
<1>. QED
  BY <1>1, <1>2, <1>3 DEF Read

\* What was stored at the first page stays read.
LEMMA PagedInductive ==
  ASSUME BelowCap, TypeOK, ConnInv, PagedInv, [Next]_vars
  PROVE  PagedInv'
<1> SUFFICES ASSUME NEW c \in Clients, paging'[c] # "no"
             PROVE  wanted'[c] \subseteq Stored' /\ \A m \in wanted'[c] : Read(c, m)'
  BY DEF PagedInv
<1>1. Stored \subseteq Stored'
  BY RowsStay DEF RowsKept
<1>2. CASE Page(c)
  <2>1. wanted'[c] \subseteq Stored /\ \A m \in wanted'[c] : Read(c, m) \/ paging[c] = "no"
    BY <1>2, PageReads DEF PagedInv
  <2>. QED
    BY <1>1, <1>2, <2>1, PageReads
<1>3. CASE ~Page(c)
  BY <1>1, <1>3, ClientMoves DEF PagedInv, Read
<1>. QED
  BY <1>2, <1>3

-----------------------------------------------------------------------------
(* Events *)

\* A step that does not touch the topic and the consumer of an instance leaves alone what
\* comes to it.
LEMMA SamePlaces ==
  ASSUME NEW i \in Instances, NEW m \in Msgs, topic' = topic,
         joined'[i] = joined[i], pos'[i] = pos[i], offset'[i] = offset[i], base'[i] = base[i],
         inHub'[i] = inHub[i]
  PROVE  Comes(i, m)' = Comes(i, m) /\ Skipped(i, m)' = Skipped(i, m)
BY DEF Comes, Coming, Skipped

\* The event that is written is at a place every consumer comes to.
LEMMA WrittenComes ==
  ASSUME TypeOK, NEW i \in Instances, NEW m \in Msgs, NEW n \in Msgs,
         Write(n) \/ LateWrite(n),
         Comes(i, m) \/ Skipped(i, m) \/ n = m
  PROVE  Comes(i, m)' \/ Skipped(i, m)'
<1>0. PICK last \in Nat : last = Len(topic) + 1
  BY DEF TypeOK
<1>1. topic' = Append(topic, n) /\ UNCHANGED consumers /\ topic \in Seq(Msgs)
  BY DEF Write, LateWrite, TypeOK
<1>2. /\ DOMAIN topic' = DOMAIN topic \cup {last} /\ topic'[last] = n
      /\ \A k \in DOMAIN topic : topic'[k] = topic[k]
  BY <1>0, <1>1
<1>3. Coming(i, last)'
  <2>1. pos[i] <= last /\ offset[i] <= last
    BY <1>0 DEF TypeOK
  <2>. QED
    BY <1>1, <2>1 DEF Coming, consumers
<1>4. CASE n = m
  BY <1>2, <1>3, <1>4 DEF Comes
<1>5. CASE Comes(i, m)
  BY <1>1, <1>2, <1>5 DEF Comes, Coming, consumers
<1>6. CASE n # m /\ Skipped(i, m)
  BY <1>1, <1>2, <1>6 DEF Skipped, consumers
<1>. QED
  BY <1>4, <1>5, <1>6

\* A consumer that gets the partition starts where its group stopped; a new group skips
\* what there is.
LEMMA JoinedComes ==
  ASSUME TypeOK, BaseInv, NEW i \in Instances, NEW m \in Msgs, Join(i),
         Comes(i, m) \/ Skipped(i, m)
  PROVE  Comes(i, m)' \/ Skipped(i, m)'
<1>1. /\ ~joined[i] /\ joined'[i] = TRUE /\ topic' = topic /\ inHub' = inHub /\ offset' = offset
      /\ base[i] = None
  BY DEF Join, TypeOK, BaseInv
<1>2. CASE offset[i] = None
  <2>1. base'[i] = Len(topic) + 1
    BY <1>2 DEF Join, TypeOK
  <2>2. \A k \in DOMAIN topic : k < Len(topic) + 1
    BY DEF TypeOK
  <2>. QED
    BY <1>1, <2>1, <2>2 DEF Skipped
<1>3. CASE offset[i] # None
  <2>1. pos'[i] = offset[i] /\ base'[i] = None
    BY <1>3 DEF Join, TypeOK
  <2>2. CASE Comes(i, m)
    BY <1>1, <2>1, <2>2 DEF Comes, Coming
  <2>3. CASE Skipped(i, m)
    <3>1. \A k \in DOMAIN topic : topic[k] # m
      BY <1>1, <1>3, <2>3 DEF Skipped, None, TypeOK
    <3>. QED
      BY <1>1, <3>1 DEF Skipped
  <2>. QED
    BY <2>2, <2>3
<1>. QED
  BY <1>2, <1>3

\* What comes to an instance goes on coming until its hub delivers it or the process
\* ends; what is published comes to all, unless a new group skips it.
LEMMA EventMoves ==
  ASSUME TypeOK, BaseInv, [Next]_vars, NEW i \in Instances, NEW m \in Msgs,
         \/ Comes(i, m) \/ Skipped(i, m)
         \/ stage[m] # "published" /\ stage'[m] = "published"
  PROVE  \/ Comes(i, m)' \/ Skipped(i, m)'
         \/ \E k \in inHub[i] : Deliver(i, k) /\ topic[k] = m
         \/ Die(i)
<1> USE DEF TypeOK
<1>1. ASSUME NEW n \in Msgs, SendStep(n) PROVE Comes(i, m)' \/ Skipped(i, m)'
  <2>1. CASE Write(n) \/ LateWrite(n)
    <3>1. Comes(i, m) \/ Skipped(i, m) \/ n = m
      BY <2>1 DEF Write, LateWrite, At
    <3>. QED
      BY <2>1, <3>1, WrittenComes
  <2>2. CASE Insert(n) \/ EndTx(n) \/ CheckClosed(n) \/ WriteFails(n)
    <3>1. topic' = topic /\ UNCHANGED consumers
      BY <2>2 DEF Insert, EndTx, CheckClosed, WriteFails
    <3>2. stage'[m] = "published" => stage[m] = "published"
      BY <2>2 DEF Insert, EndTx, CheckClosed, WriteFails, At
    <3>. QED
      BY <3>1, <3>2, SamePlaces DEF consumers
  <2>. QED
    BY <1>1, <2>1, <2>2 DEF SendStep
<1>2. ASSUME NEW j \in Instances, Join(j) PROVE Comes(i, m)' \/ Skipped(i, m)'
  <2>1. Comes(i, m) \/ Skipped(i, m)
    BY <1>2 DEF Join, sends
  <2>2. CASE i = j
    BY <1>2, <2>1, <2>2, JoinedComes
  <2>3. CASE i # j
    BY <1>2, <2>1, <2>3, SamePlaces DEF Join
  <2>. QED
    BY <2>2, <2>3
<1>3. ASSUME NEW j \in Instances, Handle(j) PROVE Comes(i, m)' \/ Skipped(i, m)'
  <2>1. Comes(i, m) \/ Skipped(i, m)
    BY <1>3 DEF Handle, sends
  <2>2. topic' = topic /\ UNCHANGED <<joined, offset, base>>
    BY <1>3 DEF Handle
  <2>3. CASE Skipped(i, m)
    BY <2>2, <2>3 DEF Skipped
  <2>4. CASE Comes(i, m)
    <3>1. PICK k \in DOMAIN topic : topic[k] = m /\ Coming(i, k)
      BY <2>4 DEF Comes
    <3>2. Coming(i, k)'
      BY <1>3, <2>2, <3>1 DEF Handle, Fetches, Coming
    <3>. QED
      BY <2>2, <3>1, <3>2 DEF Comes
  <2>. QED
    BY <2>1, <2>3, <2>4
<1>4. ASSUME NEW j \in Instances, Commit(j) PROVE Comes(i, m)' \/ Skipped(i, m)'
  <2>1. Comes(i, m) \/ Skipped(i, m)
    BY <1>4 DEF Commit, sends
  <2>2. CASE i = j
    BY <1>4, <2>1, <2>2 DEF Commit, Comes, Coming, Skipped
  <2>3. CASE i # j
    BY <1>4, <2>1, <2>3, SamePlaces DEF Commit
  <2>. QED
    BY <2>2, <2>3
<1>5. ASSUME NEW j \in Instances, NEW k \in inHub[j], Deliver(j, k), ~(j = i /\ topic[k] = m)
      PROVE  Comes(i, m)' \/ Skipped(i, m)'
  <2>1. Comes(i, m) \/ Skipped(i, m)
    BY <1>5 DEF Deliver, sends
  <2>2. CASE i = j
    BY <1>5, <2>1, <2>2 DEF Deliver, Comes, Coming, Skipped
  <2>3. CASE i # j
    BY <1>5, <2>1, <2>3, SamePlaces DEF Deliver
  <2>. QED
    BY <2>2, <2>3
<1>6. ASSUME \/ \E j \in Instances : BeginClose(j) \/ CloseBus(j) \/ Start(j)
             \/ \E c \in Clients : (\E j \in Instances : Connect(c, j)) \/ Registered(c)
             \/ \E c \in Clients : Disconnect(c) \/ Page(c)
             \/ UNCHANGED vars
      PROVE  Comes(i, m)' \/ Skipped(i, m)'
  <2>1. stage' = stage /\ topic' = topic /\ UNCHANGED consumers
    BY <1>6 DEF BeginClose, CloseBus, Start, Connect, Registered, Disconnect, Page, vars, sends
  <2>. QED
    BY <2>1, SamePlaces DEF consumers
<1>7. ASSUME NEW j \in Instances, Die(j), j # i PROVE Comes(i, m)' \/ Skipped(i, m)'
  <2>1. Comes(i, m) \/ Skipped(i, m)
    BY <1>7 DEF Die
  <2>. QED
    BY <1>7, <2>1, SamePlaces DEF Die
<1>. QED
  BY <1>1, <1>2, <1>3, <1>4, <1>5, <1>6, <1>7, Kinds

\* Every step keeps CaughtInv.
LEMMA CaughtInductive ==
  ASSUME BelowCap, TypeOK, ConnInv, BaseInv, CaughtInv, [Next]_vars
  PROVE  CaughtInv'
<1> SUFFICES ASSUME NEW c \in Clients, paging'[c] # "no"
             PROVE  \A m \in Stored' : \/ Read(c, m)' \/ m \in early'[c] \/ stage'[m] # "published"
                                       \/ Comes(conn[c], m)' \/ Skipped(conn[c], m)'
  BY DEF CaughtInv
<1>1. CASE Page(c)
  <2>1. /\ stage' = stage /\ topic' = topic /\ UNCHANGED <<consumers, conn, early>>
        /\ \A m \in Stored : Read(c, m) \/ paging[c] = "no" => Read(c, m)'
    BY <1>1, PageReads
  <2>2. PICK i \in Instances : i = conn[c]
    BY <1>1 DEF Page, TypeOK
  <2>3. \A m \in Msgs : Comes(i, m)' = Comes(i, m) /\ Skipped(i, m)' = Skipped(i, m)
    BY <2>1, SamePlaces DEF consumers
  <2>4. Stored' = Stored /\ Stored \subseteq Msgs
    BY <2>1 DEF Stored
  <2>. QED
    BY <2>1, <2>2, <2>3, <2>4 DEF CaughtInv
<1>2. CASE ~Page(c)
  <2>1. /\ paging'[c] = paging[c] /\ before'[c] = before[c] /\ conn'[c] = conn[c]
        /\ got[c] \subseteq got'[c] /\ early[c] \subseteq early'[c]
    BY <1>2, ClientMoves
  <2>2. PICK i \in Instances : i = conn[c] /\ i = conn'[c]
    BY <2>1 DEF TypeOK, ConnInv
  <2>3. \A m \in Stored : \/ Read(c, m) \/ m \in early[c] \/ stage[m] # "published"
                         \/ Comes(i, m) \/ Skipped(i, m)
    BY <2>1, <2>2 DEF CaughtInv
  <2>4. ASSUME NEW m \in Stored', ~Read(c, m)', m \notin early'[c], stage'[m] = "published"
        PROVE  Comes(i, m)' \/ Skipped(i, m)'
    <3>1. m \in Msgs /\ m \in Stored
      BY <2>4, RowsStay DEF RowsKept, Stored
    <3>2. ~Read(c, m) /\ m \notin early[c]
      BY <2>1, <2>4 DEF Read
    <3>3. ~Die(i)
      BY <2>1, <2>2 DEF Die, Gone
    <3>4. ASSUME NEW k \in inHub[i], Deliver(i, k), topic[k] = m PROVE FALSE
      <4>1. CASE reg[c]
        BY <2>2, <2>4, <3>4, <4>1 DEF Deliver, Read
      <4>2. CASE ~reg[c]
        BY <2>1, <2>2, <2>4, <3>4, <4>2 DEF Deliver
      <4>. QED
        BY <4>1, <4>2
    <3>. QED
      BY <2>3, <2>4, <3>1, <3>2, <3>3, <3>4, EventMoves
  <2>. QED
    BY <2>1, <2>2, <2>4
<1>. QED
  BY <1>1, <1>2

-----------------------------------------------------------------------------
(* The theorems *)

\* Types, cursors and places to begin are in order in every state.
LEMMA Invariant == Spec => [](TypeOK /\ ConnInv /\ BaseInv)
<1>1. Init => TypeOK /\ ConnInv /\ BaseInv
  <2> SUFFICES ASSUME Init PROVE TypeOK /\ ConnInv /\ BaseInv
    OBVIOUS
  <2>1. topic \in Seq(Msgs) /\ Len(topic) = 0 /\ DOMAIN topic = {}
    BY DEF Init
  <2>2. offset \in [Instances -> {0, 1}]
    BY DEF Init, None
  <2>3. pos \in [Instances -> 1..Len(topic) + 1] /\ base \in [Instances -> 0..Len(topic) + 1]
    BY <2>1 DEF Init, None
  <2>4. offset \in [Instances -> 0..Len(topic) + 1]
    BY <2>1, <2>2
  <2>5. TypeOK
    BY <2>1, <2>3, <2>4 DEF Init, TypeOK, Stages
  <2>6. ConnInv /\ BaseInv
    BY DEF Init, ConnInv, BaseInv
  <2>. QED
    BY <2>5, <2>6
<1>2. (TypeOK /\ ConnInv /\ BaseInv) /\ [Next]_vars => (TypeOK /\ ConnInv /\ BaseInv)'
  BY TypeInductive, ConnInductive
<1>. QED
  BY <1>1, <1>2, PTL DEF Spec

\* Every variable keeps its type: consumers, offsets and hubs refer to places in the
\* topic, cursors to messages.
THEOREM TypeCorrect == Spec => []TypeOK
BY Invariant, PTL

\* Paging brings everything that was stored when the first page was read, whatever commits
\* in between, as long as no page is as large as the cap.
THEOREM HistoryHasAll ==
  ASSUME BelowCap
  PROVE  Spec => []HistoryComplete
<1>1. Init => PagedInv
  BY DEF Init, PagedInv
<1>2. (TypeOK /\ ConnInv) /\ PagedInv /\ [Next]_vars => PagedInv'
  BY PagedInductive
<1>3. PagedInv => HistoryComplete
  BY DEF PagedInv, Read, HistoryComplete
<1>. QED
  BY <1>1, <1>2, <1>3, Invariant, PTL DEF Spec

\* A client that has paged to the end misses no published message for good, whatever
\* crashes, fails, is written late or twice or delivered again, as long as no page is as
\* large as the cap; an event that its hub handled after its first page and before it was
\* registered is the exception (KafkaBus, handler.go:38).
THEOREM NothingMissed ==
  ASSUME BelowCap
  PROVE  Spec => []CaughtUp
<1>1. Init => CaughtInv
  BY DEF Init, CaughtInv
<1>2. (TypeOK /\ ConnInv /\ BaseInv) /\ CaughtInv /\ [Next]_vars => CaughtInv'
  BY CaughtInductive
<1>3. CaughtInv => CaughtUp
  <2>1. \A m \in Msgs : stage[m] = "published" => m \in Stored
    BY DEF Stored
  <2>2. ASSUME CaughtInv, NEW c \in Clients, Ready(c), NEW m \in Msgs, stage[m] = "published"
        PROVE  \/ m \in got[c] \cup early[c]
               \/ \E k \in DOMAIN topic : topic[k] = m /\ Coming(conn[c], k)
               \/ Skipped(conn[c], m)
    BY <2>1, <2>2 DEF CaughtInv, Read, Comes, Ready
  <2>. QED
    BY <2>2 DEF CaughtUp
<1>. QED
  BY <1>1, <1>2, <1>3, Invariant, PTL DEF Spec

=============================================================================
