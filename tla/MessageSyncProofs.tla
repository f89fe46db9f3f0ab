-------------------------- MODULE MessageSyncProofs --------------------------
(***************************************************************************)
(* Theorems about MessageSync: for any number of messages, page sizes,      *)
(* cache limits and faults, the durable cursor of a browser never passes a  *)
(* message its cache has not held, and a catch-up that succeeds misses       *)
(* nothing.                                                                  *)
(***************************************************************************)
EXTENDS MessageSync, TLAPS, FiniteSetTheorems, SequenceTheorems, WellFoundedInduction

-----------------------------------------------------------------------------
(* The inductive invariant.                                                  *)

Arrived  == Committed \cap Mine
Shown(t) == ToSet(memory[t]) \cup dropped

\* Sequence numbers are given out one by one, and the barrier row is held by the
\* one transaction that may have taken a number without having committed.
Numbered ==
  /\ \A m \in Messages : /\ seq[m] <= LastSeq
                         /\ tx[m] \in {"idle", "locked"} => seq[m] = 0
                         /\ tx[m] \in {"inserted", "committed"} => seq[m] # 0
                         /\ tx[m] \in {"locked", "inserted"} => barrier = {m}
  /\ \A m, k \in Messages : seq[m] # 0 /\ seq[m] = seq[k] => m = k

\* The numbers up to which nothing can be committed any more.
Frontier == {c \in 0..LastSeq : \A m \in Messages : tx[m] = "inserted" => c < seq[m]}

\* What is below the cursor was cached and is shown; a page under way ends at a
\* frontier, and all below it is shown or still to be dispatched.
CursorsOf(t) ==
  /\ \A m \in Arrived : seq[m] <= cursor => m \in Shown(t)
  /\ timer[t] = NoSave \/ timer[t] = memory[t] \/ memory[t] = <<>>
  /\ job[t].phase = "advance" =>
       user /\ job[t].rows = {} /\ \A m \in Arrived : seq[m] <= job[t].next => m \in Held
  /\ user /\ job[t].phase # "none" => job[t].cur = cursor
  /\ user /\ job[t].phase \in {"dispatch", "advance"} =>
       /\ job[t].next \in Frontier /\ cursor <= job[t].next
       /\ \A m \in Arrived : seq[m] <= job[t].next => m \in job[t].rows \cup Shown(t)

Cursors ==
  /\ cursor \in Frontier
  /\ \A m \in Arrived : seq[m] <= cursor => m \in Held
  /\ \A t \in Tabs : CursorsOf(t)

\* Once the last page is read for a socket that was registered before the job
\* began, nothing is missed that is not on its way.
Missing(t) == Arrived \ (Shown(t) \cup ToSet(channel[t]) \cup fanout)

CatchUpOf(t) ==
  /\ ~user => conn[t] = "down"
  /\ job[t].fresh => conn[t] # "down"
  /\ job[t].fresh /\ job[t].phase \in {"dispatch", "advance"} /\ ~job[t].more =>
       Missing(t) \subseteq job[t].rows
  /\ conn[t] # "down" /\ outcome[t] = "resolved" => Missing(t) = {}

CatchUp == \A t \in Tabs : CatchUpOf(t)

\* One tab at a time: every tab writes its own store over the one cache.
Alone == \A t, u \in Tabs : t = u

-----------------------------------------------------------------------------
(* Numbers and sequences.                                                    *)

LEMMA Least ==
  ASSUME NEW S \in SUBSET Nat, S # {}
  PROVE  \E x \in S : \A y \in S : x <= y
<1> DEFINE R == {ss \in Nat \X Nat : ss[1] < ss[2]}
<1>1. IsWellFoundedOn(R, Nat)
  BY NatLessThanWellFounded DEF OpToRel
<1> HIDE DEF R
<1>2. PICK x \in S : \A y \in S : <<y, x>> \notin R
  BY <1>1, WFMin
<1>3. ASSUME NEW y \in S
      PROVE  x <= y
  <2>1. x \in Nat /\ y \in Nat /\ ~(y < x)
    BY <1>2 DEF R
  <2> QED
    BY <2>1
<1> QED
  BY <1>3

LEMMA Greatest ==
  ASSUME NEW S \in SUBSET Nat, S # {}, NEW n \in Nat, \A s \in S : s <= n
  PROVE  \E x \in S : \A y \in S : y <= x
<1> DEFINE T == {n - s : s \in S}
<1>1. T \in SUBSET Nat
  BY DEF T
<1>2. \A s \in S : n - s \in T
  BY DEF T
<1>3. \A x \in T : \E s \in S : x = n - s
  BY DEF T
<1> HIDE DEF T
<1>4. T # {}
  BY <1>2
<1>5. PICK x \in T : \A y \in T : x <= y
  BY <1>1, <1>4, Least
<1>6. PICK s \in S : x = n - s
  BY <1>3
<1>7. \A r \in S : r <= s
  BY <1>2, <1>5, <1>6
<1> QED
  BY <1>7

LEMMA ToSetAppend ==
  ASSUME NEW S, NEW s \in Seq(S), NEW m \in S
  PROVE  Append(s, m) \in Seq(S) /\ ToSet(Append(s, m)) = ToSet(s) \cup {m}
<1>1. /\ Append(s, m) \in Seq(S) /\ Len(s) \in Nat
      /\ DOMAIN s = 1..Len(s) /\ DOMAIN Append(s, m) = 1..(Len(s) + 1)
      /\ \A i \in 1..Len(s) : Append(s, m)[i] = s[i]
      /\ Append(s, m)[Len(s) + 1] = m
  OBVIOUS
<1>2. ToSet(Append(s, m)) \subseteq ToSet(s) \cup {m}
  BY <1>1 DEF ToSet
<1>3. ASSUME NEW i \in DOMAIN s PROVE s[i] \in ToSet(Append(s, m))
  BY <1>1 DEF ToSet
<1>4. m \in ToSet(Append(s, m))
  BY <1>1 DEF ToSet
<1> QED
  BY <1>1, <1>2, <1>3, <1>4 DEF ToSet

LEMMA ToSetTail ==
  ASSUME NEW S, NEW s \in Seq(S), s # <<>>
  PROVE  /\ Head(s) \in S /\ Tail(s) \in Seq(S)
         /\ ToSet(s) \subseteq ToSet(Tail(s)) \cup {Head(s)}
<1>1. /\ Len(s) \in Nat \ {0} /\ DOMAIN s = 1..Len(s) /\ Head(s) = s[1] /\ Head(s) \in S
      /\ Tail(s) \in Seq(S) /\ DOMAIN Tail(s) = 1..(Len(s) - 1)
      /\ \A i \in 1..(Len(s) - 1) : Tail(s)[i] = s[i + 1]
  OBVIOUS
<1>2. ASSUME NEW i \in DOMAIN s PROVE s[i] \in ToSet(Tail(s)) \cup {Head(s)}
  <2>1. CASE i = 1
    BY <1>1, <2>1
  <2>2. CASE i # 1
    <3>1. i - 1 \in DOMAIN Tail(s) /\ Tail(s)[i - 1] = s[i]
      BY <1>1, <2>2
    <3> QED
      BY <3>1 DEF ToSet
  <2> QED
    BY <2>1, <2>2
<1> QED
  BY <1>1, <1>2 DEF ToSet

LEMMA ToSetConcat ==
  ASSUME NEW S, NEW s \in Seq(S), NEW t \in Seq(S)
  PROVE  s \o t \in Seq(S) /\ ToSet(s) \subseteq ToSet(s \o t)
<1>1. /\ Len(s) \in Nat /\ Len(t) \in Nat /\ DOMAIN s = 1..Len(s)
      /\ s \o t \in Seq(S) /\ DOMAIN (s \o t) = 1..(Len(s) + Len(t))
      /\ \A i \in 1..Len(s) : (s \o t)[i] = s[i]
  OBVIOUS
<1>2. ASSUME NEW i \in DOMAIN s PROVE s[i] \in ToSet(s \o t)
  BY <1>1 DEF ToSet
<1> QED
  BY <1>1, <1>2 DEF ToSet

LEMMA ToSetMine ==
  ASSUME NEW s \in Seq(Mine)
  PROVE  ToSet(s) \subseteq Mine
BY DEF ToSet

LEMMA KeepTyped ==
  ASSUME NEW S, NEW s \in Seq(S), NEW n \in Nat
  PROVE  Keep(s, n) \in Seq(S)
<1>1. CASE Len(s) > n
  <2>1. Len(s) - n + 1 \in 1..(Len(s) + 1) /\ Len(s) \in Nat
    BY <1>1
  <2> QED
    BY <1>1, <2>1, SubSeqProperties DEF Keep
<1>2. CASE ~(Len(s) > n)
  BY <1>2, SubSeqProperties DEF Keep
<1> QED
  BY <1>1, <1>2

LEMMA FlushTyped ==
  ASSUME NEW rows, IsFiniteSet(rows), NEW s \in SetToSeqs(rows)
  PROVE  s \in Seq(rows)
<1>1. Cardinality(rows) \in Nat
  BY FS_CardinalityType
<1>2. s \in [1..Cardinality(rows) -> rows]
  BY DEF SetToSeqs
<1> QED
  BY <1>1, <1>2

-----------------------------------------------------------------------------
(* Types.                                                                    *)

Jobs == [phase : Phases, cur : SeqNumbers, rows : SUBSET Mine, next : SeqNumbers,
         more : BOOLEAN, fresh : BOOLEAN]

LEMMA Facts ==
  ASSUME TypeOK
  PROVE  /\ tx \in [Messages -> {"idle", "locked", "inserted", "committed", "aborted"}]
         /\ seq \in [Messages -> SeqNumbers] /\ SeqNumbers \subseteq Nat
         /\ cursor \in SeqNumbers /\ cache \in Seq(Mine) /\ dropped \subseteq Mine /\ fanout \subseteq Mine
         /\ channel \in [Tabs -> Seq(Mine \cup {AuthOk})] /\ memory \in [Tabs -> Seq(Mine)]
         /\ timer \in [Tabs -> Seq(Mine) \cup {NoSave}] /\ job \in [Tabs -> Jobs]
         /\ conn \in [Tabs -> {"down", "registered", "greeted", "flushed"}]
         /\ outcome \in [Tabs -> Outcomes] /\ called \in [Tabs -> BOOLEAN]
         /\ LastSeq \in SeqNumbers /\ LastSeq \in Nat /\ Cardinality(Messages) \in Nat
         /\ NoJob \in Jobs /\ NoJob.phase = "none" /\ ~NoJob.fresh
         /\ Mine \subseteq Messages /\ Private \subseteq Mine /\ AuthOk \notin Messages
<1>1. Cardinality(Messages) \in Nat /\ LastSeq \in Nat /\ LastSeq <= Cardinality(Messages)
  BY SyncAssumption, FS_CardinalityType, FS_Subset DEF LastSeq
<1>2. NoJob \in Jobs /\ NoJob.phase = "none" /\ ~NoJob.fresh
  BY <1>1 DEF NoJob, Jobs, Phases, SeqNumbers
<1> QED
  BY <1>1, <1>2, SyncAssumption DEF TypeOK, Jobs, SeqNumbers

LEMMA AddTyped ==
  ASSUME TypeOK, NEW t \in Tabs, NEW m \in Mine, Add(t, m)
  PROVE  /\ memory' \in [Tabs -> Seq(Mine)] /\ timer' \in [Tabs -> Seq(Mine) \cup {NoSave}]
         /\ ToSet(memory'[t]) = ToSet(memory[t]) \cup {m}
         /\ timer'[t] = memory'[t] \/ (timer'[t] = timer[t] /\ memory'[t] = memory[t])
<1> DEFINE messages == IF m \in ToSet(memory[t]) THEN memory[t] ELSE Append(memory[t], m)
<1>1. memory[t] \in Seq(Mine)
  BY Facts
<1>2. messages \in Seq(Mine) /\ ToSet(messages) = ToSet(memory[t]) \cup {m}
  BY <1>1, ToSetAppend
<1>3. /\ memory' = [memory EXCEPT ![t] = messages]
      /\ timer' = [timer EXCEPT ![t] = IF messages = memory[t] THEN timer[t] ELSE messages]
  BY DEF Add
<1> HIDE DEF messages
<1> QED
  BY <1>2, <1>3, Facts

LEMMA FinishTyped ==
  ASSUME TypeOK, NEW t \in Tabs, NEW result \in Outcomes, Finish(t, result)
  PROVE  /\ job' \in [Tabs -> Jobs] /\ job'[t] = NoJob
         /\ outcome' \in [Tabs -> Outcomes]
         /\ outcome'[t] = "resolved" => outcome[t] = "resolved" \/ (result = "resolved" /\ job[t].fresh)
<1>1. job' = [job EXCEPT ![t] = NoJob]
  BY DEF Finish
<1>2. PICK o \in Outcomes : /\ outcome' = [outcome EXCEPT ![t] = o]
                            /\ o = "resolved" => outcome[t] = "resolved" \/ (result = "resolved" /\ job[t].fresh)
  <2>1. outcome[t] \in Outcomes
    BY Facts
  <2>2. CASE outcome[t] # "pending"
    <3>1. outcome' = [outcome EXCEPT ![t] = outcome[t]]
      BY <2>2 DEF Finish
    <3> QED
      BY <2>1, <2>2, <3>1
  <2>3. CASE outcome[t] = "pending" /\ result = "resolved" /\ ~job[t].fresh
    <3>1. outcome' = [outcome EXCEPT ![t] = "joined"]
      BY <2>3 DEF Finish
    <3> QED
      BY <3>1 DEF Outcomes
  <2>4. CASE outcome[t] = "pending" /\ ~(result = "resolved" /\ ~job[t].fresh)
    <3>1. outcome' = [outcome EXCEPT ![t] = result]
      BY <2>4 DEF Finish
    <3> QED
      BY <2>4, <3>1
  <2> QED
    BY <2>2, <2>3, <2>4
<1> QED
  BY <1>1, <1>2, Facts

\* What the rows of a page are: the first of those the server has after a cursor.
LEMMA Page ==
  ASSUME TypeOK, Numbered, NEW c \in Nat, c <= LastSeq, NEW rows, rows = SyncRows(c)
  PROVE  /\ rows \subseteq Arrived
         /\ NextCursor(c, rows) \in 0..LastSeq /\ c <= NextCursor(c, rows)
         /\ \A m \in Arrived : c < seq[m] /\ seq[m] <= NextCursor(c, rows) => m \in rows
<1> DEFINE visible == {m \in Arrived : seq[m] > c}
           before(m) == {k \in visible : seq[k] < seq[m]}
<1>0. IsFiniteSet(visible) /\ visible \subseteq Messages
  BY Facts, SyncAssumption, FS_Subset DEF Arrived, Committed
<1>1. rows = {m \in visible : Cardinality(before(m)) < PageSize}
  BY DEF SyncRows, Arrived
<1>2. rows \subseteq Arrived /\ rows \subseteq visible
  BY <1>1
<1>3. \A m \in visible : seq[m] \in Nat /\ c < seq[m] /\ seq[m] <= LastSeq
  BY <1>0, Facts DEF Numbered
<1>4. CASE rows = {}
  <2>1. NextCursor(c, rows) = c
    BY <1>4 DEF NextCursor
  <2> QED
    BY <1>2, <2>1, Facts DEF Arrived, Committed
<1>5. CASE rows # {}
  <2> DEFINE numbers == {seq[m] : m \in rows}
  <2>1. numbers \in SUBSET Nat /\ numbers # {} /\ \A n \in numbers : n <= LastSeq
    BY <1>2, <1>3, <1>5
  <2>2. PICK s \in numbers : \A n \in numbers : n <= s
    <3> HIDE DEF numbers
    <3> QED
      BY <2>1, Greatest, Facts
  <2>3. \E n \in numbers : \A m \in rows : seq[m] <= n
    BY <2>2
  <2>4. NextCursor(c, rows) \in numbers /\ \A m \in rows : seq[m] <= NextCursor(c, rows)
    BY <1>5, <2>3 DEF NextCursor
  <2>5. PICK r \in rows : NextCursor(c, rows) = seq[r]
    BY <2>4
  <2>6. seq[r] \in 0..LastSeq /\ c <= seq[r]
    BY <1>2, <1>3, Facts
  <2>7. ASSUME NEW m \in Arrived, c < seq[m], seq[m] <= seq[r]
        PROVE  m \in rows
    <3>1. m \in visible
      BY <2>7
    <3>2. before(m) \subseteq before(r)
      BY <1>2, <1>3, <2>7, <3>1
    <3>3. IsFiniteSet(before(r))
      BY <1>0, FS_Subset
    <3>4. /\ Cardinality(before(m)) \in Nat /\ Cardinality(before(r)) \in Nat
          /\ Cardinality(before(m)) <= Cardinality(before(r))
      <4> HIDE DEF before
      <4> QED
        BY <3>2, <3>3, FS_Subset, FS_CardinalityType
    <3>5. Cardinality(before(r)) < PageSize
      BY <1>1
    <3>6. Cardinality(before(m)) < PageSize
      <4> HIDE DEF before
      <4> QED
        BY <3>4, <3>5, SyncAssumption
    <3> QED
      BY <1>1, <3>1, <3>6
  <2> QED
    BY <1>2, <2>5, <2>6, <2>7
<1> QED
  BY <1>4, <1>5

\* A page that is not full is the last one.
LEMMA LastPage ==
  ASSUME TypeOK, Numbered, NEW c \in Nat, c <= LastSeq, NEW rows, rows = SyncRows(c),
         Cardinality(rows) # PageSize
  PROVE  \A m \in Arrived : seq[m] > c => m \in rows
<1> DEFINE visible == {m \in Arrived : seq[m] > c}
           before(m) == {k \in visible : seq[k] < seq[m]}
<1>0. IsFiniteSet(visible) /\ visible \subseteq Messages
  BY Facts, SyncAssumption, FS_Subset DEF Arrived, Committed
<1>1. rows = {m \in visible : Cardinality(before(m)) < PageSize}
  BY DEF SyncRows, Arrived
<1>2. \A m \in visible : seq[m] \in Nat /\ seq[m] # 0
  BY <1>0, Facts
<1>3. \A m \in visible : IsFiniteSet(before(m)) /\ Cardinality(before(m)) \in Nat
  <2> TAKE m \in visible
  <2>1. before(m) \subseteq visible
    OBVIOUS
  <2> HIDE DEF before, visible
  <2> QED
    BY <1>0, <2>1, FS_Subset, FS_CardinalityType
<1>4. SUFFICES ASSUME visible \ rows # {}
               PROVE  Cardinality(rows) = PageSize
  BY <1>4
\* The first message the page leaves out has just its rows before it.
<1>5. PICK v \in visible \ rows : \A m \in visible \ rows : seq[v] <= seq[m]
  <2> DEFINE numbers == {seq[m] : m \in visible \ rows}
  <2>1. numbers \in SUBSET Nat /\ numbers # {}
    BY <1>2, <1>4
  <2>2. PICK n \in numbers : \A k \in numbers : n <= k
    <3> HIDE DEF numbers
    <3> QED
      BY <2>1, Least
  <2> QED
    BY <2>2
<1>6. Cardinality(before(v)) \in Nat /\ PageSize <= Cardinality(before(v)) /\ v \in visible
  <2>1. v \in visible /\ Cardinality(before(v)) \in Nat /\ ~(Cardinality(before(v)) < PageSize)
    BY <1>1, <1>3
  <2> HIDE DEF before
  <2> QED
    BY <2>1, SyncAssumption
<1>7. before(v) \subseteq rows
  BY <1>2, <1>5
<1>8. rows \subseteq visible /\ IsFiniteSet(rows) /\ Cardinality(rows) \in Nat
  <2>1. rows \subseteq visible
    BY <1>1
  <2> HIDE DEF visible
  <2> QED
    BY <1>0, <2>1, FS_Subset, FS_CardinalityType
<1>9. PageSize <= Cardinality(rows) /\ rows # {}
  <2>1. Cardinality(before(v)) <= Cardinality(rows)
    <3> HIDE DEF before
    <3> QED
      BY <1>7, <1>8, FS_Subset
  <2>2. PageSize <= Cardinality(rows) /\ PageSize # 0
    <3> HIDE DEF before
    <3> QED
      BY <1>6, <1>8, <2>1, SyncAssumption
  <2> QED
    BY <1>8, <2>2, FS_EmptySet, SyncAssumption
\* All rows but the last stand before it, and are fewer than a page.
<1>10. PICK r \in rows : \A m \in rows : seq[m] <= seq[r]
  <2> DEFINE numbers == {seq[m] : m \in rows}
  <2>1. numbers \in SUBSET Nat /\ numbers # {} /\ \A n \in numbers : n <= LastSeq
    BY <1>0, <1>2, <1>8, <1>9 DEF Numbered
  <2>2. PICK s \in numbers : \A n \in numbers : n <= s
    <3> HIDE DEF numbers
    <3> QED
      BY <2>1, Greatest, Facts
  <2> QED
    BY <2>2
<1>11. rows \ {r} \subseteq before(r)
  <2> SUFFICES ASSUME NEW m \in rows, m # r
               PROVE  m \in visible /\ seq[m] < seq[r]
    OBVIOUS
  <2>1. m \in visible /\ r \in visible /\ seq[m] <= seq[r]
    BY <1>8, <1>10
  <2>2. seq[m] # seq[r]
    BY <1>0, <1>2, <2>1 DEF Numbered
  <2> QED
    BY <1>2, <2>1, <2>2
<1>12. Cardinality(rows \ {r}) = Cardinality(rows) - 1
  BY <1>8, <1>10, FS_RemoveElement
<1>13. Cardinality(rows \ {r}) <= Cardinality(before(r)) /\ Cardinality(before(r)) < PageSize
  <2>1. Cardinality(before(r)) < PageSize /\ r \in visible
    BY <1>1, <1>10
  <2>2. IsFiniteSet(before(r))
    BY <1>3, <2>1
  <2> HIDE DEF before
  <2> QED
    BY <1>11, <2>1, <2>2, FS_Subset
<1> QED
  <2>1. Cardinality(before(r)) \in Nat
    BY <1>3, <1>8, <1>10
  <2> HIDE DEF before
  <2> QED
    BY <1>8, <1>9, <1>12, <1>13, <2>1, SyncAssumption

LEMMA TypesServer ==
  ASSUME TypeOK, Numbered, NEW m \in Messages, Handle(m) \/ DeliverElsewhere(m)
  PROVE  TypeOK'
<1>1. CASE LockBarrier(m)
  BY <1>1, Facts DEF LockBarrier, TypeOK, server, storage, socket, page
<1>2. CASE InsertRow(m)
  <2>1. LastSeq + 1 \in SeqNumbers
    <3> DEFINE numbered == {k \in Messages : seq[k] # 0}
    <3>1. numbered \subseteq Messages \ {m} /\ IsFiniteSet(Messages \ {m})
      BY <1>2, SyncAssumption, FS_Subset DEF InsertRow, Numbered
    <3>2. Cardinality(Messages \ {m}) = Cardinality(Messages) - 1
      BY SyncAssumption, FS_RemoveElement
    <3>3. LastSeq <= Cardinality(Messages \ {m})
      BY <3>1, FS_Subset DEF LastSeq
    <3> HIDE DEF numbered
    <3> QED
      BY <3>2, <3>3, Facts DEF SeqNumbers
  <2> HIDE DEF LastSeq
  <2> QED
    BY <1>2, <2>1, Facts DEF InsertRow, TypeOK, server, storage, socket, page
<1>3. CASE CommitRow(m)
  BY <1>3, Facts DEF CommitRow, TypeOK, server, storage, socket, page
<1>4. CASE AbortRow(m)
  BY <1>4, Facts DEF AbortRow, TypeOK, server, storage, socket, page
<1>5. CASE Push(m)
  <2>1. m \in Mine \cup {AuthOk}
    BY <1>5, Facts DEF Push
  <2>2. channel' \in [Tabs -> Seq(Mine \cup {AuthOk})]
    BY <1>5, <2>1, Facts, ToSetAppend DEF Push
  <2> QED
    BY <1>5, <2>2, Facts DEF Push, TypeOK, server, storage, socket, page
<1>6. CASE DeliverElsewhere(m)
  BY <1>6, Facts DEF DeliverElsewhere, TypeOK, server, storage, socket, page
<1> QED
  BY <1>1, <1>2, <1>3, <1>4, <1>5, <1>6 DEF Handle

LEMMA TypesSocket ==
  ASSUME TypeOK, NEW t \in Tabs,
         Greet(t) \/ Receive(t) \/ RotateKeys(t) \/ Disconnect(t) \/ Login(t)
  PROVE  TypeOK'
<1>1. CASE Register(t)
  BY <1>1, Facts DEF Register, TypeOK, Outcomes, server, storage
<1>2. CASE SendAuthOk(t)
  <2>1. Append(channel[t], AuthOk) \in Seq(Mine \cup {AuthOk})
    BY Facts, ToSetAppend
  <2> QED
    BY <1>2, <2>1, Facts DEF SendAuthOk, TypeOK, server, storage, page
<1>3. CASE FlushOffline(t)
  <2> DEFINE rows == (Committed \cap Private) \ delivered
  <2>1. rows \subseteq Mine /\ rows \subseteq Messages /\ IsFiniteSet(rows)
    BY SyncAssumption, FS_Subset DEF Committed
  <2>2. PICK frames \in SetToSeqs(rows) : channel' = [channel EXCEPT ![t] = channel[t] \o frames]
    BY <1>3 DEF FlushOffline
  <2>3. frames \in Seq(rows)
    BY <2>1, <2>2, FlushTyped
  <2>4. frames \in Seq(Mine \cup {AuthOk}) /\ channel[t] \in Seq(Mine \cup {AuthOk})
    BY <2>1, <2>3, Facts
  <2>5. channel[t] \o frames \in Seq(Mine \cup {AuthOk})
    BY <2>4, ToSetConcat
  <2>6. delivered' \subseteq Messages
    BY <1>3, <2>1 DEF FlushOffline, TypeOK
  <2> QED
    BY <1>3, <2>2, <2>5, <2>6, Facts DEF FlushOffline, TypeOK, server, storage, page
<1>4. CASE Receive(t)
  <2>1. /\ channel[t] \in Seq(Mine \cup {AuthOk}) /\ channel[t] # <<>>
        /\ Head(channel[t]) \in Mine \cup {AuthOk}
        /\ Tail(channel[t]) \in Seq(Mine \cup {AuthOk})
    BY <1>4, Facts, ToSetTail DEF Receive
  <2>2. channel' \in [Tabs -> Seq(Mine \cup {AuthOk})]
    BY <1>4, <2>1, Facts DEF Receive
  <2>3. called' \in [Tabs -> BOOLEAN]
    BY <1>4, Facts DEF Receive
  <2>4. memory' \in [Tabs -> Seq(Mine)] /\ timer' \in [Tabs -> Seq(Mine) \cup {NoSave}]
    <3>1. CASE Head(channel[t]) = AuthOk
      BY <1>4, <3>1, Facts DEF Receive
    <3>2. CASE Head(channel[t]) # AuthOk
      <4>1. Add(t, Head(channel[t])) /\ Head(channel[t]) \in Mine
        BY <1>4, <2>1, <3>2 DEF Receive
      <4> QED
        BY <4>1, AddTyped
    <3> QED
      BY <3>1, <3>2
  <2> QED
    BY <1>4, <2>2, <2>3, <2>4 DEF Receive, TypeOK, server, storage
<1>5. CASE RotateKeys(t)
  <2>1. called' \in [Tabs -> BOOLEAN]
    BY <1>5, Facts DEF RotateKeys
  <2> QED
    BY <1>5, <2>1 DEF RotateKeys, TypeOK, server, storage, socket
<1>6. CASE Disconnect(t)
  <2>1. [job[t] EXCEPT !.fresh = FALSE] \in Jobs
    BY Facts DEF Jobs
  <2>2. job' \in [Tabs -> Jobs]
    BY <1>6, <2>1, Facts DEF Disconnect
  <2>3. /\ conn' \in [Tabs -> {"down", "registered", "greeted", "flushed"}]
        /\ channel' \in [Tabs -> Seq(Mine \cup {AuthOk})]
    BY <1>6, Facts DEF Disconnect
  <2>4. UNCHANGED <<server, storage, memory, timer, called, outcome, user>>
    BY <1>6 DEF Disconnect
  <2> QED
    BY <2>2, <2>3, <2>4 DEF TypeOK, Jobs, server, storage
<1>7. CASE Login(t)
  BY <1>7 DEF Login, TypeOK, server, storage, socket, page
<1> QED
  BY <1>1, <1>2, <1>3, <1>4, <1>5, <1>6, <1>7 DEF Greet

LEMMA TypesJob ==
  ASSUME TypeOK, Numbered, NEW t \in Tabs, SyncJob(t) \/ RequestFails(t) \/ FlushFails(t)
  PROVE  TypeOK'
<1>0. job[t] \in Jobs
  BY Facts
<1>1. CASE SyncMessages(t)
  <2>1. PICK j \in Jobs : job' = [job EXCEPT ![t] = j]
    <3>1. CASE user /\ job[t] = NoJob
      <4>1. [NoJob EXCEPT !.phase = "request", !.cur = cursor, !.fresh = conn[t] # "down"] \in Jobs
        BY Facts DEF Jobs, Phases
      <4> QED
        BY <1>1, <3>1, <4>1 DEF SyncMessages
    <3>2. CASE ~(user /\ job[t] = NoJob)
      <4>1. job' = [job EXCEPT ![t] = job[t]]
        BY <1>1, <3>2, Facts DEF SyncMessages
      <4> QED
        BY <1>0, <4>1
    <3> QED
      BY <3>1, <3>2
  <2>2. job' \in [Tabs -> Jobs]
    BY <2>1, Facts
  <2>3. called' \in [Tabs -> BOOLEAN] /\ outcome' \in [Tabs -> Outcomes]
    BY <1>1, Facts DEF SyncMessages, Outcomes
  <2>4. UNCHANGED <<server, storage, socket, memory, timer, user, events>>
    BY <1>1 DEF SyncMessages
  <2> QED
    BY <2>2, <2>3, <2>4 DEF TypeOK, Jobs, server, storage, socket
<1>2. CASE Abandon(t)
  <2>1. job' \in [Tabs -> Jobs] /\ outcome' \in [Tabs -> Outcomes]
    <3>1. Finish(t, "resolved") /\ "resolved" \in Outcomes
      BY <1>2 DEF Abandon, Outcomes
    <3> QED
      BY <3>1, FinishTyped
  <2> QED
    BY <1>2, <2>1 DEF Abandon, TypeOK, Jobs, server, storage, socket
<1>3. CASE Request(t)
  <2>1. [job[t] EXCEPT !.phase = "waiting"] \in Jobs
    BY <1>0 DEF Jobs, Phases
  <2>2. job' \in [Tabs -> Jobs]
    BY <1>3, <2>1, Facts DEF Request
  <2> QED
    BY <1>3, <2>2 DEF Request, TypeOK, Jobs, server, storage, socket
<1>4. CASE SyncPage(t)
  <2> DEFINE rows == SyncRows(job[t].cur)
             next == NextCursor(job[t].cur, rows)
             more == Cardinality(rows) = PageSize
  <2>1. job' = [job EXCEPT ![t] = [job[t] EXCEPT !.phase = "dispatch", !.rows = rows,
                                                 !.next = next, !.more = more]]
    BY <1>4 DEF SyncPage
  <2>2. rows \subseteq Mine
    BY DEF SyncRows
  <2>3. next \in SeqNumbers
    <3>1. CASE rows = {}
      BY <1>0, <3>1 DEF NextCursor, Jobs
    <3>2. CASE rows # {}
      <4> DEFINE numbers == {seq[m] : m \in rows}
      <4>1. numbers \in SUBSET Nat /\ numbers # {} /\ numbers \subseteq SeqNumbers
            /\ \A n \in numbers : n <= LastSeq
        BY <2>2, <3>2, Facts DEF Numbered
      <4>2. PICK s \in numbers : \A n \in numbers : n <= s
        <5> HIDE DEF numbers
        <5> QED
          BY <4>1, Greatest, Facts
      <4>3. \E n \in numbers : \A m \in rows : seq[m] <= n
        BY <4>2
      <4>4. next \in numbers
        BY <3>2, <4>3 DEF NextCursor
      <4> HIDE DEF numbers, next
      <4> QED
        BY <4>1, <4>4
    <3> QED
      BY <3>1, <3>2
  <2>4. more \in BOOLEAN
    OBVIOUS
  <2> HIDE DEF rows, next, more
  <2>5. [job[t] EXCEPT !.phase = "dispatch", !.rows = rows, !.next = next, !.more = more] \in Jobs
    BY <1>0, <2>2, <2>3, <2>4 DEF Jobs, Phases
  <2>6. job' \in [Tabs -> Jobs]
    BY <2>1, <2>5, Facts
  <2>7. UNCHANGED <<server, storage, socket, memory, timer, called, outcome, user, events>>
    BY <1>4 DEF SyncPage
  <2> QED
    BY <2>6, <2>7 DEF TypeOK, Jobs, server, storage, socket
<1>5. CASE RequestFails(t)
  <2>1. job' \in [Tabs -> Jobs] /\ outcome' \in [Tabs -> Outcomes]
    <3>1. Finish(t, "rejected") /\ "rejected" \in Outcomes
      BY <1>5 DEF RequestFails, Outcomes
    <3> QED
      BY <3>1, FinishTyped
  <2> QED
    BY <1>5, <2>1 DEF RequestFails, TypeOK, Jobs, server, storage, socket
<1>6. CASE Dispatch(t)
  <2>1. PICK m \in job[t].rows : /\ Add(t, m)
                                 /\ job' = [job EXCEPT ![t].rows = job[t].rows \ {m}]
    BY <1>6 DEF Dispatch
  <2>2. m \in Mine /\ [job[t] EXCEPT !.rows = job[t].rows \ {m}] \in Jobs
    BY <1>0 DEF Jobs
  <2>3. job' \in [Tabs -> Jobs]
    BY <2>1, <2>2, Facts
  <2>4. memory' \in [Tabs -> Seq(Mine)] /\ timer' \in [Tabs -> Seq(Mine) \cup {NoSave}]
    BY <2>1, <2>2, AddTyped
  <2> QED
    BY <1>6, <2>3, <2>4 DEF Dispatch, TypeOK, Jobs, server, storage, socket
<1>7. CASE FlushMessageCache(t)
  <2>1. [job[t] EXCEPT !.phase = "advance"] \in Jobs
    BY <1>0 DEF Jobs, Phases
  <2>2. job' \in [Tabs -> Jobs]
    BY <1>7, <2>1, Facts DEF FlushMessageCache
  <2>3. cache' \in Seq(Mine)
    BY <1>7, KeepTyped, Facts, SyncAssumption DEF FlushMessageCache
  <2>4. ToSet(memory[t]) \subseteq Mine
    BY Facts, ToSetMine
  <2>5. dropped' \subseteq Mine /\ timer' \in [Tabs -> Seq(Mine) \cup {NoSave}]
    BY <1>7, <2>4, Facts DEF FlushMessageCache
  <2>6. UNCHANGED <<server, cursor, socket, memory, called, outcome, user, events>>
    BY <1>7 DEF FlushMessageCache
  <2> QED
    BY <2>2, <2>3, <2>5, <2>6 DEF TypeOK, Jobs, server, socket
<1>8. CASE FlushFails(t)
  <2>1. job' \in [Tabs -> Jobs] /\ outcome' \in [Tabs -> Outcomes]
    <3>1. Finish(t, "rejected") /\ "rejected" \in Outcomes
      BY <1>8 DEF FlushFails, Outcomes
    <3> QED
      BY <3>1, FinishTyped
  <2>2. timer' \in [Tabs -> Seq(Mine) \cup {NoSave}]
    BY <1>8, Facts DEF FlushFails
  <2>3. UNCHANGED <<server, storage, socket, memory, called, user>>
    BY <1>8 DEF FlushFails
  <2> QED
    BY <2>1, <2>2, <2>3 DEF TypeOK, Jobs, server, storage, socket
<1>9. CASE AdvanceCursor(t)
  <2>1. cursor' \in SeqNumbers
    BY <1>0, <1>9, Facts DEF AdvanceCursor, Jobs
  <2>2. job' \in [Tabs -> Jobs] /\ outcome' \in [Tabs -> Outcomes]
    <3>1. CASE job[t].more
      <4>1. job' = [job EXCEPT ![t] = [job[t] EXCEPT !.phase = "request", !.cur = job[t].next]]
        BY <1>9, <3>1, Facts DEF AdvanceCursor
      <4>2. [job[t] EXCEPT !.phase = "request", !.cur = job[t].next] \in Jobs
        BY <1>0 DEF Jobs, Phases
      <4>3. outcome' = outcome
        BY <1>9, <3>1 DEF AdvanceCursor
      <4> QED
        BY <4>1, <4>2, <4>3, Facts
    <3>2. CASE ~job[t].more
      <4>1. Finish(t, "resolved") /\ "resolved" \in Outcomes
        BY <1>9, <3>2 DEF AdvanceCursor, Outcomes
      <4> QED
        BY <4>1, FinishTyped
    <3> QED
      BY <3>1, <3>2
  <2>3. UNCHANGED <<server, cache, dropped, socket, memory, timer, called, user, events>>
    BY <1>9 DEF AdvanceCursor
  <2> QED
    BY <2>1, <2>2, <2>3 DEF TypeOK, Jobs, server, socket
<1> QED
  BY <1>1, <1>2, <1>3, <1>4, <1>5, <1>6, <1>7, <1>8, <1>9 DEF SyncJob

LEMMA TypesSave ==
  ASSUME TypeOK, NEW t \in Tabs, SaveTimer(t) \/ SaveFails(t) \/ Reload(t) \/ Logout(t)
  PROVE  TypeOK'
<1>0. ToSet(cache) \subseteq Mine /\ job[t] \in Jobs
  BY Facts, ToSetMine
<1>1. ASSUME SaveTimer(t) \/ SaveFails(t)
      PROVE  TypeOK'
  <2>1. timer[t] \in Seq(Mine)
    BY <1>1, Facts DEF SaveTimer, SaveFails
  <2>2. cache' \in Seq(Mine)
    <3>1. Keep(timer[t], CacheLimit) \in Seq(Mine) /\ Keep(timer[t], EvictLimit) \in Seq(Mine)
      <4>1. EvictLimit \in Nat /\ CacheLimit \in Nat
        BY SyncAssumption
      <4> QED
        BY <2>1, <4>1, KeepTyped
    <3> QED
      BY <1>1, <3>1, Facts DEF SaveTimer, SaveFails
  <2>3. dropped' \subseteq Mine
    BY <1>0, <1>1, <2>1, Facts, ToSetMine DEF SaveTimer, SaveFails
  <2>4. timer' \in [Tabs -> Seq(Mine) \cup {NoSave}]
    BY <1>1, Facts DEF SaveTimer, SaveFails
  <2>5. UNCHANGED <<server, cursor, socket, memory, called, job, outcome, user>>
    BY <1>1 DEF SaveTimer, SaveFails
  <2> QED
    BY <2>2, <2>3, <2>4, <2>5 DEF TypeOK, server, socket
<1>2. CASE Reload(t)
  <2>1. /\ conn' \in [Tabs -> {"down", "registered", "greeted", "flushed"}]
        /\ channel' \in [Tabs -> Seq(Mine \cup {AuthOk})] /\ memory' \in [Tabs -> Seq(Mine)]
        /\ timer' \in [Tabs -> Seq(Mine) \cup {NoSave}]
    BY <1>2, Facts DEF Reload
  <2>2. job' \in [Tabs -> Jobs] /\ outcome' \in [Tabs -> Outcomes]
    BY <1>2, Facts DEF Reload, Outcomes
  <2>3. called' \in [Tabs -> BOOLEAN]
    BY <1>2, Facts DEF Reload
  <2>4. UNCHANGED <<server, storage, user>>
    BY <1>2 DEF Reload
  <2> QED
    BY <2>1, <2>2, <2>3, <2>4 DEF TypeOK, Jobs, server, storage
<1>3. CASE Logout(t)
  <2>1. [job[t] EXCEPT !.fresh = FALSE] \in Jobs
    BY <1>0 DEF Jobs
  <2>2. job' \in [Tabs -> Jobs]
    BY <1>3, <2>1, Facts DEF Logout
  <2>3. /\ conn' \in [Tabs -> {"down", "registered", "greeted", "flushed"}]
        /\ channel' \in [Tabs -> Seq(Mine \cup {AuthOk})] /\ memory' \in [Tabs -> Seq(Mine)]
    BY <1>3, Facts DEF Logout
  <2>4. cursor' \in SeqNumbers
    BY <1>3, Facts DEF Logout, SeqNumbers
  <2>5. cache' = <<>> /\ dropped' = {}
    BY <1>3 DEF Logout
  <2>6. cache' \in Seq(Mine) /\ dropped' \subseteq Mine
    BY <2>5
  <2>7. user' = FALSE /\ UNCHANGED <<server, timer, called, outcome>>
    BY <1>3 DEF Logout
  <2> QED
    BY <2>2, <2>3, <2>4, <2>6, <2>7 DEF TypeOK, Jobs, server
<1> QED
  BY <1>1, <1>2, <1>3

LEMMA TypeStep ==
  ASSUME TypeOK, Numbered, [Next]_vars
  PROVE  TypeOK'
<1>1. CASE UNCHANGED vars
  BY <1>1 DEF TypeOK, vars, server, storage, socket, page
<1>2. ASSUME NEW m \in Messages, Handle(m) \/ DeliverElsewhere(m)
      PROVE  TypeOK'
  BY <1>2, TypesServer
<1>3. ASSUME NEW t \in Tabs, \/ Greet(t) \/ Receive(t) \/ RotateKeys(t)
                             \/ SyncJob(t) \/ SaveTimer(t) \/ Fault(t)
      PROVE  TypeOK'
  BY <1>3, TypesSocket, TypesJob, TypesSave DEF Fault
<1> QED
  BY <1>1, <1>2, <1>3 DEF Next

-----------------------------------------------------------------------------
(* The server.                                                               *)

\* What a step of the server does to the rows: what was committed stays, and what
\* becomes visible lies above every frontier.
Behind ==
  /\ Frontier \subseteq Frontier' /\ Arrived \subseteq Arrived'
  /\ \A m \in Arrived : seq'[m] = seq[m]
  /\ \A m \in Arrived', c \in Frontier : seq'[m] <= c => m \in Arrived

LEMMA Unmoved ==
  ASSUME UNCHANGED <<tx, seq>>
  PROVE  Arrived' = Arrived /\ Frontier' = Frontier /\ LastSeq' = LastSeq /\ Committed' = Committed
BY DEF Arrived, Frontier, LastSeq, Committed

LEMMA BehindCalm ==
  ASSUME UNCHANGED <<tx, seq>>
  PROVE  Behind
BY Unmoved DEF Behind

LEMMA NumberedCalm ==
  ASSUME Numbered, UNCHANGED <<tx, seq, barrier>>
  PROVE  Numbered'
BY Unmoved DEF Numbered

LEMMA InsertNumbers ==
  ASSUME TypeOK, Numbered, NEW m \in Messages, InsertRow(m)
  PROVE  /\ LastSeq' = LastSeq + 1 /\ seq'[m] = LastSeq + 1 /\ seq[m] = 0
         /\ \A k \in Messages : k # m => seq'[k] = seq[k] /\ tx'[k] = tx[k]
         /\ tx'[m] = "inserted" /\ tx[m] = "locked" /\ barrier' = barrier
<1> DEFINE numbered == {k \in Messages : seq[k] # 0}
<1>1. /\ seq' = [seq EXCEPT ![m] = LastSeq + 1] /\ tx' = [tx EXCEPT ![m] = "inserted"]
      /\ tx[m] = "locked" /\ barrier' = barrier
  BY DEF InsertRow
<1>2. seq[m] = 0
  BY <1>1 DEF Numbered
<1>3. LastSeq + 1 # 0 /\ LastSeq + 1 \in Nat
  BY Facts
<1>4. {k \in Messages : seq'[k] # 0} = numbered \cup {m}
  <2> HIDE DEF LastSeq
  <2> QED
    BY <1>1, <1>3, Facts
<1>5. IsFiniteSet(numbered) /\ m \notin numbered /\ Cardinality(numbered) = LastSeq
  <2>1. IsFiniteSet(numbered)
    BY SyncAssumption, FS_Subset
  <2> QED
    BY <1>2, <2>1 DEF LastSeq
<1>6. LastSeq' = Cardinality(numbered \cup {m})
  BY <1>4 DEF LastSeq
<1> HIDE DEF numbered
<1>7. LastSeq' = LastSeq + 1
  BY <1>5, <1>6, FS_AddElement
<1> QED
  BY <1>1, <1>2, <1>7, Facts

LEMMA ServerStep ==
  ASSUME TypeOK, Numbered, NEW m \in Messages, Handle(m)
  PROVE  Numbered' /\ Behind
<1>1. CASE LockBarrier(m)
  <2>1. tx' = [tx EXCEPT ![m] = "locked"] /\ tx[m] = "idle" /\ barrier = {} /\ barrier' = {m} /\ seq' = seq
    BY <1>1 DEF LockBarrier
  <2>2. LastSeq' = LastSeq
    BY <2>1 DEF LastSeq
  <2>3. Numbered'
    BY <2>1, <2>2, Facts DEF Numbered
  <2>4. Committed' = Committed
    BY <2>1, Facts DEF Committed
  <2>5. Frontier' = Frontier
    BY <2>1, <2>2, Facts DEF Frontier
  <2> QED
    BY <2>1, <2>3, <2>4, <2>5 DEF Behind, Arrived
<1>2. CASE InsertRow(m)
  <2>1. /\ LastSeq' = LastSeq + 1 /\ seq'[m] = LastSeq + 1 /\ seq[m] = 0
        /\ \A k \in Messages : k # m => seq'[k] = seq[k] /\ tx'[k] = tx[k]
        /\ tx'[m] = "inserted" /\ tx[m] = "locked" /\ barrier' = barrier
    BY <1>2, InsertNumbers
  <2>2. Committed' = Committed
    BY <2>1 DEF Committed
  <2>3. \A k \in Messages : seq[k] \in Nat /\ LastSeq \in Nat
    BY Facts
  <2>4. Numbered'
    <3>1. \A k \in Messages : seq'[k] <= LastSeq'
      BY <2>1, <2>3 DEF Numbered
    <3>2. \A k \in Messages : /\ tx'[k] \in {"idle", "locked"} => seq'[k] = 0
                              /\ tx'[k] \in {"inserted", "committed"} => seq'[k] # 0
                              /\ tx'[k] \in {"locked", "inserted"} => barrier' = {k}
      BY <2>1, <2>3 DEF Numbered
    <3>3. \A k, l \in Messages : seq'[k] # 0 /\ seq'[k] = seq'[l] => k = l
      BY <2>1, <2>3 DEF Numbered
    <3> QED
      BY <3>1, <3>2, <3>3 DEF Numbered
  <2>5. Frontier \subseteq Frontier'
    BY <2>1, <2>3 DEF Frontier
  <2>6. \A k \in Arrived : seq'[k] = seq[k]
    BY <2>1 DEF Arrived, Committed
  <2> QED
    BY <2>2, <2>4, <2>5, <2>6 DEF Behind, Arrived
<1>3. CASE CommitRow(m)
  <2>1. /\ tx' = [tx EXCEPT ![m] = "committed"] /\ tx[m] = "inserted" /\ seq' = seq
        /\ barrier' = barrier \ {m}
    BY <1>3 DEF CommitRow
  <2>2. LastSeq' = LastSeq /\ barrier = {m}
    BY <2>1 DEF LastSeq, Numbered
  <2>3. Numbered'
    BY <2>1, <2>2, Facts DEF Numbered
  <2>4. Committed' = Committed \cup {m}
    BY <2>1, Facts DEF Committed
  <2>5. Frontier \subseteq Frontier'
    BY <2>1, <2>2, Facts DEF Frontier
  <2>6. \A c \in Frontier : c \in Nat /\ c < seq[m] /\ seq[m] \in Nat
    BY <2>1, Facts DEF Frontier
  <2> QED
    BY <2>1, <2>3, <2>4, <2>5, <2>6 DEF Behind, Arrived
<1>4. CASE AbortRow(m)
  <2>1. /\ tx' = [tx EXCEPT ![m] = "aborted"] /\ tx[m] \in {"locked", "inserted"} /\ seq' = seq
        /\ barrier' = barrier \ {m}
    BY <1>4 DEF AbortRow
  <2>2. LastSeq' = LastSeq /\ barrier = {m}
    BY <2>1 DEF LastSeq, Numbered
  <2>3. Numbered'
    BY <2>1, <2>2, Facts DEF Numbered
  <2>4. Committed' = Committed
    BY <2>1, Facts DEF Committed
  <2>5. Frontier \subseteq Frontier'
    BY <2>1, <2>2, Facts DEF Frontier
  <2> QED
    BY <2>1, <2>3, <2>4, <2>5 DEF Behind, Arrived
<1>5. CASE Push(m)
  BY <1>5, NumberedCalm, BehindCalm DEF Push
<1> QED
  BY <1>1, <1>2, <1>3, <1>4, <1>5 DEF Handle

\* Every other step leaves the server's rows alone.
LEMMA TabStep ==
  ASSUME NEW t \in Tabs, \/ Greet(t) \/ Receive(t) \/ RotateKeys(t)
                         \/ SyncJob(t) \/ SaveTimer(t) \/ Fault(t)
  PROVE  UNCHANGED <<tx, seq, barrier>> /\ fanout' = fanout
<1>1. CASE Greet(t)
  BY <1>1 DEF Greet, Register, SendAuthOk, FlushOffline, server
<1>2. CASE Receive(t) \/ RotateKeys(t) \/ SaveTimer(t)
  BY <1>2 DEF Receive, RotateKeys, SaveTimer, server
<1>3. CASE SyncJob(t)
  BY <1>3 DEF SyncJob, SyncMessages, Abandon, Request, SyncPage, Dispatch, FlushMessageCache,
              AdvanceCursor, server
<1>4. CASE Fault(t)
  BY <1>4 DEF Fault, RequestFails, FlushFails, SaveFails, Disconnect, Reload, Logout, Login, server
<1> QED
  BY <1>1, <1>2, <1>3, <1>4

LEMMA NumberedStep ==
  ASSUME TypeOK, Numbered, [Next]_vars
  PROVE  Numbered' /\ Behind
<1>1. CASE UNCHANGED vars
  BY <1>1, NumberedCalm, BehindCalm DEF vars, server
<1>2. ASSUME NEW m \in Messages, Handle(m) \/ DeliverElsewhere(m)
      PROVE  Numbered' /\ Behind
  BY <1>2, ServerStep, NumberedCalm, BehindCalm DEF DeliverElsewhere
<1>3. ASSUME NEW t \in Tabs, \/ Greet(t) \/ Receive(t) \/ RotateKeys(t)
                             \/ SyncJob(t) \/ SaveTimer(t) \/ Fault(t)
      PROVE  Numbered' /\ Behind
  BY <1>3, TabStep, NumberedCalm, BehindCalm
<1> QED
  BY <1>1, <1>2, <1>3 DEF Next

-----------------------------------------------------------------------------
(* The cursor.                                                               *)

\* Steps of the server and of the socket disturb nothing below a frontier.
LEMMA CursorsCalm ==
  ASSUME TypeOK, Cursors, Behind,
         UNCHANGED <<cursor, cache, dropped, memory, timer, job, user>>
  PROVE  Cursors'
<1>1. \A m \in Arrived', c \in Frontier : seq'[m] <= c => m \in Arrived /\ seq[m] <= c
  BY DEF Behind
<1>2. cursor \in Frontier /\ cursor' \in Frontier'
  BY DEF Cursors, Behind
<1>3. \A m \in Arrived' : seq'[m] <= cursor' => m \in Held'
  BY <1>1, <1>2 DEF Cursors, Held
<1>4. ASSUME NEW t \in Tabs
      PROVE  CursorsOf(t)'
  <2>1. CursorsOf(t)
    BY DEF Cursors
  <2>2. \A m \in Arrived' : seq'[m] <= cursor' => m \in Shown(t)'
    BY <1>1, <1>2, <2>1 DEF CursorsOf, Shown
  <2>3. job[t].phase = "advance" =>
          user /\ job[t].rows = {} /\ \A m \in Arrived' : seq'[m] <= job[t].next => m \in Held
    <3>1. job[t].phase = "advance" => job[t].next \in Frontier /\ user
      BY <2>1 DEF CursorsOf
    <3> QED
      BY <1>1, <2>1, <3>1 DEF CursorsOf
  <2>4. user /\ job[t].phase \in {"dispatch", "advance"} =>
          /\ job[t].next \in Frontier' /\ cursor <= job[t].next
          /\ \A m \in Arrived' : seq'[m] <= job[t].next => m \in job[t].rows \cup Shown(t)
    BY <1>1, <2>1 DEF CursorsOf, Behind
  <2> QED
    BY <2>1, <2>2, <2>3, <2>4 DEF CursorsOf, Shown, Held
<1> QED
  BY <1>2, <1>3, <1>4 DEF Cursors

\* What a step of the tab has to show, once the rows are known to stay.
LEMMA CursorsTab ==
  ASSUME Alone, NEW t \in Tabs, UNCHANGED <<tx, seq>>,
         cursor' \in Frontier,
         \A m \in Arrived : seq[m] <= cursor' => m \in Held' /\ m \in Shown(t)',
         timer'[t] = NoSave \/ timer'[t] = memory'[t] \/ memory'[t] = <<>>,
         job'[t].phase = "advance" =>
           user' /\ job'[t].rows = {} /\ \A m \in Arrived : seq[m] <= job'[t].next => m \in Held',
         user' /\ job'[t].phase # "none" => job'[t].cur = cursor',
         user' /\ job'[t].phase \in {"dispatch", "advance"} =>
           /\ job'[t].next \in Frontier /\ cursor' <= job'[t].next
           /\ \A m \in Arrived : seq[m] <= job'[t].next => m \in job'[t].rows \cup Shown(t)'
  PROVE  Cursors'
<1>1. Arrived' = Arrived /\ Frontier' = Frontier /\ seq' = seq
  BY Unmoved
<1>2. CursorsOf(t)'
  BY <1>1 DEF CursorsOf
<1>3. \A u \in Tabs : u = t
  BY DEF Alone
<1>4. \A u \in Tabs : CursorsOf(u)'
  BY <1>2, <1>3
<1> QED
  BY <1>1, <1>4 DEF Cursors

\* The job ends, and nothing is written.
LEMMA CursorsFinish ==
  ASSUME Alone, TypeOK, Cursors, NEW t \in Tabs, UNCHANGED <<tx, seq, cursor, cache, dropped, memory>>,
         job'[t].phase \in {"none", "request"}, user' /\ job'[t].phase = "request" => job'[t].cur = cursor,
         timer'[t] \in {timer[t], NoSave}
  PROVE  Cursors'
<1>1. CursorsOf(t)
  BY DEF Cursors
<1>2. Held' = Held /\ Shown(t)' = Shown(t)
  BY DEF Held, Shown
<1>3. \A m \in Arrived : seq[m] <= cursor' => m \in Held' /\ m \in Shown(t)'
  BY <1>1, <1>2 DEF Cursors, CursorsOf
<1>4. timer'[t] = NoSave \/ timer'[t] = memory'[t] \/ memory'[t] = <<>>
  BY <1>1 DEF CursorsOf
<1>5. cursor' \in Frontier
  BY DEF Cursors
<1> QED
  BY <1>3, <1>4, <1>5, CursorsTab

\* A message is added to the store.
LEMMA CursorsAdd ==
  ASSUME Alone, TypeOK, Cursors, NEW t \in Tabs, NEW m \in Mine, Add(t, m),
         UNCHANGED <<tx, seq, cursor, cache, dropped, user>>,
         job'[t].phase = job[t].phase, job'[t].cur = job[t].cur, job'[t].next = job[t].next,
         job[t].phase # "advance", job[t].rows \subseteq job'[t].rows \cup {m}
  PROVE  Cursors'
<1>1. CursorsOf(t) /\ Held' = Held
  BY DEF Cursors, Held
<1>2. Shown(t)' = Shown(t) \cup {m}
  <2>1. ToSet(memory'[t]) = ToSet(memory[t]) \cup {m} /\ dropped' = dropped
    BY AddTyped
  <2> QED
    BY <2>1 DEF Shown
<1>3. timer'[t] = NoSave \/ timer'[t] = memory'[t] \/ memory'[t] = <<>>
  BY <1>1, AddTyped DEF CursorsOf
<1>4. \A k \in Arrived : seq[k] <= cursor' => k \in Held' /\ k \in Shown(t)'
  BY <1>1, <1>2 DEF Cursors, CursorsOf
<1>5. cursor' \in Frontier
  BY DEF Cursors
<1>6. user' /\ job'[t].phase \in {"dispatch", "advance"} =>
           /\ job'[t].next \in Frontier /\ cursor' <= job'[t].next
           /\ \A k \in Arrived : seq[k] <= job'[t].next => k \in job'[t].rows \cup Shown(t)'
  BY <1>1, <1>2 DEF CursorsOf
<1>7. user' /\ job'[t].phase # "none" => job'[t].cur = cursor'
  BY <1>1 DEF CursorsOf
<1> QED
  BY <1>3, <1>4, <1>5, <1>6, <1>7, CursorsTab

\* The store, or what the timer holds of it, is written to the cache.
LEMMA CursorsSave ==
  ASSUME Alone, TypeOK, Cursors, NEW t \in Tabs, NEW kept,
         kept = memory[t] \/ memory[t] = <<>>, ToSet(kept) \cup dropped \subseteq Held',
         UNCHANGED <<tx, seq, cursor, memory, user>>, dropped \subseteq dropped', timer'[t] = NoSave,
         job'[t] = job[t], job[t].phase # "advance"
  PROVE  Cursors'
<1>1. CursorsOf(t)
  BY DEF Cursors
<1>2. Shown(t) \subseteq Shown(t)'
  BY DEF Shown
<1>3. Shown(t) \subseteq Held'
  <2>1. CASE memory[t] = <<>>
    <3>1. ToSet(memory[t]) = {}
      BY <2>1 DEF ToSet
    <3> QED
      BY <3>1 DEF Shown
  <2>2. CASE kept = memory[t]
    BY <2>2 DEF Shown
  <2> QED
    BY <2>1, <2>2
<1>4. \A m \in Arrived : seq[m] <= cursor' => m \in Held' /\ m \in Shown(t)'
  BY <1>1, <1>2, <1>3 DEF CursorsOf
<1>5. cursor' \in Frontier
  BY DEF Cursors
<1>6. user' /\ job'[t].phase \in {"dispatch", "advance"} =>
           /\ job'[t].next \in Frontier /\ cursor' <= job'[t].next
           /\ \A k \in Arrived : seq[k] <= job'[t].next => k \in job'[t].rows \cup Shown(t)'
  BY <1>1, <1>2 DEF CursorsOf
<1>7. user' /\ job'[t].phase # "none" => job'[t].cur = cursor'
  BY <1>1 DEF CursorsOf
<1> QED
  BY <1>4, <1>5, <1>6, <1>7, CursorsTab

LEMMA CursorsJob ==
  ASSUME Alone, TypeOK, Numbered, Cursors, NEW t \in Tabs,
         SyncJob(t) \/ RequestFails(t) \/ FlushFails(t)
  PROVE  Cursors'
<1>0. CursorsOf(t) /\ job[t] \in Jobs /\ UNCHANGED <<tx, seq>>
  BY Facts, TabStep DEF Cursors, Fault
<1>1. CASE SyncMessages(t)
  <2>1. UNCHANGED <<cursor, cache, dropped, memory, timer, user>>
    BY <1>1 DEF SyncMessages, storage
  <2>2. CASE user /\ job[t] = NoJob
    <3>1. job'[t].phase = "request" /\ job'[t].cur = cursor
      BY <1>1, <2>2, Facts DEF SyncMessages, NoJob
    <3> QED
      BY <1>0, <2>1, <3>1, CursorsFinish
  <2>3. CASE ~(user /\ job[t] = NoJob)
    <3>1. job' = job
      BY <1>1, <2>3 DEF SyncMessages
    <3> QED
      BY <1>0, <2>1, <3>1, BehindCalm, CursorsCalm
  <2> QED
    BY <2>2, <2>3
<1>2. ASSUME Abandon(t) \/ RequestFails(t) \/ FlushFails(t)
      PROVE  Cursors'
  <2>1. job'[t] = NoJob
    BY <1>2, Facts DEF Abandon, RequestFails, FlushFails, Finish
  <2>2. timer'[t] \in {timer[t], NoSave}
    BY <1>2, Facts DEF Abandon, RequestFails, FlushFails
  <2>3. UNCHANGED <<cursor, cache, dropped, memory, user>>
    BY <1>2 DEF Abandon, RequestFails, FlushFails, storage
  <2> QED
    BY <1>0, <2>1, <2>2, <2>3, Facts, CursorsFinish
<1>3. CASE Request(t)
  <2>1. job'[t].phase = "waiting" /\ job'[t].cur = job[t].cur /\ job[t].phase = "request"
    BY <1>0, <1>3, Facts DEF Request, Jobs
  <2>2. UNCHANGED <<cursor, cache, dropped, memory, timer, user>>
    BY <1>3 DEF Request, storage
  <2>3. /\ cursor' \in Frontier
        /\ \A m \in Arrived : seq[m] <= cursor' => m \in Held' /\ m \in Shown(t)'
        /\ timer'[t] = NoSave \/ timer'[t] = memory'[t] \/ memory'[t] = <<>>
        /\ user' /\ job'[t].phase # "none" => job'[t].cur = cursor'
    BY <1>0, <2>1, <2>2 DEF Cursors, CursorsOf, Held, Shown
  <2> QED
    BY <1>0, <2>1, <2>3, CursorsTab
<1>4. CASE SyncPage(t)
  <2> DEFINE rows == SyncRows(job[t].cur)
             next == NextCursor(job[t].cur, rows)
  <2>1. /\ job[t].phase = "waiting" /\ barrier = {}
        /\ job'[t].phase = "dispatch" /\ job'[t].cur = job[t].cur
        /\ job'[t].rows = rows /\ job'[t].next = next
    BY <1>0, <1>4, Facts DEF SyncPage, Jobs
  <2>2. UNCHANGED <<cursor, cache, dropped, memory, timer, user>>
    BY <1>4 DEF SyncPage, storage
  <2>3. /\ cursor' \in Frontier
        /\ \A m \in Arrived : seq[m] <= cursor' => m \in Held' /\ m \in Shown(t)'
        /\ timer'[t] = NoSave \/ timer'[t] = memory'[t] \/ memory'[t] = <<>>
        /\ user' /\ job'[t].phase # "none" => job'[t].cur = cursor'
    BY <1>0, <2>1, <2>2 DEF Cursors, CursorsOf, Held, Shown
  <2>4. ASSUME user
        PROVE  /\ next \in Frontier /\ cursor <= next
               /\ \A m \in Arrived : seq[m] <= next => m \in rows \cup Shown(t)
    <3>1. job[t].cur = cursor /\ cursor \in Frontier
      BY <1>0, <2>1, <2>4 DEF Cursors, CursorsOf
    <3>2. cursor \in Nat /\ cursor <= LastSeq
      BY <3>1, Facts DEF Frontier
    <3>3. /\ next \in 0..LastSeq /\ cursor <= next
          /\ \A m \in Arrived : cursor < seq[m] /\ seq[m] <= next => m \in rows
      BY <3>1, <3>2, Page
    <3>4. \A m \in Messages : tx[m] # "inserted"
      BY <2>1 DEF Numbered
    <3>5. next \in Frontier
      BY <3>3, <3>4 DEF Frontier
    <3>6. ASSUME NEW m \in Arrived, seq[m] <= next
          PROVE  m \in rows \cup Shown(t)
      <4>1. CASE cursor < seq[m]
        BY <3>3, <3>6, <4>1
      <4>2. CASE ~(cursor < seq[m])
        <5>1. seq[m] \in Nat
          BY Facts DEF Arrived
        <5>2. seq[m] <= cursor
          <6> HIDE DEF rows, next
          <6> QED
            BY <3>2, <4>2, <5>1
        <5> QED
          BY <1>0, <5>2 DEF CursorsOf
      <4> QED
        BY <4>1, <4>2
    <3> QED
      BY <3>3, <3>5, <3>6
  <2>5. Shown(t)' = Shown(t)
    BY <2>2 DEF Shown
  <2> HIDE DEF rows, next
  <2> QED
    BY <1>0, <2>1, <2>2, <2>3, <2>4, <2>5, CursorsTab
<1>5. CASE Dispatch(t)
  <2>1. PICK m \in job[t].rows : /\ Add(t, m)
                                 /\ job' = [job EXCEPT ![t].rows = job[t].rows \ {m}]
    BY <1>5 DEF Dispatch
  <2>2. m \in Mine
    BY <1>0 DEF Jobs
  <2>3. /\ job'[t].phase = job[t].phase /\ job'[t].cur = job[t].cur
        /\ job'[t].next = job[t].next /\ job'[t].rows = job[t].rows \ {m}
    BY <1>0, <2>1, Facts DEF Jobs
  <2>4. UNCHANGED <<cursor, cache, dropped, user>> /\ job[t].phase = "dispatch"
    BY <1>5 DEF Dispatch, storage
  <2> QED
    BY <1>0, <2>1, <2>2, <2>3, <2>4, CursorsAdd
<1>6. CASE FlushMessageCache(t)
  <2>1. /\ job[t].phase = "dispatch" /\ user /\ job[t].rows = {} /\ timer'[t] = NoSave
        /\ dropped' = dropped \cup (ToSet(memory[t]) \ ToSet(cache'))
        /\ UNCHANGED <<cursor, memory, user>>
    BY <1>6, Facts DEF FlushMessageCache
  <2>2. /\ job'[t].phase = "advance" /\ job'[t].rows = {}
        /\ job'[t].cur = job[t].cur /\ job'[t].next = job[t].next
    BY <1>0, <1>6, Facts DEF FlushMessageCache, Jobs
  <2>3. Shown(t) \subseteq Shown(t)' /\ Shown(t) \subseteq Held'
    BY <2>1 DEF Shown, Held
  <2>4. \A m \in Arrived : seq[m] <= job[t].next => m \in Shown(t)
    BY <1>0, <2>1 DEF CursorsOf
  <2>5. /\ cursor' \in Frontier
        /\ \A m \in Arrived : seq[m] <= cursor' => m \in Held' /\ m \in Shown(t)'
        /\ job'[t].cur = cursor' /\ job'[t].next \in Frontier /\ cursor' <= job'[t].next
    BY <1>0, <2>1, <2>2, <2>3 DEF Cursors, CursorsOf
  <2> QED
    BY <1>0, <2>1, <2>2, <2>3, <2>4, <2>5, CursorsTab
<1>7. CASE AdvanceCursor(t)
  <2>1. /\ job[t].phase = "advance" /\ UNCHANGED <<cache, dropped, memory, timer, user>>
        /\ cursor' = IF job[t].next > job[t].cur THEN job[t].next ELSE cursor
    BY <1>7 DEF AdvanceCursor
  <2>2. /\ user /\ job[t].rows = {} /\ job[t].cur = cursor
        /\ job[t].next \in Frontier /\ cursor <= job[t].next
        /\ \A m \in Arrived : seq[m] <= job[t].next => m \in Held /\ m \in Shown(t)
    BY <1>0, <2>1 DEF CursorsOf
  <2>3. cursor' = job[t].next
    BY <1>0, <2>1, <2>2, Facts DEF Jobs, SeqNumbers
  <2>4. job'[t].phase \in {"none", "request"} /\ (job'[t].phase = "request" => job'[t].cur = job[t].next)
    <3>1. CASE job[t].more
      <4>1. job' = [job EXCEPT ![t] = [job[t] EXCEPT !.phase = "request", !.cur = job[t].next]]
        BY <1>7, <3>1, Facts DEF AdvanceCursor
      <4> QED
        BY <1>0, <4>1, Facts DEF Jobs
    <3>2. CASE ~job[t].more
      <4>1. job'[t] = NoJob
        BY <1>7, <3>2, Facts DEF AdvanceCursor, Finish
      <4> QED
        BY <4>1, Facts
    <3> QED
      BY <3>1, <3>2
  <2>5. Held' = Held /\ Shown(t)' = Shown(t)
    BY <2>1 DEF Held, Shown
  <2>6. timer'[t] = NoSave \/ timer'[t] = memory'[t] \/ memory'[t] = <<>>
    BY <1>0, <2>1 DEF CursorsOf
  <2> QED
    BY <1>0, <2>2, <2>3, <2>4, <2>5, <2>6, CursorsTab
<1> QED
  BY <1>1, <1>2, <1>3, <1>4, <1>5, <1>6, <1>7 DEF SyncJob

LEMMA CursorsStep ==
  ASSUME Alone, ~StaleJobs, TypeOK, Numbered, Cursors, Behind, [Next]_vars
  PROVE  Cursors'
<1>1. CASE UNCHANGED vars
  BY <1>1, CursorsCalm DEF vars, storage, page
<1>2. ASSUME NEW m \in Messages, Handle(m) \/ DeliverElsewhere(m)
      PROVE  Cursors'
  BY <1>2, CursorsCalm DEF Handle, LockBarrier, InsertRow, CommitRow, AbortRow, Push,
                           DeliverElsewhere, storage, page
<1>3. ASSUME NEW t \in Tabs, \/ Greet(t) \/ Receive(t) \/ RotateKeys(t)
                             \/ SyncJob(t) \/ SaveTimer(t) \/ Fault(t)
      PROVE  Cursors'
  <2>0. CursorsOf(t) /\ job[t] \in Jobs /\ UNCHANGED <<tx, seq>>
    BY <1>3, Facts, TabStep DEF Cursors
  <2>1. CASE Greet(t) \/ RotateKeys(t)
    BY <2>1, CursorsCalm DEF Greet, Register, SendAuthOk, FlushOffline, RotateKeys, storage, page
  <2>2. CASE Receive(t)
    <3>1. UNCHANGED <<cursor, cache, dropped, job, user>> /\ job[t].phase # "advance"
      BY <2>2 DEF Receive, Idle, storage
    <3>2. CASE Head(channel[t]) = AuthOk
      BY <2>2, <3>1, <3>2, CursorsCalm DEF Receive
    <3>3. CASE Head(channel[t]) # AuthOk
      <4>1. Add(t, Head(channel[t]))
        BY <2>2, <3>3 DEF Receive
      <4>2. Head(channel[t]) \in Mine
        <5>1. channel[t] \in Seq(Mine \cup {AuthOk}) /\ channel[t] # <<>>
          BY <2>2, Facts DEF Receive
        <5>2. Head(channel[t]) \in Mine \cup {AuthOk}
          BY <5>1, ToSetTail
        <5> QED
          BY <3>3, <5>2
      <4> QED
        BY <2>0, <3>1, <4>1, <4>2, CursorsAdd
    <3> QED
      BY <3>2, <3>3
  <2>3. CASE SyncJob(t) \/ RequestFails(t) \/ FlushFails(t)
    BY <2>3, CursorsJob
  <2>4. CASE SaveTimer(t) \/ SaveFails(t)
    <3>1. timer[t] # NoSave /\ job[t].phase # "advance" /\ timer'[t] = NoSave
      BY <2>4, Facts DEF SaveTimer, SaveFails, Idle
    <3>2. timer[t] = memory[t] \/ memory[t] = <<>>
      BY <2>0, <3>1 DEF CursorsOf
    <3>3. UNCHANGED <<cursor, memory, user, job>>
      BY <2>4 DEF SaveTimer, SaveFails
    <3>4. ToSet(timer[t]) \cup dropped \subseteq Held' /\ dropped \subseteq dropped'
      BY <2>4 DEF SaveTimer, SaveFails, Held
    <3> QED
      BY <2>0, <3>1, <3>2, <3>3, <3>4, CursorsSave
  <2>5. CASE Disconnect(t)
    <3>1. /\ job'[t].phase = job[t].phase /\ job'[t].cur = job[t].cur
          /\ job'[t].next = job[t].next /\ job'[t].rows = job[t].rows
      BY <2>0, <2>5, Facts DEF Disconnect, Jobs
    <3>2. UNCHANGED <<cursor, cache, dropped, memory, timer, user>>
      BY <2>5 DEF Disconnect, storage
    <3>3. Held' = Held /\ Shown(t)' = Shown(t)
      BY <3>2 DEF Held, Shown
    <3>4. /\ cursor' \in Frontier
          /\ \A m \in Arrived : seq[m] <= cursor' => m \in Held' /\ m \in Shown(t)'
          /\ timer'[t] = NoSave \/ timer'[t] = memory'[t] \/ memory'[t] = <<>>
      BY <2>0, <3>2, <3>3 DEF Cursors, CursorsOf
    <3>5. /\ job'[t].phase = "advance" =>
               user' /\ job'[t].rows = {} /\ \A m \in Arrived : seq[m] <= job'[t].next => m \in Held'
          /\ user' /\ job'[t].phase # "none" => job'[t].cur = cursor'
          /\ user' /\ job'[t].phase \in {"dispatch", "advance"} =>
               /\ job'[t].next \in Frontier /\ cursor' <= job'[t].next
               /\ \A m \in Arrived : seq[m] <= job'[t].next => m \in job'[t].rows \cup Shown(t)'
      BY <2>0, <3>1, <3>2, <3>3 DEF CursorsOf
    <3> QED
      BY <2>0, <3>4, <3>5, CursorsTab
  <2>6. CASE Reload(t)
    <3>1. /\ job'[t] = NoJob /\ memory'[t] = cache /\ timer'[t] = NoSave
          /\ UNCHANGED <<cursor, cache, dropped>>
      BY <2>6, Facts DEF Reload, storage
    <3>2. Held' = Held /\ Shown(t)' = Held
      BY <3>1 DEF Held, Shown
    <3>3. /\ cursor' \in Frontier
          /\ \A m \in Arrived : seq[m] <= cursor' => m \in Held' /\ m \in Shown(t)'
      BY <3>1, <3>2 DEF Cursors
    <3> QED
      BY <2>0, <3>1, <3>3, Facts, CursorsTab
  <2>7. CASE Logout(t)
    <3>1. cursor' = 0 /\ memory'[t] = <<>> /\ ~user' /\ job[t].phase # "advance"
      BY <2>7, Facts DEF Logout, Idle
    <3>2. job'[t].phase = job[t].phase
      BY <2>0, <2>7, Facts DEF Logout, Jobs
    <3>3. \A m \in Messages : seq[m] \in Nat /\ (tx[m] \in {"inserted", "committed"} => seq[m] # 0)
      BY Facts DEF Numbered
    <3>4. cursor' \in Frontier
      BY <3>1, <3>3, Facts DEF Frontier
    <3>5. \A m \in Arrived : ~(seq[m] <= cursor')
      BY <3>1, <3>3 DEF Arrived, Committed
    <3> QED
      BY <2>0, <3>1, <3>2, <3>4, <3>5, CursorsTab
  <2>8. CASE Login(t)
    <3>1. /\ job[t] = NoJob
          /\ UNCHANGED <<cursor, cache, dropped, memory, timer, job>>
      BY <2>8 DEF Login, storage, page
    <3> QED
      BY <2>0, <3>1, Facts, CursorsFinish
  <2> QED
    BY <1>3, <2>1, <2>2, <2>3, <2>4, <2>5, <2>6, <2>7, <2>8 DEF Fault
<1> QED
  BY <1>1, <1>2, <1>3 DEF Next

-----------------------------------------------------------------------------
(* The catch-up.                                                             *)

\* Nothing new is missed, and the job and the socket stay where they are.
LEMMA CatchUpCalm ==
  ASSUME NEW t \in Tabs, CatchUpOf(t),
         Missing(t)' \subseteq Missing(t) \/ (conn[t] = "down" /\ ~job[t].fresh),
         ~user' => ~user \/ conn'[t] = "down", conn'[t] = "down" <=> conn[t] = "down",
         job'[t] = job[t], outcome'[t] = "resolved" => outcome[t] = "resolved" \/ conn'[t] = "down"
  PROVE  CatchUpOf(t)'
BY DEF CatchUpOf

LEMMA CatchUpServer ==
  ASSUME TypeOK, Numbered, CatchUp, NEW m \in Messages, Handle(m) \/ DeliverElsewhere(m)
  PROVE  CatchUp'
<1>1. UNCHANGED <<storage, conn, page, user>>
  BY DEF Handle, LockBarrier, InsertRow, CommitRow, AbortRow, Push, DeliverElsewhere, socket
<1> SUFFICES ASSUME NEW t \in Tabs
             PROVE  CatchUpOf(t)'
  BY DEF CatchUp
<1>2. Shown(t)' = Shown(t)
  BY <1>1 DEF Shown, storage, page
<1>3. Missing(t)' \subseteq Missing(t) \/ (conn[t] = "down" /\ ~job[t].fresh)
  <2>1. CASE CommitRow(m)
    <3>1. /\ tx' = [tx EXCEPT ![m] = "committed"] /\ channel' = channel
          /\ fanout' = fanout \cup ({m} \cap Mine)
      BY <2>1 DEF CommitRow, socket
    <3>2. Arrived' \subseteq Arrived \cup ({m} \cap Mine)
      BY <3>1, Facts DEF Arrived, Committed
    <3> QED
      BY <1>2, <3>1, <3>2 DEF Missing
  <2>2. CASE Push(m)
    <3>1. /\ fanout' = fanout \ {m} /\ Arrived' = Arrived /\ m \in Mine
          /\ channel'[t] = IF conn[t] = "down" THEN channel[t] ELSE Append(channel[t], m)
      BY <2>2, Unmoved, Facts DEF Push
    <3>2. CASE conn[t] = "down"
      BY <3>2 DEF CatchUp, CatchUpOf
    <3>3. CASE conn[t] # "down"
      <4>1. channel[t] \in Seq(Mine \cup {AuthOk})
        BY Facts
      <4>2. ToSet(channel'[t]) = ToSet(channel[t]) \cup {m}
        BY <3>1, <3>3, <4>1, ToSetAppend
      <4> QED
        BY <1>2, <3>1, <4>2 DEF Missing
    <3> QED
      BY <3>2, <3>3
  <2>3. CASE LockBarrier(m) \/ InsertRow(m) \/ AbortRow(m) \/ DeliverElsewhere(m)
    <3>1. Arrived' = Arrived
      BY <2>3, Facts DEF LockBarrier, InsertRow, AbortRow, DeliverElsewhere, Arrived, Committed
    <3>2. fanout' = fanout /\ channel' = channel
      BY <2>3 DEF LockBarrier, InsertRow, AbortRow, DeliverElsewhere, socket
    <3> QED
      BY <1>2, <3>1, <3>2 DEF Missing
  <2> QED
    BY <2>1, <2>2, <2>3 DEF Handle
<1> QED
  BY <1>1, <1>3, CatchUpCalm DEF CatchUp, page

LEMMA CatchUpTab ==
  ASSUME Alone, NEW t \in Tabs, CatchUpOf(t)'
  PROVE  CatchUp'
<1>1. \A u \in Tabs : u = t
  BY DEF Alone
<1> QED
  BY <1>1 DEF CatchUp

LEMMA CatchUpSocket ==
  ASSUME TypeOK, CatchUp, NEW t \in Tabs, UNCHANGED <<tx, seq, fanout>>,
         Greet(t) \/ Receive(t) \/ RotateKeys(t) \/ Disconnect(t) \/ Login(t)
  PROVE  CatchUpOf(t)'
<1>0. CatchUpOf(t) /\ Arrived' = Arrived /\ job[t] \in Jobs /\ channel[t] \in Seq(Mine \cup {AuthOk})
  BY Facts, Unmoved DEF CatchUp
<1>1. CASE Register(t)
  <2>1. /\ user /\ user' = user /\ conn'[t] = "registered" /\ conn[t] = "down"
        /\ outcome'[t] = "none" /\ job' = job
    BY <1>1, Facts DEF Register
  <2> QED
    BY <1>0, <2>1 DEF CatchUpOf
<1>2. CASE SendAuthOk(t) \/ FlushOffline(t)
  <2>1. /\ conn[t] # "down" /\ conn'[t] # "down" /\ job' = job /\ outcome' = outcome
        /\ user' = user /\ UNCHANGED <<memory, dropped>>
    BY <1>2, Facts DEF SendAuthOk, FlushOffline, storage, page
  <2>2. ToSet(channel[t]) \subseteq ToSet(channel'[t])
    <3>1. CASE SendAuthOk(t)
      <4>1. channel'[t] = Append(channel[t], AuthOk)
        BY <3>1, Facts DEF SendAuthOk
      <4> QED
        BY <1>0, <4>1, ToSetAppend
    <3>2. CASE FlushOffline(t)
      <4> DEFINE rows == (Committed \cap Private) \ delivered
      <4>1. rows \subseteq Mine /\ rows \subseteq Messages /\ IsFiniteSet(rows)
        BY SyncAssumption, FS_Subset DEF Committed
      <4>2. PICK frames \in SetToSeqs(rows) : channel' = [channel EXCEPT ![t] = channel[t] \o frames]
        BY <3>2 DEF FlushOffline
      <4>3. frames \in Seq(rows)
        BY <4>1, <4>2, FlushTyped
      <4>4. frames \in Seq(Mine \cup {AuthOk}) /\ channel'[t] = channel[t] \o frames
        <5>1. channel \in [Tabs -> Seq(Mine \cup {AuthOk})]
          BY Facts
        <5>2. frames \in Seq(Mine \cup {AuthOk})
          BY <4>1, <4>3
        <5> QED
          BY <4>2, <5>1, <5>2
      <4> QED
        BY <1>0, <4>4, ToSetConcat
    <3> QED
      BY <1>2, <3>1, <3>2
  <2>3. Missing(t)' \subseteq Missing(t)
    BY <1>0, <2>1, <2>2 DEF Missing, Shown
  <2> QED
    BY <1>0, <2>1, <2>3, CatchUpCalm
<1>3. CASE Receive(t)
  <2>1. /\ conn' = conn /\ job' = job /\ outcome' = outcome /\ user' = user
        /\ channel'[t] = Tail(channel[t]) /\ channel[t] # <<>> /\ dropped' = dropped
    BY <1>3, Facts DEF Receive, storage
  <2>2. /\ Head(channel[t]) \in Mine \cup {AuthOk}
        /\ ToSet(channel[t]) \subseteq ToSet(channel'[t]) \cup {Head(channel[t])}
    BY <1>0, <2>1, ToSetTail
  <2>3. Missing(t)' \subseteq Missing(t)
    <3>1. CASE Head(channel[t]) = AuthOk
      <4>1. memory' = memory
        BY <1>3, <3>1 DEF Receive
      <4>2. AuthOk \notin Arrived
        BY SyncAssumption DEF Arrived
      <4> QED
        BY <1>0, <2>1, <2>2, <3>1, <4>1, <4>2 DEF Missing, Shown
    <3>2. CASE Head(channel[t]) # AuthOk
      <4>1. Add(t, Head(channel[t])) /\ Head(channel[t]) \in Mine
        BY <1>3, <2>2, <3>2 DEF Receive
      <4>2. ToSet(memory'[t]) = ToSet(memory[t]) \cup {Head(channel[t])}
        BY <4>1, AddTyped
      <4> QED
        BY <1>0, <2>1, <2>2, <4>2 DEF Missing, Shown
    <3> QED
      BY <3>1, <3>2
  <2> QED
    BY <1>0, <2>1, <2>3, CatchUpCalm
<1>4. CASE RotateKeys(t)
  <2>1. UNCHANGED <<conn, channel, job, outcome, user, memory, dropped>>
    BY <1>4 DEF RotateKeys, storage, socket
  <2> QED
    BY <1>0, <2>1, CatchUpCalm DEF Missing, Shown
<1>5. CASE Disconnect(t)
  <2>1. conn'[t] = "down" /\ ~job'[t].fresh
    BY <1>0, <1>5, Facts DEF Disconnect, Jobs
  <2> QED
    BY <2>1 DEF CatchUpOf
<1>6. CASE Login(t)
  <2>1. UNCHANGED <<conn, channel, job, outcome, memory, dropped>> /\ user' = TRUE
    BY <1>6 DEF Login, storage, socket, page
  <2> QED
    BY <1>0, <2>1, CatchUpCalm DEF Missing, Shown
<1> QED
  BY <1>1, <1>2, <1>3, <1>4, <1>5, <1>6 DEF Greet

\* A job that has ended: what its promise says was true before.
LEMMA CatchUpFinish ==
  ASSUME TypeOK, CatchUp, NEW t \in Tabs, UNCHANGED <<tx, seq, fanout, conn, channel, memory, dropped, user>>,
         NEW result \in Outcomes, Finish(t, result),
         result = "resolved" /\ job[t].fresh => Missing(t) = {}
  PROVE  CatchUpOf(t)'
<1>1. Missing(t)' = Missing(t)
  BY Unmoved DEF Missing, Shown
<1>2. job'[t] = NoJob /\ ~job'[t].fresh
  BY FinishTyped, Facts
<1>3. outcome'[t] = "resolved" => outcome[t] = "resolved" \/ (result = "resolved" /\ job[t].fresh)
  BY FinishTyped
<1>4. CatchUpOf(t)
  BY DEF CatchUp
<1> QED
  BY <1>1, <1>2, <1>3, <1>4 DEF CatchUpOf

LEMMA CatchUpJob ==
  ASSUME Alone, TypeOK, Numbered, Cursors, CatchUp, NEW t \in Tabs, UNCHANGED <<tx, seq, fanout>>,
         SyncJob(t) \/ RequestFails(t) \/ FlushFails(t)
  PROVE  CatchUpOf(t)'
<1>0. /\ CatchUpOf(t) /\ CursorsOf(t) /\ job[t] \in Jobs /\ Arrived' = Arrived
      /\ conn' = conn /\ channel' = channel /\ user' = user
  <2>1. conn' = conn /\ channel' = channel /\ user' = user
    BY DEF SyncJob, SyncMessages, Abandon, Request, SyncPage, Dispatch, FlushMessageCache,
           AdvanceCursor, RequestFails, FlushFails, socket
  <2> QED
    BY <2>1, Facts, Unmoved DEF CatchUp, Cursors
<1>1. CASE SyncMessages(t)
  <2>1. UNCHANGED <<memory, dropped>> /\ (outcome'[t] = "resolved" => ~user)
    BY <1>1, Facts DEF SyncMessages, storage
  <2>2. Missing(t)' = Missing(t)
    BY <1>0, <2>1 DEF Missing, Shown
  <2>3. CASE user /\ job[t] = NoJob
    <3>1. job'[t].phase = "request" /\ (job'[t].fresh <=> conn[t] # "down")
      BY <1>1, <2>3, Facts DEF SyncMessages, NoJob
    <3> QED
      BY <1>0, <2>1, <2>2, <2>3, <3>1 DEF CatchUpOf
  <2>4. CASE ~(user /\ job[t] = NoJob)
    <3>1. job' = job
      BY <1>1, <2>4 DEF SyncMessages
    <3> QED
      BY <1>0, <2>1, <2>2, <3>1 DEF CatchUpOf
  <2> QED
    BY <2>3, <2>4
<1>2. CASE Abandon(t)
  <2>1. Finish(t, "resolved") /\ "resolved" \in Outcomes /\ ~user /\ UNCHANGED <<memory, dropped>>
    BY <1>2 DEF Abandon, Outcomes, storage
  <2>2. ~job[t].fresh
    BY <1>0, <2>1 DEF CatchUpOf
  <2> QED
    BY <1>0, <2>1, <2>2, CatchUpFinish
<1>3. CASE RequestFails(t) \/ FlushFails(t)
  <2>1. Finish(t, "rejected") /\ "rejected" \in Outcomes /\ UNCHANGED <<memory, dropped>>
    BY <1>3 DEF RequestFails, FlushFails, Outcomes, storage
  <2> QED
    BY <1>0, <2>1, CatchUpFinish
<1>4. CASE Request(t)
  <2>1. job'[t].phase = "waiting" /\ job'[t].fresh = job[t].fresh
    BY <1>0, <1>4, Facts DEF Request, Jobs
  <2>2. UNCHANGED <<memory, dropped, outcome>>
    BY <1>4 DEF Request, storage
  <2>3. Missing(t)' = Missing(t)
    BY <1>0, <2>2 DEF Missing, Shown
  <2> QED
    BY <1>0, <2>1, <2>2, <2>3 DEF CatchUpOf
<1>5. CASE SyncPage(t)
  <2> DEFINE rows == SyncRows(job[t].cur)
  <2>1. /\ job[t].phase = "waiting" /\ job'[t].fresh = job[t].fresh
        /\ job'[t].rows = rows /\ (job'[t].more <=> Cardinality(rows) = PageSize)
    BY <1>0, <1>5, Facts DEF SyncPage, Jobs
  <2>2. UNCHANGED <<memory, dropped, outcome>>
    BY <1>5 DEF SyncPage, storage
  <2>3. Missing(t)' = Missing(t)
    BY <1>0, <2>2 DEF Missing, Shown
  <2>4. ASSUME job[t].fresh, Cardinality(rows) # PageSize
        PROVE  Missing(t) \subseteq rows
    <3>1. user /\ job[t].cur = cursor /\ cursor \in Frontier
      BY <1>0, <2>1, <2>4 DEF CatchUpOf, CursorsOf, Cursors
    <3>2. cursor \in Nat /\ cursor <= LastSeq
      BY <3>1, Facts DEF Frontier
    <3>3. \A m \in Arrived : seq[m] > cursor => m \in rows
      BY <2>4, <3>1, <3>2, LastPage
    <3>4. \A m \in Arrived : seq[m] <= cursor => m \in Shown(t)
      BY <1>0 DEF CursorsOf
    <3>5. \A m \in Arrived : seq[m] > cursor \/ seq[m] <= cursor
      BY <3>2, Facts DEF Arrived
    <3> QED
      BY <3>3, <3>4, <3>5 DEF Missing
  <2> HIDE DEF rows
  <2> QED
    BY <1>0, <2>1, <2>2, <2>3, <2>4 DEF CatchUpOf
<1>6. CASE Dispatch(t)
  <2>1. PICK m \in job[t].rows : /\ Add(t, m)
                                 /\ job' = [job EXCEPT ![t].rows = job[t].rows \ {m}]
    BY <1>6 DEF Dispatch
  <2>2. m \in Mine
    BY <1>0 DEF Jobs
  <2>3. /\ job'[t].fresh = job[t].fresh /\ job'[t].phase = job[t].phase
        /\ job'[t].more = job[t].more /\ job'[t].rows = job[t].rows \ {m}
    BY <1>0, <2>1, Facts DEF Jobs
  <2>4. ToSet(memory'[t]) = ToSet(memory[t]) \cup {m}
    BY <2>1, <2>2, AddTyped
  <2>5. UNCHANGED <<dropped, outcome>>
    BY <1>6 DEF Dispatch, storage
  <2>6. Missing(t)' \subseteq Missing(t) \ {m}
    BY <1>0, <2>4, <2>5 DEF Missing, Shown
  <2> QED
    BY <1>0, <2>3, <2>5, <2>6 DEF CatchUpOf
<1>7. CASE FlushMessageCache(t)
  <2>1. /\ job[t].phase = "dispatch" /\ UNCHANGED <<memory, outcome>> /\ dropped \subseteq dropped'
    BY <1>7 DEF FlushMessageCache
  <2>2. job'[t].fresh = job[t].fresh /\ job'[t].more = job[t].more /\ job'[t].rows = job[t].rows
    BY <1>0, <1>7, Facts DEF FlushMessageCache, Jobs
  <2>3. Missing(t)' \subseteq Missing(t)
    BY <1>0, <2>1 DEF Missing, Shown
  <2> QED
    BY <1>0, <2>1, <2>2, <2>3 DEF CatchUpOf
<1>8. CASE AdvanceCursor(t)
  <2>1. job[t].phase = "advance" /\ UNCHANGED <<memory, dropped>>
    BY <1>8 DEF AdvanceCursor
  <2>2. CASE job[t].more
    <3>1. /\ job' = [job EXCEPT ![t] = [job[t] EXCEPT !.phase = "request", !.cur = job[t].next]]
          /\ outcome' = outcome
      BY <1>8, <2>2, Facts DEF AdvanceCursor
    <3>2. job'[t].phase = "request" /\ job'[t].fresh = job[t].fresh
      BY <1>0, <3>1, Facts DEF Jobs
    <3>3. Missing(t)' = Missing(t)
      BY <1>0, <2>1 DEF Missing, Shown
    <3> QED
      BY <1>0, <3>1, <3>2, <3>3 DEF CatchUpOf
  <2>3. CASE ~job[t].more
    <3>1. Finish(t, "resolved") /\ "resolved" \in Outcomes
      BY <1>8, <2>3 DEF AdvanceCursor, Outcomes
    <3>2. job[t].fresh => Missing(t) = {}
      BY <1>0, <2>1, <2>3 DEF CatchUpOf, CursorsOf
    <3> QED
      BY <1>0, <2>1, <3>1, <3>2, CatchUpFinish
  <2> QED
    BY <2>2, <2>3
<1> QED
  BY <1>1, <1>2, <1>3, <1>4, <1>5, <1>6, <1>7, <1>8 DEF SyncJob

LEMMA CatchUpSave ==
  ASSUME TypeOK, CatchUp, NEW t \in Tabs, UNCHANGED <<tx, seq, fanout>>,
         SaveTimer(t) \/ SaveFails(t) \/ Reload(t) \/ Logout(t)
  PROVE  CatchUpOf(t)'
<1>0. CatchUpOf(t) /\ Arrived' = Arrived /\ job[t] \in Jobs
  BY Facts, Unmoved DEF CatchUp
<1>1. CASE SaveTimer(t) \/ SaveFails(t)
  <2>1. UNCHANGED <<conn, channel, memory, job, outcome, user>> /\ dropped \subseteq dropped'
    BY <1>1 DEF SaveTimer, SaveFails, socket
  <2>2. Missing(t)' \subseteq Missing(t)
    BY <1>0, <2>1 DEF Missing, Shown
  <2> QED
    BY <1>0, <2>1, <2>2, CatchUpCalm
<1>2. CASE Reload(t)
  <2>1. conn'[t] = "down" /\ job'[t] = NoJob
    BY <1>2, Facts DEF Reload
  <2> QED
    BY <2>1, Facts DEF CatchUpOf
<1>3. CASE Logout(t)
  <2>1. conn'[t] = "down" /\ ~job'[t].fresh
    BY <1>0, <1>3, Facts DEF Logout, Jobs
  <2> QED
    BY <2>1 DEF CatchUpOf
<1> QED
  BY <1>1, <1>2, <1>3

LEMMA CatchUpStep ==
  ASSUME Alone, TypeOK, Numbered, Cursors, CatchUp, [Next]_vars
  PROVE  CatchUp'
<1>1. CASE UNCHANGED vars
  <2>1. \A t \in Tabs : CatchUpOf(t)' <=> CatchUpOf(t)
    BY <1>1 DEF CatchUpOf, Missing, Arrived, Committed, Shown, vars, server, storage, socket, page
  <2> QED
    BY <2>1 DEF CatchUp
<1>2. ASSUME NEW m \in Messages, Handle(m) \/ DeliverElsewhere(m)
      PROVE  CatchUp'
  BY <1>2, CatchUpServer
<1>3. ASSUME NEW t \in Tabs, \/ Greet(t) \/ Receive(t) \/ RotateKeys(t)
                             \/ SyncJob(t) \/ SaveTimer(t) \/ Fault(t)
      PROVE  CatchUp'
  <2>1. UNCHANGED <<tx, seq, fanout>>
    BY <1>3, TabStep
  <2>2. CatchUpOf(t)'
    BY <1>3, <2>1, CatchUpSocket, CatchUpJob, CatchUpSave DEF Fault
  <2> QED
    BY <2>2, CatchUpTab
<1> QED
  BY <1>1, <1>2, <1>3 DEF Next

-----------------------------------------------------------------------------
(* The theorems.                                                             *)

LEMMA InitInv ==
  ASSUME Init
  PROVE  TypeOK /\ Numbered /\ Cursors /\ CatchUp
<1>1. LastSeq = 0 /\ Arrived = {}
  <2>1. {m \in Messages : seq[m] # 0} = {}
    BY DEF Init
  <2> QED
    BY <2>1, FS_EmptySet DEF LastSeq, Arrived, Committed, Init
<1>2. 0 \in SeqNumbers /\ NoJob \in Jobs /\ NoJob.phase = "none" /\ ~NoJob.fresh
  BY SyncAssumption, FS_CardinalityType DEF SeqNumbers, NoJob, Jobs, Phases
<1>3. TypeOK
  <2>1. /\ tx \in [Messages -> {"idle", "locked", "inserted", "committed", "aborted"}]
        /\ seq \in [Messages -> SeqNumbers] /\ cursor \in SeqNumbers
        /\ job \in [Tabs -> Jobs]
    BY <1>2 DEF Init
  <2>2. /\ memory \in [Tabs -> Seq(Mine)] /\ timer \in [Tabs -> Seq(Mine) \cup {NoSave}]
        /\ channel \in [Tabs -> Seq(Mine \cup {AuthOk})] /\ cache \in Seq(Mine)
    BY DEF Init
  <2>3. /\ conn \in [Tabs -> {"down", "registered", "greeted", "flushed"}]
        /\ outcome \in [Tabs -> Outcomes] /\ barrier = {} /\ delivered = {} /\ fanout = {} /\ dropped = {}
    BY DEF Init, Outcomes
  <2>4. called \in [Tabs -> BOOLEAN] /\ user = TRUE
    BY DEF Init
  <2> QED
    BY <2>1, <2>2, <2>3, <2>4 DEF TypeOK, Jobs
<1>4. Numbered
  BY <1>1 DEF Init, Numbered
<1>5. Cursors
  BY <1>1, <1>2 DEF Init, Cursors, CursorsOf, Frontier
<1>6. CatchUp
  BY <1>1, <1>2 DEF Init, CatchUp, CatchUpOf, Missing
<1> QED
  BY <1>3, <1>4, <1>5, <1>6

\* The types of every variable, and the numbers the barrier gives out: no two rows
\* share one, only the holder of the barrier has one without having committed, and
\* none passes the count.  For any number of tabs, whatever they do.
THEOREM TypeCorrect == Spec => [](TypeOK /\ Numbered)
<1>1. Init => TypeOK /\ Numbered
  BY InitInv
<1>2. TypeOK /\ Numbered /\ [Next]_vars => (TypeOK /\ Numbered)'
  BY TypeStep, NumberedStep
<1> QED
  BY <1>1, <1>2, PTL DEF Spec

\* The inductive invariant for one tab, whose jobs end before the next login.
THEOREM Invariance ==
  ASSUME Alone, ~StaleJobs
  PROVE  Spec => [](TypeOK /\ Numbered /\ Cursors /\ CatchUp)
<1> DEFINE I == TypeOK /\ Numbered /\ Cursors /\ CatchUp
<1>1. Init => I
  BY InitInv
<1>2. I /\ [Next]_vars => I'
  BY TypeStep, NumberedStep, CursorsStep, CatchUpStep
<1> HIDE DEF I
<1>3. Spec => []I
  BY <1>1, <1>2, PTL DEF Spec
<1> QED
  BY <1>3 DEF I

\* The cursor in localStorage never passes a message that the cache has not held:
\* whatever commits, page reads, pushes, failed writes and reloads come between
\* (sync.ts saves the cache and then the cursor; sync_messages reads under the
\* barrier).  With two tabs, or with a job that outlives a logout, it does.
THEOREM CursorSkipsNothing ==
  ASSUME Alone, ~StaleJobs
  PROVE  Spec => []NoSkip
<1>1. Cursors => NoSkip
  BY DEF Cursors, NoSkip, Arrived
<1> QED
  BY <1>1, Invariance, PTL

\* While the socket is open on which a catch-up has succeeded, every message is in
\* the store, on its way to it or about to be pushed: the socket is registered
\* before the last page is read, and a job of an earlier socket does not count.
THEOREM CatchUpMissesNothing ==
  ASSUME Alone, ~StaleJobs
  PROVE  Spec => []CaughtUp
<1>1. CatchUp => CaughtUp
  BY DEF CatchUp, CatchUpOf, CaughtUp, Missing, Reached, Shown, Arrived
<1> QED
  BY <1>1, Invariance, PTL
==============================================================================
