---------------------------- MODULE OutboxProofs ----------------------------
(***************************************************************************)
(* Theorems about Outbox: for any number of messages, sockets, failures,    *)
(* reloads, restarts and logouts, what is sent again and again is stored    *)
(* and pushed once, in the order of sending, and its sender is told the     *)
(* truth.                                                                    *)
(***************************************************************************)
EXTENDS Outbox, TLAPS, SequenceTheorems

-----------------------------------------------------------------------------
(* Sequences.                                                                *)

Distinct(s) == \A i, j \in DOMAIN s : s[i] = s[j] => i = j

LEMMA ToSetAppend ==
  ASSUME NEW S, NEW s \in Seq(S), NEW m \in S
  PROVE  /\ Append(s, m) \in Seq(S)
         /\ ToSet(Append(s, m)) = ToSet(s) \cup {m}
<1>1. /\ Append(s, m) \in Seq(S) /\ Len(Append(s, m)) = Len(s) + 1
      /\ \A i \in 1..Len(s) : Append(s, m)[i] = s[i]
      /\ Append(s, m)[Len(s) + 1] = m
  OBVIOUS
<1>2. DOMAIN s = 1..Len(s) /\ DOMAIN Append(s, m) = 1..(Len(s) + 1) /\ Len(s) \in Nat
  BY <1>1
<1>3. ToSet(Append(s, m)) \subseteq ToSet(s) \cup {m}
  BY <1>1, <1>2 DEF ToSet
<1>4. ToSet(s) \cup {m} \subseteq ToSet(Append(s, m))
  <2>1. ASSUME NEW i \in DOMAIN s PROVE s[i] \in ToSet(Append(s, m))
    BY <1>1, <1>2 DEF ToSet
  <2>2. m \in ToSet(Append(s, m))
    BY <1>1, <1>2 DEF ToSet
  <2> QED
    BY <2>1, <2>2 DEF ToSet
<1> QED
  BY <1>1, <1>3, <1>4

LEMMA ToSetTail ==
  ASSUME NEW S, NEW s \in Seq(S), s # <<>>
  PROVE  /\ Head(s) \in ToSet(s) /\ Head(s) \in S
         /\ Tail(s) \in Seq(S)
         /\ ToSet(s) = ToSet(Tail(s)) \cup {Head(s)}
         /\ \A i \in DOMAIN Tail(s) : i + 1 \in DOMAIN s /\ Tail(s)[i] = s[i + 1]
<1>1. /\ Len(s) \in Nat \ {0} /\ DOMAIN s = 1..Len(s) /\ Head(s) = s[1]
      /\ Tail(s) \in Seq(S) /\ Len(Tail(s)) = Len(s) - 1
      /\ \A i \in 1..(Len(s) - 1) : Tail(s)[i] = s[i + 1]
  OBVIOUS
<1>2. DOMAIN Tail(s) = 1..(Len(s) - 1)
  BY <1>1
<1>3. ToSet(s) \subseteq ToSet(Tail(s)) \cup {Head(s)}
  <2>1. ASSUME NEW i \in DOMAIN s PROVE s[i] \in ToSet(Tail(s)) \cup {Head(s)}
    <3>1. CASE i = 1
      BY <1>1, <3>1
    <3>2. CASE i # 1
      <4>1. i - 1 \in DOMAIN Tail(s) /\ Tail(s)[i - 1] = s[i]
        BY <1>1, <1>2, <3>2
      <4> QED
        BY <4>1 DEF ToSet
    <3> QED
      BY <3>1, <3>2
  <2> QED
    BY <2>1 DEF ToSet
<1>4. ToSet(Tail(s)) \cup {Head(s)} \subseteq ToSet(s)
  BY <1>1, <1>2 DEF ToSet
<1>5. Head(s) \in ToSet(s) /\ Head(s) \in S
  BY <1>1 DEF ToSet
<1> QED
  BY <1>1, <1>2, <1>3, <1>4, <1>5

LEMMA ToSetConcat ==
  ASSUME NEW S, NEW s \in Seq(S), NEW t \in Seq(S)
  PROVE  /\ s \o t \in Seq(S)
         /\ ToSet(s \o t) = ToSet(s) \cup ToSet(t)
         /\ DOMAIN (s \o t) = 1..(Len(s) + Len(t))
         /\ \A i \in DOMAIN s : i \in DOMAIN (s \o t) /\ (s \o t)[i] = s[i]
         /\ \A i \in DOMAIN t : Len(s) + i \in DOMAIN (s \o t) /\ (s \o t)[Len(s) + i] = t[i]
<1>1. /\ Len(s) \in Nat /\ Len(t) \in Nat /\ DOMAIN s = 1..Len(s) /\ DOMAIN t = 1..Len(t)
      /\ s \o t \in Seq(S) /\ Len(s \o t) = Len(s) + Len(t)
      /\ \A i \in 1..(Len(s) + Len(t)) :
           (s \o t)[i] = IF i <= Len(s) THEN s[i] ELSE t[i - Len(s)]
  OBVIOUS
<1>2. DOMAIN (s \o t) = 1..(Len(s) + Len(t))
  BY <1>1
<1>3. \A i \in DOMAIN s : i \in DOMAIN (s \o t) /\ (s \o t)[i] = s[i]
  BY <1>1, <1>2
<1>4. \A i \in DOMAIN t : Len(s) + i \in DOMAIN (s \o t) /\ (s \o t)[Len(s) + i] = t[i]
  BY <1>1, <1>2
<1>5. ToSet(s) \cup ToSet(t) \subseteq ToSet(s \o t)
  BY <1>3, <1>4 DEF ToSet
<1>6. ToSet(s \o t) \subseteq ToSet(s) \cup ToSet(t)
  <2>1. ASSUME NEW i \in 1..(Len(s) + Len(t)) PROVE (s \o t)[i] \in ToSet(s) \cup ToSet(t)
    <3>1. CASE i <= Len(s)
      BY <1>1, <3>1 DEF ToSet
    <3>2. CASE ~(i <= Len(s))
      <4>1. i - Len(s) \in DOMAIN t /\ (s \o t)[i] = t[i - Len(s)]
        BY <1>1, <3>2
      <4> QED
        BY <4>1 DEF ToSet
    <3> QED
      BY <3>1, <3>2
  <2> QED
    BY <1>2, <2>1 DEF ToSet
<1> QED
  BY <1>1, <1>2, <1>3, <1>4, <1>5, <1>6

\* Two frames that the rest of a sequence holds in some order stand in that order
\* in the whole of it.
LEMMA WithoutMember ==
  ASSUME NEW S, NEW s \in Seq(S), NEW m
  PROVE  /\ Without(s, m) \in Seq(S)
         /\ Len(Without(s, m)) <= Len(s)
         /\ ToSet(Without(s, m)) \subseteq ToSet(s)
         /\ ToSet(s) \ {m} \subseteq ToSet(Without(s, m))
         /\ \A i, j \in DOMAIN Without(s, m) : i < j =>
              \E k, l \in DOMAIN s : k < l /\ s[k] = Without(s, m)[i] /\ s[l] = Without(s, m)[j]
<1>1. CASE m \notin ToSet(s)
  BY <1>1 DEF Without, ToSet
<1>2. CASE m \in ToSet(s)
  <2>0. PICK p \in DOMAIN s : p = IndexIn(s, m) /\ s[p] = m
    <3>1. \E i \in DOMAIN s : s[i] = m
      BY <1>2 DEF ToSet
    <3> QED
      BY <3>1 DEF IndexIn
  <2>1. Len(s) \in Nat /\ DOMAIN s = 1..Len(s) /\ p \in 1..Len(s) /\ s[p] = m
    BY <2>0
  <2> DEFINE u == SubSeq(s, 1, p - 1)
             v == SubSeq(s, p + 1, Len(s))
             t == u \o v
             from(i) == IF i < p THEN i ELSE i + 1
  <2>2. Without(s, m) = t
    BY <1>2, <2>0 DEF Without, RemoveAt
  <2>3. /\ u \in Seq(S) /\ Len(u) = p - 1
        /\ \A i \in 1..(p - 1) : u[i] = s[i]
    BY <2>1, SubSeqProperties
  <2>4. /\ v \in Seq(S) /\ Len(v) = Len(s) - p
        /\ \A i \in 1..(Len(s) - p) : v[i] = s[p + i]
    <3>1. /\ v \in Seq(S) /\ Len(v) = IF p + 1 <= Len(s) THEN Len(s) - (p + 1) + 1 ELSE 0
          /\ \A i \in 1..(Len(s) - (p + 1) + 1) : v[i] = s[(p + 1) + i - 1]
      BY <2>1, SubSeqProperties
    <3> HIDE DEF v
    <3>2. Len(s) - (p + 1) + 1 = Len(s) - p /\ Len(v) = Len(s) - p
      BY <2>1, <3>1
    <3>3. ASSUME NEW i \in 1..(Len(s) - p) PROVE v[i] = s[p + i]
      <4>1. (p + 1) + i - 1 = p + i
        BY <2>1
      <4>2. v[i] = s[(p + 1) + i - 1]
        BY <3>1, <3>2
      <4> QED
        BY <4>1, <4>2
    <3> QED
      BY <3>1, <3>2, <3>3
  <2> HIDE DEF u, v
  <2>5. /\ t \in Seq(S) /\ Len(t) = Len(s) - 1
        /\ \A i \in 1..(Len(s) - 1) : t[i] = IF i <= p - 1 THEN u[i] ELSE v[i - (p - 1)]
    <3>1. Len(u) + Len(v) = Len(s) - 1
      BY <2>1, <2>3, <2>4
    <3>2. /\ t \in Seq(S) /\ Len(t) = Len(u) + Len(v)
          /\ \A i \in 1..(Len(u) + Len(v)) : t[i] = IF i <= Len(u) THEN u[i] ELSE v[i - Len(u)]
      BY <2>3, <2>4, ConcatProperties
    <3> HIDE DEF t
    <3> QED
      BY <2>3, <3>1, <3>2
  <2> HIDE DEF t
  <2>6. DOMAIN t = 1..(Len(s) - 1)
    BY <2>5
  <2>7. ASSUME NEW i \in DOMAIN t
        PROVE  from(i) \in DOMAIN s /\ t[i] = s[from(i)]
    <3>1. i \in 1..(Len(s) - 1)
      BY <2>6
    <3>2. CASE i < p
      BY <2>1, <2>3, <2>5, <3>1, <3>2
    <3>3. CASE ~(i < p)
      <4>1. i - (p - 1) \in 1..(Len(s) - p) /\ p + (i - (p - 1)) = i + 1
        BY <2>1, <3>1, <3>3
      <4>2. t[i] = v[i - (p - 1)]
        <5>1. ~(i <= p - 1)
          BY <2>1, <3>1, <3>3
        <5> QED
          BY <2>5, <3>1, <5>1
      <4>3. v[i - (p - 1)] = s[i + 1]
        BY <2>4, <4>1
      <4> QED
        BY <2>1, <3>1, <3>3, <4>2, <4>3
    <3> QED
      BY <3>2, <3>3
  <2>8. ToSet(t) \subseteq ToSet(s)
    BY <2>7 DEF ToSet
  <2>9. ToSet(s) \ {m} \subseteq ToSet(t)
    <3>1. ASSUME NEW k \in DOMAIN s, s[k] # m
          PROVE  \E i \in DOMAIN t : t[i] = s[k]
      <4>1. CASE k < p
        <5>1. k \in DOMAIN t /\ from(k) = k
          BY <2>1, <2>6, <4>1
        <5> QED
          BY <2>7, <5>1
      <4>2. CASE ~(k < p)
        <5>1. k # p
          BY <2>1, <3>1
        <5>2. k - 1 \in DOMAIN t /\ from(k - 1) = k
          BY <2>1, <2>6, <4>2, <5>1
        <5> QED
          BY <2>7, <5>2
      <4> QED
        BY <4>1, <4>2
    <3> QED
      BY <3>1 DEF ToSet
  <2>10. ASSUME NEW i \in DOMAIN t, NEW j \in DOMAIN t, i < j
         PROVE  \E k, l \in DOMAIN s : k < l /\ s[k] = t[i] /\ s[l] = t[j]
    <3>1. from(i) < from(j)
      BY <2>1, <2>6, <2>10
    <3> HIDE DEF from
    <3> QED
      BY <2>7, <3>1
  <2> QED
    BY <2>1, <2>2, <2>5, <2>8, <2>9, <2>10
<1> QED
  BY <1>1, <1>2

\* What the outbox keeps of the frames, and all of them as long as they fit.
LEMMA NewestMember ==
  ASSUME NEW S, NEW s \in Seq(S), NEW n \in Nat \ {0}
  PROVE  /\ Newest(s, n) \in Seq(S)
         /\ Len(Newest(s, n)) <= Len(s)
         /\ ToSet(Newest(s, n)) \subseteq ToSet(s)
         /\ Len(s) <= n => Newest(s, n) = s
<1>1. Len(s) \in Nat /\ DOMAIN s = 1..Len(s)
  OBVIOUS
<1>2. CASE Len(s) <= n
  <2>1. (IF Len(s) > n THEN Len(s) - n + 1 ELSE 1) = 1
    BY <1>1, <1>2
  <2>2. Newest(s, n) = SubSeq(s, 1, Len(s))
    BY <2>1, Zenon DEF Newest
  <2>3. Newest(s, n) = s
    BY <2>2, SubSeqFull
  <2> QED
    BY <1>1, <2>3
<1>3. CASE ~(Len(s) <= n)
  <2> DEFINE a == Len(s) - n + 1
             t == SubSeq(s, a, Len(s))
  <2>1. (IF Len(s) > n THEN Len(s) - n + 1 ELSE 1) = a /\ a \in 1..Len(s)
    BY <1>1, <1>3
  <2>2. Newest(s, n) = t
    BY <2>1, Zenon DEF Newest
  <2>3. t \in Seq(S) /\ Len(t) = n /\ \A i \in 1..n : t[i] = s[a + i - 1]
    <3>1. Len(s) - a + 1 = n /\ a <= Len(s) /\ a \in Int /\ Len(s) \in Int
      BY <1>1, <2>1
    <3>2. \A i \in a..Len(s) : s[i] \in S
      BY <1>1, <2>1
    <3> HIDE DEF a
    <3> QED
      BY <3>1, <3>2, SubSeqProperties
  <2>4. \A i \in 1..n : a + i - 1 \in DOMAIN s
    BY <1>1, <1>3
  <2> HIDE DEF a, t
  <2>5. ToSet(t) \subseteq ToSet(s)
    <3>1. DOMAIN t = 1..n
      BY <2>3
    <3> QED
      BY <2>3, <2>4, <3>1 DEF ToSet
  <2> QED
    BY <1>1, <1>3, <2>2, <2>3, <2>5
<1> QED
  BY <1>2, <1>3

-----------------------------------------------------------------------------
(* The order of sending.  c stands for composed, done for the messages that   *)
(* are stored or can no longer be.                                             *)

\* In s, a comes before b.
Before(s, a, b) == \E i, j \in DOMAIN s : i < j /\ s[i] = a /\ s[j] = b

\* The messages of s stand in it in the order of c.
Ordered(s, c) == \A i, j \in DOMAIN s : i < j => Before(c, s[i], s[j])

\* What was sent before a frame of the queue q is done or ahead of it in q.
Placed(q, c, done) ==
  \A i \in DOMAIN q, x \in ToSet(c) : Before(c, x, q[i]) =>
    x \in done \/ \E k \in DOMAIN q : k < i /\ q[k] = x

LEMMA BeforeOrders ==
  ASSUME NEW S, NEW c \in Seq(S), Distinct(c)
  PROVE  /\ \A a, b : Before(c, a, b) => a \in ToSet(c) /\ b \in ToSet(c) /\ ~Before(c, b, a)
         /\ \A a, b \in ToSet(c) : a # b => Before(c, a, b) \/ Before(c, b, a)
<1>1. DOMAIN c = 1..Len(c) /\ Len(c) \in Nat
  OBVIOUS
<1>2. ASSUME NEW a, NEW b, Before(c, a, b)
      PROVE  a \in ToSet(c) /\ b \in ToSet(c) /\ ~Before(c, b, a)
  BY <1>1, <1>2 DEF Before, ToSet, Distinct
<1>3. ASSUME NEW a \in ToSet(c), NEW b \in ToSet(c), a # b
      PROVE  Before(c, a, b) \/ Before(c, b, a)
  <2>1. PICK i \in DOMAIN c : c[i] = a
    BY DEF ToSet
  <2>2. PICK j \in DOMAIN c : c[j] = b
    BY DEF ToSet
  <2>3. i < j \/ j < i
    BY <1>1, <1>3, <2>1, <2>2
  <2> QED
    BY <2>1, <2>2, <2>3 DEF Before
<1> QED
  BY <1>2, <1>3

LEMMA BeforeAppend ==
  ASSUME NEW S, NEW c \in Seq(S), NEW m \in S, m \notin ToSet(c)
  PROVE  \A a, b : Before(Append(c, m), a, b) <=>
                     Before(c, a, b) \/ (b = m /\ a \in ToSet(c))
<1> DEFINE d == Append(c, m)
<1>1. /\ DOMAIN c = 1..Len(c) /\ Len(c) \in Nat /\ DOMAIN d = 1..(Len(c) + 1)
      /\ \A i \in DOMAIN c : d[i] = c[i]
      /\ d[Len(c) + 1] = m
  BY AppendProperties
<1> HIDE DEF d
<1>2. ASSUME NEW a, NEW b, Before(c, a, b) \/ (b = m /\ a \in ToSet(c))
      PROVE  Before(d, a, b)
  <2>1. CASE Before(c, a, b)
    BY <1>1, <2>1 DEF Before
  <2>2. CASE b = m /\ a \in ToSet(c)
    <3>1. PICK i \in DOMAIN c : c[i] = a
      BY <2>2 DEF ToSet
    <3>2. i \in DOMAIN d /\ Len(c) + 1 \in DOMAIN d /\ i < Len(c) + 1
      BY <1>1
    <3> QED
      BY <1>1, <2>2, <3>1, <3>2 DEF Before
  <2> QED
    BY <1>2, <2>1, <2>2
<1>3. ASSUME NEW a, NEW b, Before(d, a, b)
      PROVE  Before(c, a, b) \/ (b = m /\ a \in ToSet(c))
  <2>1. PICK i \in DOMAIN d, j \in DOMAIN d : i < j /\ d[i] = a /\ d[j] = b
    BY <1>3 DEF Before
  <2>2. i \in DOMAIN c /\ c[i] = a
    BY <1>1, <2>1
  <2>3. CASE j \in DOMAIN c
    BY <1>1, <2>1, <2>2, <2>3 DEF Before
  <2>4. CASE j \notin DOMAIN c
    <3>1. j = Len(c) + 1
      BY <1>1, <2>4
    <3> QED
      BY <1>1, <2>1, <2>2, <3>1 DEF ToSet
  <2> QED
    BY <2>3, <2>4
<1> QED
  BY <1>2, <1>3 DEF d

LEMMA OrderedAppend ==
  ASSUME NEW S, NEW s \in Seq(S), NEW c \in Seq(S), NEW m \in S,
         Ordered(s, c), \A a \in ToSet(s) : Before(c, a, m)
  PROVE  Ordered(Append(s, m), c)
<1> DEFINE t == Append(s, m)
<1>1. /\ DOMAIN s = 1..Len(s) /\ Len(s) \in Nat /\ DOMAIN t = 1..(Len(s) + 1)
      /\ \A i \in DOMAIN s : t[i] = s[i]
      /\ t[Len(s) + 1] = m
  BY AppendProperties
<1> HIDE DEF t
<1>2. ASSUME NEW i \in DOMAIN t, NEW j \in DOMAIN t, i < j
      PROVE  Before(c, t[i], t[j])
  <2>1. i \in DOMAIN s /\ t[i] = s[i]
    BY <1>1, <1>2
  <2>2. CASE j \in DOMAIN s
    BY <1>1, <1>2, <2>1, <2>2 DEF Ordered
  <2>3. CASE j \notin DOMAIN s
    <3>1. t[j] = m
      BY <1>1, <2>3
    <3>2. s[i] \in ToSet(s)
      BY <2>1 DEF ToSet
    <3> QED
      BY <2>1, <3>1, <3>2
  <2> QED
    BY <2>2, <2>3
<1> QED
  BY <1>2 DEF Ordered, t

LEMMA OrderedWithout ==
  ASSUME NEW S, NEW s \in Seq(S), NEW c, NEW m, Ordered(s, c)
  PROVE  Ordered(Without(s, m), c)
BY WithoutMember DEF Ordered

LEMMA OrderedSince ==
  ASSUME NEW S, NEW s, NEW c \in Seq(S), NEW m \in S, m \notin ToSet(c), Ordered(s, c)
  PROVE  Ordered(s, Append(c, m))
BY BeforeAppend DEF Ordered

LEMMA PlacedSince ==
  ASSUME NEW S, NEW q \in Seq(S), NEW c \in Seq(S), NEW m \in S, m \notin ToSet(c), NEW done,
         ToSet(q) \subseteq ToSet(c), Placed(q, c, done)
  PROVE  Placed(q, Append(c, m), done)
<1> SUFFICES ASSUME NEW i \in DOMAIN q, NEW x \in ToSet(Append(c, m)),
                    Before(Append(c, m), x, q[i])
             PROVE  x \in done \/ \E k \in DOMAIN q : k < i /\ q[k] = x
  BY DEF Placed
<1>1. q[i] # m
  BY DEF ToSet
<1>2. Before(c, x, q[i])
  BY <1>1, BeforeAppend
<1>3. x \in ToSet(c)
  BY <1>2 DEF Before, ToSet
<1> QED
  BY <1>2, <1>3 DEF Placed

LEMMA PlacedAppend ==
  ASSUME NEW S, NEW q \in Seq(S), NEW c \in Seq(S), NEW m \in S, m \notin ToSet(c), NEW done,
         ToSet(q) \subseteq ToSet(c), ToSet(c) \ done \subseteq ToSet(q), Placed(q, c, done)
  PROVE  Placed(Append(q, m), Append(c, m), done)
<1> DEFINE t == Append(q, m)
<1>1. /\ DOMAIN q = 1..Len(q) /\ Len(q) \in Nat /\ DOMAIN t = 1..(Len(q) + 1)
      /\ \A i \in DOMAIN q : t[i] = q[i]
      /\ t[Len(q) + 1] = m
  BY AppendProperties
<1> HIDE DEF t
<1>2. Placed(q, Append(c, m), done)
  BY PlacedSince
<1>3. ASSUME NEW i \in DOMAIN t, NEW x \in ToSet(Append(c, m)), Before(Append(c, m), x, t[i])
      PROVE  x \in done \/ \E k \in DOMAIN t : k < i /\ t[k] = x
  <2>1. CASE i \in DOMAIN q
    BY <1>1, <1>2, <1>3, <2>1 DEF Placed
  <2>2. CASE i \notin DOMAIN q
    <3>1. i = Len(q) + 1 /\ t[i] = m
      BY <1>1, <2>2
    <3>2. x \in ToSet(c)
      BY <1>3, <3>1, BeforeAppend DEF Before, ToSet
    <3>3. CASE x \notin done
      <4>1. PICK k \in DOMAIN q : q[k] = x
        BY <3>2, <3>3 DEF ToSet
      <4>2. k \in DOMAIN t /\ k < i /\ t[k] = x
        BY <1>1, <3>1, <4>1
      <4> QED
        BY <4>2
    <3> QED
      BY <3>3
  <2> QED
    BY <2>1, <2>2
<1> QED
  BY <1>3 DEF Placed, t

\* The frame at the head is done: the handler is through with it.
LEMMA PlacedTail ==
  ASSUME NEW S, NEW q \in Seq(S), q # <<>>, NEW c, NEW done, NEW more,
         Placed(q, c, done), done \subseteq more, Head(q) \in more
  PROVE  Placed(Tail(q), c, more)
<1>1. \A i \in DOMAIN Tail(q) : i + 1 \in DOMAIN q /\ Tail(q)[i] = q[i + 1]
  BY ToSetTail
<1>2. /\ DOMAIN q = 1..Len(q) /\ Len(q) \in Nat /\ DOMAIN Tail(q) = 1..(Len(q) - 1)
      /\ q[1] = Head(q)
  BY HeadTailProperties
<1>3. ASSUME NEW i \in DOMAIN Tail(q), NEW x \in ToSet(c), Before(c, x, Tail(q)[i])
      PROVE  x \in more \/ \E k \in DOMAIN Tail(q) : k < i /\ Tail(q)[k] = x
  <2>1. x \in done \/ \E k \in DOMAIN q : k < i + 1 /\ q[k] = x
    BY <1>1, <1>3 DEF Placed
  <2>2. ASSUME NEW k \in DOMAIN q, k < i + 1, q[k] = x
        PROVE  x \in more \/ \E l \in DOMAIN Tail(q) : l < i /\ Tail(q)[l] = x
    <3>1. CASE k = 1
      BY <1>2, <2>2, <3>1
    <3>2. CASE k # 1
      <4>1. k - 1 \in DOMAIN Tail(q) /\ k - 1 < i /\ (k - 1) + 1 = k
        BY <1>2, <2>2, <3>2
      <4> QED
        BY <1>1, <2>2, <4>1
    <3> QED
      BY <3>1, <3>2
  <2> QED
    BY <2>1, <2>2
<1> QED
  BY <1>3 DEF Placed

\* The flush of the outbox after auth_ok.
LEMMA PlacedFlush ==
  ASSUME NEW S, NEW q \in Seq(S), NEW o \in Seq(S), NEW c \in Seq(S), NEW done,
         Distinct(c), Placed(q, c, done), Ordered(o, c), ToSet(c) \ done \subseteq ToSet(o)
  PROVE  Placed(q \o o, c, done)
<1> DEFINE t == q \o o
<1>1. /\ DOMAIN t = 1..(Len(q) + Len(o))
      /\ \A i \in DOMAIN q : i \in DOMAIN t /\ t[i] = q[i]
      /\ \A i \in DOMAIN o : Len(q) + i \in DOMAIN t /\ t[Len(q) + i] = o[i]
  BY ToSetConcat
<1>2. /\ Len(q) \in Nat /\ Len(o) \in Nat /\ DOMAIN q = 1..Len(q) /\ DOMAIN o = 1..Len(o)
  OBVIOUS
<1> HIDE DEF t
<1>3. ASSUME NEW i \in DOMAIN t, NEW x \in ToSet(c), Before(c, x, t[i])
      PROVE  x \in done \/ \E k \in DOMAIN t : k < i /\ t[k] = x
  <2>1. CASE i \in DOMAIN q
    BY <1>1, <1>3, <2>1 DEF Placed
  <2>2. CASE i \notin DOMAIN q
    <3>1. PICK j \in DOMAIN o : i = Len(q) + j
      <4>1. i - Len(q) \in DOMAIN o /\ i = Len(q) + (i - Len(q))
        BY <1>1, <1>2, <2>2
      <4> QED
        BY <4>1
    <3>2. t[i] = o[j]
      BY <1>1, <3>1
    <3>3. CASE x \notin done
      <4>1. PICK k \in DOMAIN o : o[k] = x
        BY <3>3 DEF ToSet
      <4>2. ~Before(c, o[j], x)
        BY <1>3, <3>2, BeforeOrders
      <4>3. ~(j < k) /\ j # k
        BY <1>3, <3>2, <4>1, <4>2 DEF Ordered
      <4>4. Len(q) + k < i /\ Len(q) + k \in DOMAIN t /\ t[Len(q) + k] = x
        BY <1>1, <1>2, <3>1, <4>1, <4>3
      <4> QED
        BY <4>4
    <3> QED
      BY <3>3
  <2> QED
    BY <2>1, <2>2
<1> QED
  BY <1>3 DEF Placed, t

-----------------------------------------------------------------------------
(* The inductive invariant.                                                   *)

Resolved == ToSet(stored) \cup expired

\* Everything the system carries was composed, and each message once.
Composed ==
  /\ Distinct(composed)
  /\ ToSet(outbox) \subseteq ToSet(composed) /\ Len(outbox) <= Len(composed)
  /\ ToSet(stored) \subseteq ToSet(composed)
  /\ \A n \in Sockets : ToSet(up[n]) \subseteq ToSet(composed)

Bounds ==
  /\ sockets \in 0..MaxSockets
  /\ spent \in [failures : Nat, misreads : Nat, resets : Nat, logouts : Nat]
  /\ ready => ws # 0

\* A handler that has committed a frame is the only one to push it.
Pushes ==
  /\ \A n \in Sockets : reply[n].kind = "new" =>
       /\ reply[n].msg \in ToSet(stored) /\ pushed[reply[n].msg] = 0
       /\ \A k \in Sockets \ {n} : reply[k].kind = "new" => reply[k].msg # reply[n].msg
  /\ PushedOnce

\* Answers given or on their way are true, and no later step makes them false.
True(f) ==
  /\ f.kind \in {"new", "duplicate"} => f.msg \in ToSet(stored)
  /\ f.kind = "failed" => f.msg \in expired \ ToSet(stored)
Answers ==
  spent.misreads = 0 => /\ \A n \in Sockets : True(reply[n])
                        /\ \A n \in Sockets : \A f \in ToSet(down[n]) : True(f)

\* Nothing overtakes what was sent before it: an open message is in the outbox and,
\* once the socket is ready, on its way on it.
Order ==
  Orderly =>
    /\ ToSet(composed) \ Resolved \subseteq ToSet(outbox) /\ Ordered(outbox, composed)
    /\ \A n \in Sockets : Placed(up[n], composed, Resolved)
    /\ ready => ToSet(composed) \ Resolved \subseteq ToSet(up[ws])
    /\ \A b \in ToSet(stored), a \in ToSet(composed) : Before(composed, a, b) => a \in Resolved
    /\ Ordered(stored, composed)

Sound == TypeOK /\ Composed /\ Bounds
Inv == Sound /\ Pushes /\ Answers /\ Order

LEMMA InitInv == Init => Inv
<1> SUFFICES ASSUME Init PROVE Inv
  OBVIOUS
<1> USE DEF Init
<1>1. ToSet(<<>>) = {} /\ <<>> \in Seq(Messages) /\ Len(<<>>) = 0 /\ DOMAIN <<>> = {}
  BY DEF ToSet
<1>2. TypeOK
  <2>1. /\ outbox \in Seq(Messages) /\ composed \in Seq(Messages) /\ stored \in Seq(Messages)
        /\ ws \in {0} \cup Sockets /\ ready \in BOOLEAN /\ expired \subseteq GroupMessages
    BY <1>1
  <2>2. status \in [Messages -> {"none", "queued", "sent", "failed"}] /\ pushed \in [Messages -> Nat]
    OBVIOUS
  <2>3. up \in [Sockets -> Seq(Messages)] /\ reply \in [Sockets -> Frames \cup {NoReply}]
    BY <1>1
  <2>4. down \in [Sockets -> Seq(Frames \cup {AuthOk})]
    <3>1. <<>> \in Seq(Frames \cup {AuthOk})
      BY EmptySeq
    <3> QED
      BY <3>1
  <2> QED
    BY <2>1, <2>2, <2>3, <2>4 DEF TypeOK
<1>3. Composed /\ Bounds
  BY <1>1, OutboxAssumption DEF Composed, Bounds, Distinct
<1>4. Pushes
  BY DEF Pushes, PushedOnce, NoReply
<1>5. Answers
  BY <1>1 DEF Answers, True, NoReply
<1>6. Order
  BY <1>1 DEF Order, Ordered, Placed
<1> QED
  BY <1>2, <1>3, <1>4, <1>5, <1>6 DEF Inv, Sound

LEMMA HappensBounds ==
  ASSUME Bounds, NEW kind \in {"failures", "misreads", "resets", "logouts"}, Happens(kind)
  PROVE  /\ sockets' \in 0..MaxSockets
         /\ spent' \in [failures : Nat, misreads : Nat, resets : Nat, logouts : Nat]
         /\ spent'[kind] # 0
         /\ spent.misreads # 0 => spent'.misreads # 0
BY DEF Bounds, Happens

\* What a handler takes from the frames it has to read.
LEMMA BeginTakes ==
  ASSUME Sound, NEW n \in Sockets, NEW m, Begin(n, m)
  PROVE  /\ m \in ToSet(up[n]) /\ m \in ToSet(composed) /\ m \in Messages
         /\ up[n] # <<>> /\ m = Head(up[n])
         /\ up' \in [Sockets -> Seq(Messages)]
         /\ up' = [up EXCEPT ![n] = Tail(@)]
         /\ ToSet(up'[n]) \subseteq ToSet(up[n])
         /\ \A k \in Sockets : ToSet(up'[k]) \subseteq ToSet(composed)
<1>1. up \in [Sockets -> Seq(Messages)] /\ \A k \in Sockets : ToSet(up[k]) \subseteq ToSet(composed)
  BY DEF Sound, TypeOK, Composed
<1>2. up[n] # <<>> /\ m = Head(up[n]) /\ up' = [up EXCEPT ![n] = Tail(@)]
  BY DEF Begin
<1>3. Head(up[n]) \in ToSet(up[n]) /\ Head(up[n]) \in Messages
      /\ Tail(up[n]) \in Seq(Messages) /\ ToSet(up[n]) = ToSet(Tail(up[n])) \cup {Head(up[n])}
  BY <1>1, <1>2, ToSetTail
<1> QED
  BY <1>1, <1>2, <1>3

LEMMA SoundStep == Sound /\ [Next]_vars => Sound'
<1> SUFFICES ASSUME Sound, [Next]_vars
             PROVE  Sound'
  OBVIOUS
<1> DEFINE D == Seq(Frames \cup {AuthOk})
           Frame(f) == f \in Frames \cup {AuthOk}
<1>0. /\ outbox \in Seq(Messages) /\ composed \in Seq(Messages) /\ stored \in Seq(Messages)
      /\ status \in [Messages -> {"none", "queued", "sent", "failed"}]
      /\ ws \in {0} \cup Sockets /\ ready \in BOOLEAN
      /\ up \in [Sockets -> Seq(Messages)] /\ down \in [Sockets -> D]
      /\ reply \in [Sockets -> Frames \cup {NoReply}]
      /\ pushed \in [Messages -> Nat] /\ expired \subseteq GroupMessages
      /\ Distinct(composed)
      /\ ToSet(outbox) \subseteq ToSet(composed) /\ Len(outbox) <= Len(composed)
      /\ ToSet(stored) \subseteq ToSet(composed)
      /\ \A n \in Sockets : ToSet(up[n]) \subseteq ToSet(composed)
      /\ ready => ws # 0
      /\ sockets \in 0..MaxSockets
  BY DEF Sound, TypeOK, Composed, Bounds
<1>00. Bounds /\ <<>> \in D /\ <<>> \in Seq(Messages) /\ ToSet(<<>>) = {} /\ Len(<<>>) = 0
  BY EmptySeq DEF Sound, ToSet
<1> HIDE DEF D
<1> USE DEF Sound, TypeOK, Composed
<1>1. ASSUME NEW m \in Messages, SendWs(m)
      PROVE  Sound'
  <2>1. composed' \in Seq(Messages) /\ ToSet(composed') = ToSet(composed) \cup {m}
        /\ Len(composed') = Len(composed) + 1 /\ Distinct(composed')
    <3>1. /\ DOMAIN composed = 1..Len(composed) /\ DOMAIN composed' = 1..(Len(composed) + 1)
          /\ \A i \in 1..Len(composed) : composed'[i] = composed[i]
          /\ composed'[Len(composed) + 1] = m /\ Len(composed) \in Nat
      BY <1>0, <1>1, AppendProperties DEF SendWs
    <3>2. \A i \in 1..Len(composed) : composed[i] # m
      BY <1>1, <3>1 DEF SendWs, ToSet
    <3>3. ASSUME NEW i \in DOMAIN composed', NEW j \in DOMAIN composed', composed'[i] = composed'[j]
          PROVE  i = j
      <4>1. CASE i \in 1..Len(composed) /\ j \in 1..Len(composed)
        BY <1>0, <3>1, <3>3, <4>1 DEF Distinct
      <4>2. CASE ~(i \in 1..Len(composed) /\ j \in 1..Len(composed))
        BY <3>1, <3>2, <3>3, <4>2
      <4> QED
        BY <4>1, <4>2
    <3>4. Distinct(composed')
      BY <3>3 DEF Distinct
    <3> QED
      BY <1>0, <1>1, <3>4, ToSetAppend, AppendProperties DEF SendWs
  <2>2. /\ outbox' \in Seq(Messages) /\ Len(outbox') <= Len(outbox) + 1
        /\ ToSet(outbox') \subseteq ToSet(outbox) \cup {m}
    <3>1. Append(outbox, m) \in Seq(Messages) /\ Len(Append(outbox, m)) = Len(outbox) + 1
          /\ ToSet(Append(outbox, m)) = ToSet(outbox) \cup {m}
      BY <1>0, ToSetAppend, AppendProperties
    <3>2. outbox' = Newest(Append(outbox, m), OutboxLimit)
      BY <1>1 DEF SendWs
    <3>3. /\ Newest(Append(outbox, m), OutboxLimit) \in Seq(Messages)
          /\ Len(Newest(Append(outbox, m), OutboxLimit)) <= Len(Append(outbox, m))
          /\ ToSet(Newest(Append(outbox, m), OutboxLimit)) \subseteq ToSet(Append(outbox, m))
      BY <3>1, NewestMember, OutboxAssumption
    <3> QED
      BY <3>1, <3>2, <3>3
  <2>3. up' \in [Sockets -> Seq(Messages)] /\ \A n \in Sockets : ToSet(up'[n]) \subseteq ToSet(composed')
    <3>1. CASE ready
      <4>1. ws \in Sockets /\ up' = [up EXCEPT ![ws] = Append(@, m)]
        BY <1>0, <1>1, <3>1 DEF SendWs
      <4>2. Append(up[ws], m) \in Seq(Messages) /\ ToSet(Append(up[ws], m)) = ToSet(up[ws]) \cup {m}
        BY <1>0, <4>1, ToSetAppend
      <4> QED
        BY <1>0, <2>1, <4>1, <4>2
    <3>2. CASE ~ready
      BY <1>0, <1>1, <2>1, <3>2 DEF SendWs
    <3> QED
      BY <3>1, <3>2
  <2>4. status' \in [Messages -> {"none", "queued", "sent", "failed"}]
    BY <1>0, <1>1 DEF SendWs
  <2>5. UNCHANGED <<ws, ready, down, reply, stored, pushed, expired, sockets, spent>>
    BY <1>1 DEF SendWs, server
  <2>6. Bounds'
    BY <1>00, <2>5 DEF Bounds
  <2>7. Len(outbox') <= Len(composed')
    BY <1>0, <2>1, <2>2, LenProperties
  <2> QED
    BY <1>0, <2>1, <2>2, <2>3, <2>4, <2>5, <2>6, <2>7 DEF D
<1>2. ASSUME NEW m \in Messages, SyncOwn(m)
      PROVE  Sound'
  <2>1. status' \in [Messages -> {"none", "queued", "sent", "failed"}]
    BY <1>0, <1>2 DEF SyncOwn
  <2>2. UNCHANGED <<outbox, composed, ws, ready, up, down, reply, stored, pushed, expired, sockets, spent>>
    BY <1>2 DEF SyncOwn, server
  <2> QED
    BY <1>0, <1>00, <2>1, <2>2 DEF Bounds, D
<1>3. CASE ConnectWs
  <2>1. sockets' \in 0..MaxSockets /\ ws' \in Sockets /\ ws' # 0
    BY <1>0, <1>3, OutboxAssumption DEF ConnectWs, Sockets
  <2>2. <<AuthOk>> \in D
    BY DEF D
  <2>3. down' \in [Sockets -> D]
    BY <1>0, <1>3, <2>1, <2>2 DEF ConnectWs
  <2>4. UNCHANGED <<outbox, status, composed, ready, up, reply, stored, pushed, expired, spent>>
    BY <1>3 DEF ConnectWs, server
  <2> QED
    BY <1>0, <1>00, <2>1, <2>3, <2>4 DEF Bounds, D
<1>4. CASE ReceiveAuthOk
  <2>1. ws \in Sockets /\ down[ws] # <<>>
    BY <1>0, <1>4 DEF ReceiveAuthOk
  <2>2. down' \in [Sockets -> D]
    <3>1. Tail(down[ws]) \in D
      BY <1>0, <2>1, HeadTailProperties DEF D
    <3> QED
      BY <1>0, <1>4, <3>1 DEF ReceiveAuthOk
  <2>3. up' \in [Sockets -> Seq(Messages)] /\ \A n \in Sockets : ToSet(up'[n]) \subseteq ToSet(composed)
    <3>1. up[ws] \o outbox \in Seq(Messages) /\ ToSet(up[ws] \o outbox) = ToSet(up[ws]) \cup ToSet(outbox)
      BY <1>0, <2>1, ToSetConcat
    <3> QED
      BY <1>0, <1>4, <2>1, <3>1 DEF ReceiveAuthOk
  <2>4. /\ ready' = TRUE /\ ws' # 0
        /\ UNCHANGED <<outbox, status, composed, ws, reply, stored, pushed, expired, sockets, spent>>
    BY <1>4 DEF ReceiveAuthOk, server
  <2> QED
    BY <1>0, <1>00, <1>4, <2>1, <2>2, <2>3, <2>4 DEF Bounds, D
<1>5. CASE ReceiveAnswer
  <2> DEFINE m == Head(down[ws]).msg
  <2>1. ws \in Sockets /\ down[ws] # <<>>
    BY <1>0, <1>5 DEF ReceiveAnswer
  <2>2. down' \in [Sockets -> D]
    <3>1. Tail(down[ws]) \in D
      BY <1>0, <2>1, HeadTailProperties DEF D
    <3> QED
      BY <1>0, <1>5, <3>1 DEF ReceiveAnswer
  <2>3. /\ outbox' \in Seq(Messages) /\ Len(outbox') <= Len(outbox)
        /\ ToSet(outbox') \subseteq ToSet(outbox)
    BY <1>0, <1>5, WithoutMember DEF ReceiveAnswer
  <2>4. status' \in [Messages -> {"none", "queued", "sent", "failed"}]
    BY <1>0, <1>5 DEF ReceiveAnswer
  <2>5. UNCHANGED <<composed, ws, ready, up, reply, stored, pushed, expired, sockets, spent>>
    BY <1>5 DEF ReceiveAnswer, server
  <2>6. Len(outbox') <= Len(composed')
    BY <1>0, <2>3, <2>5, LenProperties
  <2> QED
    BY <1>0, <1>00, <2>2, <2>3, <2>4, <2>5, <2>6 DEF Bounds, D
<1>6. CASE Disconnect
  <2>1. down' \in [Sockets -> D]
    BY <1>0, <1>00, <1>6 DEF Disconnect
  <2>2. /\ ws' = 0 /\ ready' = FALSE
        /\ UNCHANGED <<outbox, status, composed, up, reply, stored, pushed, expired, sockets, spent>>
    BY <1>6 DEF Disconnect, server
  <2> QED
    BY <1>0, <1>00, <2>1, <2>2 DEF Bounds, D
<1>7. CASE Reload
  <2>1. down' \in [Sockets -> D]
    BY <1>0, <1>00, <1>7 DEF Reload
  <2>2. status' \in [Messages -> {"none", "queued", "sent", "failed"}]
    BY <1>0, <1>7 DEF Reload
  <2>3. ws' = 0 /\ ready' = FALSE /\ UNCHANGED <<outbox, composed, up, reply, stored, pushed, expired>>
    BY <1>7 DEF Reload, server
  <2>4. Bounds'
    BY <1>00, <1>7, <2>3, HappensBounds DEF Reload, Bounds
  <2> QED
    BY <1>0, <2>1, <2>2, <2>3, <2>4 DEF D
<1>8. CASE Logout
  <2>1. down' \in [Sockets -> D]
    BY <1>0, <1>00, <1>8 DEF Logout
  <2>2. status' \in [Messages -> {"none", "queued", "sent", "failed"}]
    BY <1>8 DEF Logout
  <2>3. ws' = 0 /\ ready' = FALSE /\ outbox' = <<>> /\ UNCHANGED <<composed, up, reply, stored, pushed, expired>>
    BY <1>8 DEF Logout, server
  <2>4. Bounds'
    BY <1>00, <1>8, <2>3, HappensBounds DEF Logout, Bounds
  <2>5. Len(outbox') <= Len(composed')
    BY <1>0, <1>00, <2>3, LenProperties
  <2> QED
    BY <1>0, <1>00, <2>1, <2>2, <2>3, <2>4, <2>5 DEF D
<1>9. ASSUME NEW n \in Sockets, NEW m \in Messages,
             StoreFrame(n, m) \/ FindDuplicate(n, m) \/ RefuseFrame(n, m) \/ DropFrame(n, m) \/ MisreadFrame(n, m)
      PROVE  Sound'
  <2>1. Begin(n, m)
    BY <1>9 DEF StoreFrame, FindDuplicate, RefuseFrame, DropFrame, MisreadFrame
  <2>2. /\ up' \in [Sockets -> Seq(Messages)] /\ m \in ToSet(composed)
        /\ \A k \in Sockets : ToSet(up'[k]) \subseteq ToSet(composed)
    BY <2>1, BeginTakes
  <2>3. UNCHANGED <<outbox, status, composed, ws, ready, down, pushed, expired>>
    BY <1>9 DEF StoreFrame, FindDuplicate, RefuseFrame, DropFrame, MisreadFrame, client, server
  <2>4. reply' \in [Sockets -> Frames \cup {NoReply}]
    <3>1. \A kind \in Kinds : [msg |-> m, kind |-> kind] \in Frames
      BY DEF Frames
    <3>2. reply' = reply \/ \E kind \in Kinds : reply' = [reply EXCEPT ![n] = [msg |-> m, kind |-> kind]]
      BY <1>9 DEF StoreFrame, FindDuplicate, RefuseFrame, DropFrame, MisreadFrame, Kinds
    <3> QED
      BY <1>0, <3>1, <3>2
  <2>5. stored' \in Seq(Messages) /\ ToSet(stored') \subseteq ToSet(composed)
    <3>1. stored' = stored \/ stored' = Append(stored, m)
      BY <1>9 DEF StoreFrame, FindDuplicate, RefuseFrame, DropFrame, MisreadFrame, server
    <3>2. Append(stored, m) \in Seq(Messages) /\ ToSet(Append(stored, m)) = ToSet(stored) \cup {m}
      BY <1>0, ToSetAppend
    <3> QED
      BY <1>0, <2>2, <3>1, <3>2
  <2>6. Bounds'
    <3>1. CASE UNCHANGED <<sockets, spent>>
      BY <1>00, <2>3, <3>1 DEF Bounds
    <3>2. CASE Happens("failures") \/ Happens("misreads")
      BY <1>00, <2>3, <3>2, HappensBounds DEF Bounds
    <3> QED
      BY <1>9, <3>1, <3>2 DEF StoreFrame, FindDuplicate, RefuseFrame, DropFrame, MisreadFrame
  <2> QED
    BY <1>0, <2>2, <2>3, <2>4, <2>5, <2>6 DEF D
<1>10. ASSUME NEW n \in Sockets, Answer(n)
       PROVE  Sound'
  <2>1. reply[n] \in Frames /\ reply[n].msg \in Messages
    BY <1>0, <1>10 DEF Answer, Frames
  <2>2. reply' \in [Sockets -> Frames \cup {NoReply}]
    BY <1>0, <1>10 DEF Answer
  <2>3. pushed' \in [Messages -> Nat]
    <3>1. pushed \in [Messages -> Nat]
      BY <1>0
    <3>2. pushed' = pushed \/ pushed' = [pushed EXCEPT ![reply[n].msg] = @ + 1]
      BY <1>10 DEF Answer
    <3> QED
      BY ONLY <2>1, <3>1, <3>2
  <2>4. down' \in [Sockets -> D]
    <3>1. Append(down[n], reply[n]) \in D
      BY <1>0, <2>1, AppendProperties DEF D
    <3> QED
      BY <1>0, <1>10, <3>1 DEF Answer
  <2>5. UNCHANGED <<outbox, status, composed, ws, ready, up, stored, expired, sockets, spent>>
    BY <1>10 DEF Answer, client
  <2> QED
    BY <1>0, <1>00, <2>2, <2>3, <2>4, <2>5 DEF Bounds, D
<1>11. ASSUME NEW n \in Sockets, CloseSocket(n)
       PROVE  Sound'
  <2>1. up' \in [Sockets -> Seq(Messages)] /\ \A k \in Sockets : ToSet(up'[k]) \subseteq ToSet(composed)
    BY <1>0, <1>00, <1>11 DEF CloseSocket
  <2>2. UNCHANGED <<outbox, status, composed, ws, ready, down, reply, stored, pushed, expired, sockets, spent>>
    BY <1>11 DEF CloseSocket, client, server
  <2> QED
    BY <1>0, <1>00, <2>1, <2>2 DEF Bounds, D
<1>12. CASE Restart
  <2>1. up' \in [Sockets -> Seq(Messages)] /\ \A n \in Sockets : ToSet(up'[n]) \subseteq ToSet(composed)
    BY <1>00, <1>12 DEF Restart
  <2>2. down' \in [Sockets -> D] /\ reply' \in [Sockets -> Frames \cup {NoReply}]
    BY <1>00, <1>12 DEF Restart
  <2>3. ws' = 0 /\ ready' = FALSE /\ UNCHANGED <<outbox, status, composed, stored, pushed, expired>>
    BY <1>12 DEF Restart, server
  <2>4. Bounds'
    BY <1>00, <1>12, <2>3, HappensBounds DEF Restart, Bounds
  <2> QED
    BY <1>0, <2>1, <2>2, <2>3, <2>4 DEF D
<1>13. CASE EpochPasses
  <2>1. expired' \subseteq GroupMessages
    BY <1>0, <1>13 DEF EpochPasses
  <2>2. UNCHANGED <<outbox, status, composed, ws, ready, up, down, reply, stored, pushed, sockets, spent>>
    BY <1>13 DEF EpochPasses, client
  <2> QED
    BY <1>0, <1>00, <2>1, <2>2 DEF Bounds, D
<1>14. CASE UNCHANGED vars
  BY <1>14 DEF vars, client, server, Bounds, Distinct
<1> QED
  BY <1>1, <1>2, <1>3, <1>4, <1>5, <1>6, <1>7, <1>8, <1>9, <1>10, <1>11, <1>12, <1>13, <1>14
     DEF Next, Handle, Receive

\* What a step may do to the rows, the pushes and the pending answers.
LEMMA PushesStep == Sound /\ Pushes /\ [Next]_vars => Pushes'
<1> SUFFICES ASSUME Sound, Pushes, [Next]_vars
             PROVE  Pushes'
  OBVIOUS
<1>0. /\ stored \in Seq(Messages) /\ pushed \in [Messages -> Nat]
      /\ reply \in [Sockets -> Frames \cup {NoReply}]
  BY DEF Sound, TypeOK
<1> USE DEF Pushes, PushedOnce
<1>1. ASSUME NEW n \in Sockets, NEW m \in Messages, StoreFrame(n, m)
      PROVE  Pushes'
  <2>1. /\ reply' = [reply EXCEPT ![n] = [msg |-> m, kind |-> "new"]]
        /\ pushed' = pushed /\ m \notin ToSet(stored)
    BY <1>1 DEF StoreFrame
  <2>2. ToSet(stored') = ToSet(stored) \cup {m}
    BY <1>0, <1>1, ToSetAppend DEF StoreFrame
  <2>3. pushed[m] = 0
    BY <1>0, <2>1
  <2> QED
    BY <1>0, <2>1, <2>2, <2>3
<1>2. ASSUME NEW n \in Sockets, NEW m \in Messages,
             FindDuplicate(n, m) \/ RefuseFrame(n, m) \/ DropFrame(n, m) \/ MisreadFrame(n, m)
      PROVE  Pushes'
  <2>1. UNCHANGED <<stored, pushed>>
    BY <1>2 DEF FindDuplicate, RefuseFrame, DropFrame, MisreadFrame, server
  <2>2. reply' = reply \/ \E kind \in {"duplicate", "failed"} :
                           reply' = [reply EXCEPT ![n] = [msg |-> m, kind |-> kind]]
    BY <1>2 DEF FindDuplicate, RefuseFrame, DropFrame, MisreadFrame
  <2>3. \A k \in Sockets : reply'[k].kind = "new" => reply'[k] = reply[k]
    BY <1>0, <2>2
  <2> QED
    BY <2>1, <2>3
<1>3. ASSUME NEW n \in Sockets, Answer(n)
      PROVE  Pushes'
  <2>1. /\ reply' = [reply EXCEPT ![n] = NoReply] /\ stored' = stored
        /\ pushed' = IF reply[n].kind = "new" THEN [pushed EXCEPT ![reply[n].msg] = @ + 1] ELSE pushed
    BY <1>3 DEF Answer
  <2>2. reply[n].msg \in Messages
    BY <1>0, <1>3 DEF Answer, Frames
  <2>3. \A k \in Sockets : reply'[k].kind = "new" => k # n /\ reply'[k] = reply[k]
    BY <1>0, <2>1 DEF NoReply
  <2>4. CASE reply[n].kind = "new"
    BY <1>0, <2>1, <2>2, <2>3, <2>4
  <2>5. CASE reply[n].kind # "new"
    BY <2>1, <2>3, <2>5
  <2> QED
    BY <2>4, <2>5
<1>4. CASE Restart
  <2>1. reply' = [k \in Sockets |-> NoReply] /\ UNCHANGED <<stored, pushed>>
    BY <1>4 DEF Restart, server
  <2> QED
    BY <2>1 DEF NoReply
<1>5. CASE UNCHANGED <<stored, pushed, reply>>
  BY <1>5
<1>6. ASSUME NEW m \in Messages, SendWs(m) \/ SyncOwn(m)
      PROVE  UNCHANGED <<stored, pushed, reply>>
  BY <1>6 DEF SendWs, SyncOwn, server
<1>7. ConnectWs \/ Receive \/ Disconnect \/ Reload \/ Logout => UNCHANGED <<stored, pushed, reply>>
  BY DEF ConnectWs, Receive, ReceiveAuthOk, ReceiveAnswer, Disconnect, Reload, Logout, server
<1>8. ASSUME NEW n \in Sockets, CloseSocket(n)
      PROVE  UNCHANGED <<stored, pushed, reply>>
  BY <1>8 DEF CloseSocket, server
<1>9. EpochPasses \/ UNCHANGED vars => UNCHANGED <<stored, pushed, reply>>
  BY DEF EpochPasses, vars, server
<1> QED
  BY <1>1, <1>2, <1>3, <1>4, <1>5, <1>6, <1>7, <1>8, <1>9 DEF Next, Handle

\* What is done stays done.
LEMMA ResolvedGrows == Sound /\ [Next]_vars => Resolved \subseteq Resolved' /\ expired \subseteq expired'
                                               /\ ToSet(stored) \subseteq ToSet(stored')
<1> SUFFICES ASSUME Sound, [Next]_vars
             PROVE  expired \subseteq expired' /\ ToSet(stored) \subseteq ToSet(stored')
  BY DEF Resolved
<1>0. stored \in Seq(Messages)
  BY DEF Sound, TypeOK
<1>1. ASSUME NEW n \in Sockets, NEW m \in Messages, StoreFrame(n, m)
      PROVE  stored' = Append(stored, m) /\ expired' = expired
  BY <1>1 DEF StoreFrame
<1>2. ASSUME NEW n \in Sockets, NEW m \in Messages,
             FindDuplicate(n, m) \/ RefuseFrame(n, m) \/ DropFrame(n, m) \/ MisreadFrame(n, m)
      PROVE  UNCHANGED <<stored, expired>>
  BY <1>2 DEF FindDuplicate, RefuseFrame, DropFrame, MisreadFrame, server
<1>3. ASSUME NEW n \in Sockets, Answer(n) \/ CloseSocket(n)
      PROVE  UNCHANGED <<stored, expired>>
  BY <1>3 DEF Answer, CloseSocket, server
<1>4. ASSUME NEW m \in Messages, SendWs(m) \/ SyncOwn(m)
      PROVE  UNCHANGED <<stored, expired>>
  BY <1>4 DEF SendWs, SyncOwn, server
<1>5. ConnectWs \/ Receive \/ Disconnect \/ Reload \/ Logout \/ Restart \/ UNCHANGED vars
        => UNCHANGED <<stored, expired>>
  BY DEF ConnectWs, Receive, ReceiveAuthOk, ReceiveAnswer, Disconnect, Reload, Logout, Restart, vars, server
<1>6. EpochPasses => expired \subseteq expired' /\ stored' = stored
  BY DEF EpochPasses
<1>7. \A m \in Messages : ToSet(stored) \subseteq ToSet(Append(stored, m))
  BY <1>0, ToSetAppend
<1> QED
  BY <1>1, <1>2, <1>3, <1>4, <1>5, <1>6, <1>7 DEF Next, Handle

\* A handler reads the tables, and answers what it has read.
LEMMA AnswersStep == Sound /\ Answers /\ [Next]_vars => Answers'
<1> SUFFICES ASSUME Sound, Answers, [Next]_vars, spent'.misreads = 0
             PROVE  \A n \in Sockets : True(reply[n])' /\ \A f \in ToSet(down'[n]) : True(f)'
  BY DEF Answers
<1> DEFINE D == Frames \cup {AuthOk}
<1>0. /\ stored \in Seq(Messages) /\ ws \in {0} \cup Sockets
      /\ reply \in [Sockets -> Frames \cup {NoReply}]
      /\ down \in [Sockets -> Seq(D)]
      /\ Bounds
  BY DEF Sound, TypeOK
<1> HIDE DEF D
<1>1. ~\E n \in Sockets, m \in Messages : MisreadFrame(n, m)
  BY <1>0, HappensBounds DEF MisreadFrame
<1>2. spent.misreads = 0
  <2>1. UNCHANGED spent \/ Happens("failures") \/ Happens("resets") \/ Happens("logouts")
    BY <1>1 DEF Next, Handle, Receive, SendWs, SyncOwn, ConnectWs, ReceiveAuthOk, ReceiveAnswer, Disconnect,
                Reload, Logout, StoreFrame, FindDuplicate, RefuseFrame, DropFrame, Answer, CloseSocket, Restart,
                EpochPasses, vars
  <2> QED
    BY <1>0, <2>1, HappensBounds
<1>3. \A n \in Sockets : True(reply[n]) /\ \A f \in ToSet(down[n]) : True(f)
  BY <1>2 DEF Answers
<1>4. \A f : True(f) => True(f)'
  <2>1. ASSUME NEW n \in Sockets, NEW m \in Messages, StoreFrame(n, m)
        PROVE  ToSet(stored') = ToSet(stored) \cup {m} /\ m \notin expired
    BY <1>0, <2>1, ToSetAppend DEF StoreFrame
  <2>2. (\E n \in Sockets, m \in Messages : StoreFrame(n, m)) \/ stored' = stored
    BY DEF Next, Handle, Receive, SendWs, SyncOwn, ConnectWs, ReceiveAuthOk, ReceiveAnswer, Disconnect,
           Reload, Logout, FindDuplicate, RefuseFrame, DropFrame, MisreadFrame, Answer, CloseSocket, Restart,
           EpochPasses, vars, server
  <2>3. \A x : x \in expired \ ToSet(stored) => x \notin ToSet(stored')
    BY <2>1, <2>2
  <2> QED
    BY <2>3, ResolvedGrows DEF True
<1>5. True(NoReply)' /\ True(AuthOk)' /\ ToSet(<<>>) = {} /\ ToSet(<<AuthOk>>) = {AuthOk}
  BY DEF True, NoReply, AuthOk, ToSet
<1>6. CASE UNCHANGED <<reply, down>>
  BY <1>3, <1>4, <1>6 DEF True
<1>7. ASSUME NEW n \in Sockets, NEW m \in Messages, StoreFrame(n, m) \/ FindDuplicate(n, m) \/ RefuseFrame(n, m)
      PROVE  \A k \in Sockets : True(reply[k])' /\ \A f \in ToSet(down'[k]) : True(f)'
  <2>1. PICK kind \in Kinds : reply' = [reply EXCEPT ![n] = [msg |-> m, kind |-> kind]] /\ down' = down
                              /\ True([msg |-> m, kind |-> kind])'
    <3>1. CASE StoreFrame(n, m)
      BY <1>0, <3>1, ToSetAppend DEF StoreFrame, True, Kinds
    <3>2. CASE FindDuplicate(n, m)
      BY <3>2 DEF FindDuplicate, True, Kinds, server
    <3>3. CASE RefuseFrame(n, m)
      BY <3>3 DEF RefuseFrame, True, Kinds, server
    <3> QED
      BY <1>7, <3>1, <3>2, <3>3
  <2>2. \A k \in Sockets : reply'[k] = reply[k] \/ reply'[k] = [msg |-> m, kind |-> kind]
    BY <1>0, <2>1
  <2> QED
    BY <1>3, <1>4, <2>1, <2>2 DEF True
<1>8. ASSUME NEW n \in Sockets, Answer(n)
      PROVE  \A k \in Sockets : True(reply[k])' /\ \A f \in ToSet(down'[k]) : True(f)'
  <2>1. reply[n] \in D
    BY <1>0, <1>8 DEF Answer, D
  <2>2. ToSet(Append(down[n], reply[n])) = ToSet(down[n]) \cup {reply[n]}
    BY <1>0, <2>1, ToSetAppend
  <2>3. \A k \in Sockets : reply'[k] = reply[k] \/ reply'[k] = NoReply
    BY <1>0, <1>8 DEF Answer
  <2>4. \A k \in Sockets : ToSet(down'[k]) \subseteq ToSet(down[k]) \cup {reply[n]}
    BY <1>0, <1>8, <2>2 DEF Answer
  <2> QED
    BY <1>3, <1>4, <1>5, <2>3, <2>4 DEF True
<1>9. CASE Receive
  <2>1. ws \in Sockets /\ down[ws] # <<>> /\ down' = [down EXCEPT ![ws] = Tail(@)] /\ reply' = reply
    BY <1>0, <1>9 DEF Receive, ReceiveAuthOk, ReceiveAnswer
  <2>2. ToSet(Tail(down[ws])) \subseteq ToSet(down[ws])
    BY <1>0, <2>1, ToSetTail
  <2>3. \A k \in Sockets : ToSet(down'[k]) \subseteq ToSet(down[k])
    BY <1>0, <2>1, <2>2
  <2> QED
    BY <1>3, <1>4, <2>1, <2>3 DEF True
<1>10. CASE ConnectWs \/ Disconnect \/ Reload \/ Logout \/ Restart
  <2>1. \A k \in Sockets : reply'[k] = reply[k] \/ reply'[k] = NoReply
    BY <1>10 DEF ConnectWs, Disconnect, Reload, Logout, Restart
  <2>2. \A k \in Sockets : down'[k] \in {down[k], <<>>, <<AuthOk>>}
    BY <1>0, <1>10 DEF ConnectWs, Disconnect, Reload, Logout, Restart
  <2>3. \A k \in Sockets : ToSet(down'[k]) \subseteq ToSet(down[k]) \cup {AuthOk}
    BY <1>5, <2>2
  <2> QED
    BY <1>3, <1>4, <1>5, <2>1, <2>3 DEF True
<1>11. ASSUME NEW m \in Messages, SendWs(m) \/ SyncOwn(m)
       PROVE  UNCHANGED <<reply, down>>
  BY <1>11 DEF SendWs, SyncOwn
<1>12. ASSUME NEW n \in Sockets, CloseSocket(n) \/ \E m \in Messages : DropFrame(n, m)
       PROVE  UNCHANGED <<reply, down>>
  BY <1>12 DEF CloseSocket, DropFrame
<1>13. EpochPasses \/ UNCHANGED vars => UNCHANGED <<reply, down>>
  BY DEF EpochPasses, vars
<1> QED
  BY <1>1, <1>6, <1>7, <1>8, <1>9, <1>10, <1>11, <1>12, <1>13 DEF Next, Handle

\* A failure, a misread or a logout is remembered, and so is what was composed.
LEMMA OrderlyBefore ==
  ASSUME Sound, [Next]_vars, Orderly'
  PROVE  /\ Orderly
         /\ ~\E n \in Sockets, m \in Messages : DropFrame(n, m) \/ MisreadFrame(n, m)
         /\ ~Logout
<1>0. composed \in Seq(Messages) /\ Bounds
  BY DEF Sound, TypeOK
<1>1. /\ spent \in [failures : Nat, misreads : Nat, resets : Nat, logouts : Nat]
      /\ spent'.failures + spent'.misreads + spent'.logouts = 0
      /\ Len(composed') <= OutboxLimit
  BY <1>0 DEF Bounds, Orderly
<1>2. ASSUME NEW kind \in {"failures", "misreads", "resets", "logouts"}, Happens(kind)
      PROVE  /\ kind = "resets"
             /\ spent.failures + spent.misreads + spent.logouts = 0
  BY <1>1, <1>2 DEF Happens
<1>3. ~\E n \in Sockets, m \in Messages : DropFrame(n, m) \/ MisreadFrame(n, m)
  BY <1>2 DEF DropFrame, MisreadFrame
<1>4. ~Logout
  BY <1>2 DEF Logout
<1>5. spent.failures + spent.misreads + spent.logouts = 0
  <2>1. UNCHANGED spent \/ Happens("resets")
    BY <1>3, <1>4 DEF Next, Handle, Receive, SendWs, SyncOwn, ConnectWs, ReceiveAuthOk, ReceiveAnswer, Disconnect,
                Reload, StoreFrame, FindDuplicate, RefuseFrame, Answer, CloseSocket, Restart,
                EpochPasses, vars
  <2> QED
    BY <1>1, <1>2, <2>1
<1>6. Len(composed) <= Len(composed')
  <2>1. (\E m \in Messages : composed' = Append(composed, m)) \/ composed' = composed
    BY DEF Next, Handle, Receive, SendWs, SyncOwn, ConnectWs, ReceiveAuthOk, ReceiveAnswer, Disconnect,
                Reload, Logout, StoreFrame, FindDuplicate, RefuseFrame, DropFrame, MisreadFrame, Answer, CloseSocket,
                Restart, EpochPasses, vars, client
  <2> QED
    BY <1>0, <2>1, AppendProperties, LenProperties
<1>7. Len(composed) \in Nat /\ Len(composed') \in Nat /\ OutboxLimit \in Nat
  BY <1>0, SoundStep, OutboxAssumption DEF Sound, TypeOK
<1> QED
  BY <1>1, <1>3, <1>4, <1>5, <1>6, <1>7 DEF Orderly

LEMMA OrderStep == Inv /\ [Next]_vars => Order'
<1> SUFFICES ASSUME Inv, [Next]_vars, Orderly'
             PROVE  /\ ToSet(composed') \ Resolved' \subseteq ToSet(outbox') /\ Ordered(outbox', composed')
                    /\ \A n \in Sockets : Placed(up'[n], composed', Resolved')
                    /\ ready' => ToSet(composed') \ Resolved' \subseteq ToSet(up'[ws'])
                    /\ \A b \in ToSet(stored'), a \in ToSet(composed') : Before(composed', a, b) => a \in Resolved'
                    /\ Ordered(stored', composed')
  BY DEF Order
<1> DEFINE Goal == /\ ToSet(composed') \ Resolved' \subseteq ToSet(outbox') /\ Ordered(outbox', composed')
                   /\ \A n \in Sockets : Placed(up'[n], composed', Resolved')
                   /\ ready' => ToSet(composed') \ Resolved' \subseteq ToSet(up'[ws'])
                   /\ \A b \in ToSet(stored'), a \in ToSet(composed') : Before(composed', a, b) => a \in Resolved'
                   /\ Ordered(stored', composed')
<1>0. /\ Sound /\ Sound' /\ Answers
      /\ outbox \in Seq(Messages) /\ composed \in Seq(Messages) /\ stored \in Seq(Messages)
      /\ ws \in {0} \cup Sockets /\ (ready => ws \in Sockets)
      /\ up \in [Sockets -> Seq(Messages)]
      /\ down \in [Sockets -> Seq(Frames \cup {AuthOk})]
      /\ Distinct(composed)
      /\ \A n \in Sockets : ToSet(up[n]) \subseteq ToSet(composed)
      /\ ToSet(outbox) \subseteq ToSet(composed) /\ Len(outbox) <= Len(composed)
      /\ ToSet(stored) \subseteq ToSet(composed)
  BY SoundStep DEF Inv, Sound, TypeOK, Composed, Bounds
<1>1. /\ Orderly
      /\ ~\E n \in Sockets, m \in Messages : DropFrame(n, m) \/ MisreadFrame(n, m)
      /\ ~Logout
  BY <1>0, OrderlyBefore
<1>2. /\ ToSet(composed) \ Resolved \subseteq ToSet(outbox) /\ Ordered(outbox, composed)
      /\ \A n \in Sockets : Placed(up[n], composed, Resolved)
      /\ ready => ToSet(composed) \ Resolved \subseteq ToSet(up[ws])
      /\ \A b \in ToSet(stored), a \in ToSet(composed) : Before(composed, a, b) => a \in Resolved
      /\ Ordered(stored, composed)
  BY <1>1 DEF Inv, Order
<1>3. Resolved \subseteq Resolved'
  BY <1>0, ResolvedGrows
<1>4. \A q : Placed(q, composed, Resolved) => Placed(q, composed, Resolved')
  BY <1>3 DEF Placed
<1>5. ASSUME UNCHANGED <<composed, outbox, stored>>, ready' => ready /\ UNCHANGED <<up, ws>>,
             \A n \in Sockets : up'[n] = up[n] \/ up'[n] = <<>>
      PROVE  Goal
  <2>1. \A n \in Sockets : Placed(up'[n], composed, Resolved')
    <3>1. Placed(<<>>, composed, Resolved')
      BY DEF Placed
    <3> QED
      BY <1>2, <1>4, <1>5, <3>1
  <2>2. ready' => ToSet(composed) \ Resolved' \subseteq ToSet(up'[ws'])
    BY <1>2, <1>3, <1>5
  <2> QED
    BY <1>2, <1>3, <1>5, <2>1, <2>2
<1>6. ASSUME NEW m \in Messages, SendWs(m)
      PROVE  Goal
  <2>1. /\ composed' = Append(composed, m) /\ m \notin ToSet(composed)
        /\ ToSet(composed') = ToSet(composed) \cup {m}
        /\ Len(composed') = Len(composed) + 1
        /\ UNCHANGED <<ws, ready, stored, expired>>
    BY <1>0, <1>6, ToSetAppend, AppendProperties DEF SendWs, server
  <2>2. /\ outbox' = Append(outbox, m) /\ ToSet(outbox') = ToSet(outbox) \cup {m}
    <3>1. Len(Append(outbox, m)) <= OutboxLimit
      <4>1. Len(Append(outbox, m)) = Len(outbox) + 1 /\ Len(outbox) \in Nat /\ Len(composed) \in Nat
        BY <1>0, AppendProperties, LenProperties
      <4>2. Len(composed') <= OutboxLimit
        BY DEF Orderly
      <4> QED
        BY <1>0, <2>1, <4>1, <4>2, OutboxAssumption
    <3>2. Append(outbox, m) \in Seq(Messages)
      BY <1>0, AppendProperties
    <3>3. outbox' = Append(outbox, m)
      BY <1>6, <3>1, <3>2, NewestMember, OutboxAssumption DEF SendWs
    <3> QED
      BY <1>0, <3>3, ToSetAppend
  <2>3. Resolved' = Resolved
    BY <2>1 DEF Resolved
  <2>4. Ordered(outbox', composed')
    <3>1. \A a \in ToSet(outbox) : Before(composed', a, m)
      BY <1>0, <2>1, BeforeAppend
    <3>2. Ordered(outbox, composed')
      BY <1>0, <1>2, <2>1, OrderedSince
    <3> QED
      BY <1>0, <2>1, <2>2, <3>1, <3>2, OrderedAppend, ToSetAppend
  <2>5. \A n \in Sockets : Placed(up[n], composed', Resolved)
    BY <1>0, <1>2, <2>1, PlacedSince
  <2>6. /\ \A n \in Sockets : Placed(up'[n], composed', Resolved)
        /\ ready => ToSet(composed') \ Resolved \subseteq ToSet(up'[ws])
    <3>1. CASE ~ready
      BY <1>6, <2>5, <3>1 DEF SendWs
    <3>2. CASE ready
      <4>1. up' = [up EXCEPT ![ws] = Append(@, m)] /\ ws \in Sockets
        BY <1>0, <1>6, <3>2 DEF SendWs
      <4>2. Placed(Append(up[ws], m), composed', Resolved)
        BY <1>0, <1>2, <2>1, <3>2, <4>1, PlacedAppend
      <4>3. ToSet(Append(up[ws], m)) = ToSet(up[ws]) \cup {m}
        BY <1>0, <4>1, ToSetAppend
      <4> QED
        BY <1>0, <1>2, <2>1, <2>5, <3>2, <4>1, <4>2, <4>3
    <3> QED
      BY <3>1, <3>2
  <2>7. \A b \in ToSet(stored), a \in ToSet(composed') : Before(composed', a, b) => a \in Resolved
    <3>1. \A b \in ToSet(stored) : b # m
      BY <1>0, <2>1
    <3>2. \A a, b : Before(composed, a, b) => a \in ToSet(composed)
      BY DEF Before, ToSet
    <3> QED
      BY <1>0, <1>2, <2>1, <3>1, <3>2, BeforeAppend
  <2>8. Ordered(stored, composed')
    BY <1>0, <1>2, <2>1, OrderedSince
  <2> QED
    BY <1>2, <2>1, <2>2, <2>3, <2>4, <2>6, <2>7, <2>8
<1>7. CASE ReceiveAuthOk
  <2>1. /\ ws \in Sockets /\ up' = [up EXCEPT ![ws] = @ \o outbox]
        /\ UNCHANGED <<outbox, composed, ws, stored, expired>>
    BY <1>0, <1>7 DEF ReceiveAuthOk, server
  <2>2. Resolved' = Resolved
    BY <2>1 DEF Resolved
  <2>3. Placed(up[ws] \o outbox, composed, Resolved)
    BY <1>0, <1>2, <2>1, PlacedFlush
  <2>4. ToSet(up[ws] \o outbox) = ToSet(up[ws]) \cup ToSet(outbox)
    BY <1>0, <2>1, ToSetConcat
  <2> QED
    BY <1>0, <1>2, <2>1, <2>2, <2>3, <2>4
<1>8. CASE ReceiveAnswer
  <2> DEFINE f == Head(down[ws])
  <2>1. /\ ws \in Sockets /\ down[ws] # <<>> /\ f # AuthOk /\ outbox' = Without(outbox, f.msg)
        /\ UNCHANGED <<composed, ws, ready, up, stored, expired>>
    BY <1>0, <1>8 DEF ReceiveAnswer, server
  <2>2. Resolved' = Resolved
    BY <2>1 DEF Resolved
  <2>3. f.msg \in Resolved
    <3>1. f \in ToSet(down[ws]) /\ f \in Frames
      <4>1. down[ws] \in Seq(Frames \cup {AuthOk})
        BY <1>0, <2>1
      <4>2. f \in ToSet(down[ws]) /\ f \in Frames \cup {AuthOk}
        BY ONLY <2>1, <4>1, ToSetTail
      <4> QED
        BY ONLY <2>1, <4>2
    <3>2. spent.misreads = 0
      <4>1. spent \in [failures : Nat, misreads : Nat, resets : Nat, logouts : Nat]
        BY <1>0 DEF Sound, Bounds
      <4>2. spent.failures + spent.misreads + spent.logouts = 0
        BY <1>1 DEF Orderly
      <4> QED
        BY ONLY <4>1, <4>2
    <3>3. True(f) /\ f.kind \in Kinds
      BY <1>0, <2>1, <3>1, <3>2 DEF Answers, Frames
    <3> QED
      BY <3>3 DEF True, Kinds, Resolved
  <2>4. ToSet(outbox) \ {f.msg} \subseteq ToSet(outbox')
    BY <1>0, <2>1, WithoutMember
  <2>5. Ordered(outbox', composed)
    BY <1>0, <1>2, <2>1, OrderedWithout
  <2> QED
    BY <1>2, <2>1, <2>2, <2>3, <2>4, <2>5
<1>9. ASSUME NEW n \in Sockets, NEW m \in Messages, StoreFrame(n, m) \/ FindDuplicate(n, m) \/ RefuseFrame(n, m)
      PROVE  Goal
  <2>1. Begin(n, m) /\ UNCHANGED <<composed, outbox, ws, ready, expired>>
    BY <1>9 DEF StoreFrame, FindDuplicate, RefuseFrame, client, server
  <2>2. /\ up[n] # <<>> /\ m = Head(up[n]) /\ m \in ToSet(composed)
        /\ up' = [up EXCEPT ![n] = Tail(@)]
        /\ ToSet(up[n]) = ToSet(Tail(up[n])) \cup {m}
    BY <1>0, <2>1, BeginTakes, ToSetTail
  <2>3. m \in Resolved'
    <3>1. CASE StoreFrame(n, m)
      BY <1>0, <3>1, ToSetAppend DEF StoreFrame, Resolved
    <3>2. CASE FindDuplicate(n, m) \/ RefuseFrame(n, m)
      BY <3>2 DEF FindDuplicate, RefuseFrame, Resolved, server
    <3> QED
      BY <1>9, <3>1, <3>2
  <2>4. Placed(Tail(up[n]), composed, Resolved')
    BY <1>0, <1>2, <1>3, <2>2, <2>3, PlacedTail
  <2>5. /\ \A k \in Sockets : Placed(up'[k], composed, Resolved')
        /\ ready => ToSet(composed) \ Resolved' \subseteq ToSet(up'[ws])
    BY <1>0, <1>2, <1>3, <1>4, <2>2, <2>3, <2>4
  <2>6. /\ \A b \in ToSet(stored'), a \in ToSet(composed) : Before(composed, a, b) => a \in Resolved'
        /\ Ordered(stored', composed)
    <3>1. CASE stored' = stored
      BY <1>2, <1>3, <3>1
    <3>2. CASE StoreFrame(n, m)
      <4>1. stored' = Append(stored, m) /\ ToSet(stored') = ToSet(stored) \cup {m} /\ m \notin Resolved
        BY <1>0, <3>2, ToSetAppend DEF StoreFrame, Resolved
      <4>2. ASSUME NEW a \in ToSet(composed), Before(composed, a, m) PROVE a \in Resolved
        <5>1. 1 \in DOMAIN up[n] /\ up[n][1] = m /\ \A k \in DOMAIN up[n] : ~(k < 1)
          BY <1>0, <2>2
        <5> QED
          BY <1>2, <4>2, <5>1 DEF Placed
      <4>3. \A b \in ToSet(stored) : Before(composed, b, m)
        BY <1>0, <1>2, <2>2, <4>1, BeforeOrders DEF Resolved
      <4>4. Ordered(stored', composed)
        BY <1>0, <1>2, <4>1, <4>3, OrderedAppend
      <4> QED
        BY <1>2, <1>3, <4>1, <4>2, <4>4
    <3> QED
      BY <1>9, <3>1, <3>2 DEF FindDuplicate, RefuseFrame, server
  <2>7. ToSet(composed) \ Resolved' \subseteq ToSet(outbox)
    BY <1>2, <1>3
  <2> QED
    BY <1>2, <2>1, <2>5, <2>6, <2>7
<1>10. ASSUME NEW m \in Messages, SyncOwn(m) PROVE Goal
  BY <1>5, <1>10 DEF SyncOwn, server
<1>11. CASE ConnectWs
  <2>1. ~ready
    BY <1>0, <1>11, OutboxAssumption DEF ConnectWs, Sound, Bounds
  <2> QED
    BY <1>5, <1>11, <2>1 DEF ConnectWs, server
<1>12. CASE Disconnect \/ Reload
  BY <1>5, <1>12 DEF Disconnect, Reload, server
<1>13. ASSUME NEW n \in Sockets, Answer(n) PROVE Goal
  BY <1>5, <1>13 DEF Answer, client
<1>14. ASSUME NEW n \in Sockets, CloseSocket(n) PROVE Goal
  <2>1. /\ n # ws /\ up' = [up EXCEPT ![n] = <<>>]
        /\ UNCHANGED <<outbox, composed, ws, ready, stored, expired>>
    BY <1>14 DEF CloseSocket, client, server
  <2>2. Placed(<<>>, composed, Resolved') /\ Resolved' = Resolved
    BY <2>1 DEF Placed, Resolved
  <2> QED
    BY <1>0, <1>2, <2>1, <2>2
<1>15. CASE Restart
  BY <1>5, <1>15 DEF Restart, server
<1>16. CASE EpochPasses \/ UNCHANGED vars
  BY <1>5, <1>16 DEF EpochPasses, vars, client, server
<1> QED
  BY <1>1, <1>6, <1>7, <1>8, <1>9, <1>10, <1>11, <1>12, <1>13, <1>14, <1>15, <1>16
     DEF Next, Handle, Receive

LEMMA Invariance == Spec => []Inv
<1>1. Inv /\ [Next]_vars => Inv'
  BY SoundStep, PushesStep, AnswersStep, OrderStep DEF Inv
<1> QED
  BY InitInv, <1>1, PTL DEF Spec

-----------------------------------------------------------------------------
(* The theorems.                                                             *)

\* Whatever is retried over however many sockets, a message is pushed to its recipients at most once,
\* and only when it is stored (the lookup, the unique key and the push of ws/server.rs).
THEOREM PushedAtMostOnce == Spec => []PushedOnce
<1>1. Inv => PushedOnce
  BY DEF Inv, Pushes
<1> QED
  BY <1>1, Invariance, PTL

\* The rows of a sender are in the order in which the client sent the messages, through any number of
\* reconnects, reloads and restarts, while no insert or lookup fails, no logout empties the outbox and
\* it has room for what was sent (sendWs and flushOutbox in api/socket.ts).
THEOREM StoredInOrder == Spec => []SendOrder
<1>1. Inv => SendOrder
  <2> SUFFICES ASSUME Inv, Orderly, NEW i \in DOMAIN stored, NEW j \in DOMAIN stored, i < j
               PROVE  IndexIn(composed, stored[i]) < IndexIn(composed, stored[j])
    BY DEF SendOrder
  <2>1. composed \in Seq(Messages) /\ Distinct(composed)
    BY DEF Inv, Sound, TypeOK, Composed
  <2>2. Before(composed, stored[i], stored[j])
    BY DEF Inv, Order, Ordered
  <2>3. PICK k \in DOMAIN composed, l \in DOMAIN composed :
          k < l /\ composed[k] = stored[i] /\ composed[l] = stored[j]
    BY <2>2 DEF Before
  <2>4. IndexIn(composed, stored[i]) = k /\ IndexIn(composed, stored[j]) = l
    BY <2>1, <2>3 DEF IndexIn, Distinct
  <2> QED
    BY <2>3, <2>4
<1> QED
  BY <1>1, Invariance, PTL

\* What the store shows of a message: its status as the promise sees it.
Shown == [m \in Messages |->
            IF spent.misreads = 0 /\ status[m] \in {"sent", "failed"} THEN status[m] ELSE "nothing"]

\* Every step of the outbox, the sockets and the handlers is a step of the promise or changes nothing
\* it speaks of.
LEMMA PromiseStep == Inv /\ [Next]_vars => [Promise!Next]_(Promise!vars)
<1> SUFFICES ASSUME Inv, [Next]_vars
             PROVE  [Promise!Next]_(Promise!vars)
  OBVIOUS
<1>0. /\ stored \in Seq(Messages)
      /\ status \in [Messages -> {"none", "queued", "sent", "failed"}]
      /\ ws \in {0} \cup Sockets /\ down \in [Sockets -> Seq(Frames \cup {AuthOk})]
      /\ expired \subseteq Messages /\ Bounds /\ Answers
  BY OutboxAssumption DEF Inv, Sound, TypeOK
<1>1. ASSUME Shown' = Shown, UNCHANGED <<stored, expired>>
      PROVE  UNCHANGED Promise!vars
  BY <1>1 DEF Promise!vars, Shown
<1>2. ASSUME NEW ms \in SUBSET Messages, UNCHANGED <<stored, expired>>,
             Shown' = [m \in Messages |-> IF m \in ms THEN "nothing" ELSE Shown[m]]
      PROVE  Promise!Next
  BY <1>2 DEF Promise!Next, Promise!Forget, Shown
<1>3. ASSUME NEW m \in Messages, NEW answer \in {"sent", "failed"}, UNCHANGED <<stored, expired>>,
             IF answer = "sent" THEN m \in ToSet(stored) ELSE m \in expired \ ToSet(stored),
             Shown' = [Shown EXCEPT ![m] = answer]
      PROVE  Promise!Next
  <2>1. Promise!Tell(m, answer)
    BY <1>3 DEF Promise!Tell, Shown, ToSet, Promise!ToSet
  <2> QED
    BY <2>1 DEF Promise!Next
<1>4. ASSUME UNCHANGED <<status, spent>> PROVE Shown' = Shown
  BY <1>4 DEF Shown
<1>5. ASSUME NEW m \in Messages, SendWs(m)
      PROVE  Promise!Next
  <2>1. /\ UNCHANGED <<stored, expired, spent>> /\ status' = [status EXCEPT ![m] = "queued"]
    BY <1>5 DEF SendWs, server
  <2>2. Shown' = [k \in Messages |-> IF k \in {m} THEN "nothing" ELSE Shown[k]]
    BY <1>0, <2>1 DEF Shown
  <2> QED
    BY <1>2, <2>1, <2>2
<1>6. ASSUME NEW m \in Messages, SyncOwn(m)
      PROVE  [Promise!Next]_(Promise!vars)
  <2>1. /\ UNCHANGED <<stored, expired, spent>> /\ status' = [status EXCEPT ![m] = "sent"]
        /\ m \in ToSet(stored)
    BY <1>6 DEF SyncOwn, server
  <2>2. CASE spent.misreads = 0
    <3>1. Shown' = [Shown EXCEPT ![m] = "sent"]
      BY <1>0, <2>1, <2>2 DEF Shown
    <3> QED
      BY <1>3, <2>1, <3>1
  <2>3. CASE spent.misreads # 0
    <3>1. Shown' = Shown
      BY <1>0, <2>1, <2>3 DEF Shown
    <3> QED
      BY <1>1, <2>1, <3>1
  <2> QED
    BY <2>2, <2>3
<1>7. CASE ReceiveAnswer
  <2> DEFINE f == Head(down[ws])
             answer == IF f.kind = "failed" THEN "failed" ELSE "sent"
  <2>1. /\ UNCHANGED <<stored, expired, spent>> /\ f # AuthOk /\ down[ws] # <<>> /\ ws \in Sockets
        /\ status' = [status EXCEPT ![f.msg] = IF @ = "none" THEN @ ELSE answer]
    BY <1>0, <1>7 DEF ReceiveAnswer, server
  <2>2. f \in ToSet(down[ws]) /\ f.msg \in Messages /\ f.kind \in Kinds
    BY <1>0, <2>1, ToSetTail DEF Frames
  <2>3. CASE spent.misreads = 0 /\ status[f.msg] # "none"
    <3>1. True(f)
      BY <2>1, <2>2, <2>3, <1>0 DEF Answers
    <3>2. IF answer = "sent" THEN f.msg \in ToSet(stored) ELSE f.msg \in expired \ ToSet(stored)
      BY <2>2, <3>1 DEF True, Kinds
    <3> HIDE DEF f
    <3>3. Shown' = [Shown EXCEPT ![f.msg] = answer]
      BY <1>0, <2>1, <2>2, <2>3 DEF Shown
    <3> QED
      BY <1>3, <2>1, <2>2, <3>2, <3>3
  <2>4. CASE ~(spent.misreads = 0 /\ status[f.msg] # "none")
    <3> HIDE DEF f
    <3>1. Shown' = Shown
      BY <1>0, <2>1, <2>2, <2>4 DEF Shown
    <3> QED
      BY <1>1, <2>1, <3>1
  <2> QED
    BY <2>3, <2>4
<1>8. CASE Reload
  <2>1. PICK lost \in SUBSET Messages : status' = [m \in Messages |-> IF m \in lost THEN "none" ELSE status[m]]
    BY <1>8 DEF Reload
  <2>2. UNCHANGED <<stored, expired>> /\ spent'.misreads = spent.misreads
    BY <1>0, <1>8 DEF Reload, Happens, server, Bounds
  <2>3. Shown' = [m \in Messages |-> IF m \in lost THEN "nothing" ELSE Shown[m]]
    BY <1>0, <2>1, <2>2 DEF Shown
  <2> QED
    BY <1>2, <2>2, <2>3
<1>9. CASE Logout
  <2>1. status' = [m \in Messages |-> "none"] /\ UNCHANGED <<stored, expired>>
    BY <1>9 DEF Logout, server
  <2>2. Shown' = [m \in Messages |-> IF m \in Messages THEN "nothing" ELSE Shown[m]]
    BY <2>1 DEF Shown
  <2> QED
    BY <1>2, <2>1, <2>2
<1>10. ASSUME NEW n \in Sockets, NEW m \in Messages, StoreFrame(n, m)
       PROVE  Promise!Next
  <2>1. /\ m \notin ToSet(stored) \cup expired /\ stored' = Append(stored, m)
        /\ UNCHANGED <<expired, status, spent>>
    BY <1>10 DEF StoreFrame, client
  <2>2. Shown' = Shown
    BY <1>4, <2>1
  <2>3. Promise!Accept(m)
    BY <2>1, <2>2 DEF Promise!Accept, Shown, ToSet, Promise!ToSet
  <2> QED
    BY <2>3 DEF Promise!Next
<1>11. ASSUME NEW n \in Sockets, NEW m \in Messages, MisreadFrame(n, m)
       PROVE  Promise!Next
  <2>1. UNCHANGED <<stored, expired, status>> /\ spent'.misreads # 0
    BY <1>0, <1>11, HappensBounds DEF MisreadFrame, client, server
  <2>2. Shown' = [k \in Messages |-> IF k \in Messages THEN "nothing" ELSE Shown[k]]
    BY <2>1 DEF Shown
  <2> QED
    BY <1>2, <2>1, <2>2
<1>12. ASSUME NEW n \in Sockets, NEW m \in Messages,
              FindDuplicate(n, m) \/ RefuseFrame(n, m) \/ DropFrame(n, m)
       PROVE  Shown' = Shown /\ UNCHANGED <<stored, expired>>
  <2>1. UNCHANGED <<stored, expired, status>> /\ spent'.misreads = spent.misreads
    BY <1>0, <1>12 DEF FindDuplicate, RefuseFrame, DropFrame, Happens, client, server, Bounds
  <2> QED
    BY <2>1 DEF Shown
<1>13. ASSUME NEW n \in Sockets, Answer(n) \/ CloseSocket(n)
       PROVE  Shown' = Shown /\ UNCHANGED <<stored, expired>>
  BY <1>4, <1>13 DEF Answer, CloseSocket, client, server
<1>14. CASE Restart
  <2>1. UNCHANGED <<stored, expired, status>> /\ spent'.misreads = spent.misreads
    BY <1>0, <1>14 DEF Restart, Happens, server, Bounds
  <2> QED
    BY <1>1, <2>1 DEF Shown
<1>15. CASE EpochPasses
  <2>1. /\ expired' = expired \cup (GroupMessages \cap ToSet(composed))
        /\ UNCHANGED <<stored, status, spent>>
    BY <1>15 DEF EpochPasses, client
  <2>2. GroupMessages \cap ToSet(composed) \in SUBSET Messages
    BY OutboxAssumption
  <2> QED
    BY <1>4, <2>1, <2>2 DEF Promise!Next, Promise!Close, Shown
<1>16. CASE ConnectWs \/ ReceiveAuthOk \/ Disconnect \/ UNCHANGED vars
  <2>1. UNCHANGED <<stored, expired, status, spent>>
    BY <1>16 DEF ConnectWs, ReceiveAuthOk, Disconnect, vars, client, server
  <2> QED
    BY <1>1, <1>4, <2>1
<1> QED
  BY <1>1, <1>5, <1>6, <1>7, <1>8, <1>9, <1>10, <1>11, <1>12, <1>13, <1>14, <1>15, <1>16
     DEF Next, Handle, Receive

\* The outbox, the sockets, the handlers and the store keep the promise of ReliableSend: a message is
\* accepted at most once, and what its sender is shown is true and stays true.
THEOREM KeepsPromise == Spec => Reliable
<1>1. Init => Promise!Init
  BY DEF Init, Promise!Init
<1> QED
  BY <1>1, Invariance, PromiseStep, PTL DEF Spec, Reliable, Promise!Spec
=============================================================================
