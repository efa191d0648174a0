------------------------- MODULE EventStreamProofs -------------------------
(***************************************************************************)
(* What the timeline misses, proved for every number of sessions, events,  *)
(* batches, pages and broken connections and every capacity of the channel.*)
(***************************************************************************)
EXTENDS EventStream, FiniteSetTheorems, TLAPS

-----------------------------------------------------------------------------
(***************************************************************************)
(* Lists and listings.                                                     *)
(***************************************************************************)
\* The rank of e in S: what sorted_events numbers it.
Rank(S, e) == Cardinality({ f \in S : f <= e })

LEMMA FiniteEvents ==
  ASSUME NEW S \in SUBSET Events
  PROVE  IsFiniteSet(S) /\ S \subseteq Nat /\ NoId \notin S
BY FS_Subset, EventStreamAssumption DEF NoId

\* Ranks grow with the events and end at the number of events.
LEMMA RankGrows ==
  ASSUME NEW S \in SUBSET Nat, IsFiniteSet(S), NEW e \in S, NEW f \in S
  PROVE  /\ Rank(S, e) \in 1 .. Cardinality(S)
         /\ e <= f => Rank(S, e) <= Rank(S, f)
         /\ e < f => Rank(S, e) < Rank(S, f)
<1> DEFINE Upto(d) == { c \in S : c <= d }
<1>0. \A d \in S : d \in Int
  OBVIOUS
<1>1. \A d \in S : IsFiniteSet(Upto(d)) /\ Cardinality(Upto(d)) \in Nat
                   /\ Cardinality(Upto(d)) <= Cardinality(S)
  BY FS_Subset, FS_CardinalityType
<1>2. Cardinality(Upto(e)) # 0
  BY <1>1, FS_EmptySet, e \in Upto(e)
<1>3. Cardinality(S) \in Nat
  BY FS_CardinalityType
<1>4. Rank(S, e) \in 1 .. Cardinality(S)
  BY <1>1, <1>2, <1>3 DEF Rank
<1>5. ASSUME e <= f PROVE Cardinality(Upto(e)) <= Cardinality(Upto(f))
  <2>0. \A c \in S : c <= e => c <= f
    BY <1>0, <1>5
  <2>1. Upto(e) \in SUBSET Upto(f)
    BY <2>0
  <2> QED
    BY <2>1, <1>1, FS_Subset
<1>6. ASSUME e < f PROVE Cardinality(Upto(e)) < Cardinality(Upto(f))
  <2>0. (\A c \in S : c <= e => c <= f) /\ f <= f /\ ~(f <= e)
    BY <1>0, <1>6
  <2>1. Upto(e) \in SUBSET Upto(f) /\ f \in Upto(f) /\ f \notin Upto(e)
    BY <2>0
  <2>2. Cardinality(Upto(e)) <= Cardinality(Upto(f))
        /\ Cardinality(Upto(e)) # Cardinality(Upto(f))
    BY <2>1, <1>1, FS_Subset
  <2> QED
    BY <2>2, <1>1
<1> QED
  BY <1>4, <1>5, <1>6 DEF Rank

\* Every rank up to the number of events is that of one event.
LEMMA EveryRank ==
  ASSUME NEW S \in SUBSET Nat, IsFiniteSet(S), NEW i \in 1 .. Cardinality(S)
  PROVE  \E e \in S : Rank(S, e) = i
<1> DEFINE r == [e \in S |-> Rank(S, e)]
<1>1. Cardinality(S) \in Nat
  BY FS_CardinalityType
<1>2. IsFiniteSet(1 .. Cardinality(S)) /\ Cardinality(1 .. Cardinality(S)) = Cardinality(S)
  <2>1. /\ IsFiniteSet(1 .. Cardinality(S))
        /\ Cardinality(1 .. Cardinality(S)) = IF 1 > Cardinality(S) THEN 0 ELSE Cardinality(S) - 1 + 1
    BY <1>1, FS_Interval
  <2> QED
    BY <2>1, <1>1
<1>3. r \in [S -> 1 .. Cardinality(S)]
  BY RankGrows
<1>4. \A e, f \in S : r[e] = r[f] => e = f
  <2> TAKE e, f \in S
  <2>1. /\ e < f => Rank(S, e) < Rank(S, f)
        /\ f < e => Rank(S, f) < Rank(S, e)
        /\ Rank(S, e) \in Int /\ Rank(S, f) \in Int
    BY RankGrows
  <2>2. e \in Int /\ f \in Int
    OBVIOUS
  <2> QED
    BY <2>1, <2>2
<1>5. r \in Injection(S, 1 .. Cardinality(S))
  BY <1>3, <1>4 DEF Injection, IsInjective
<1>6. r \in Surjection(S, 1 .. Cardinality(S))
  BY <1>2, <1>5, FS_Injection
<1>7. PICK e \in S : r[e] = i
  BY <1>6 DEF Surjection
<1> QED
  BY <1>7

\* SortedEvents lists all the events of S and nothing else, in their order.
LEMMA SortedLists ==
  ASSUME NEW S \in SUBSET Nat, IsFiniteSet(S)
  PROVE  /\ SortedEvents(S) \in Seq(S)
         /\ Range(SortedEvents(S)) = S
         /\ \A i, j \in DOMAIN SortedEvents(S) :
              i < j => SortedEvents(S)[i] < SortedEvents(S)[j]
<1> DEFINE n == Cardinality(S)
<1> DEFINE Increasing(list) == \A i, j \in DOMAIN list : i < j => list[i] < list[j]
<1> DEFINE byRank == [i \in 1 .. n |-> CHOOSE e \in S : Rank(S, e) = i]
<1>1. \A d \in S : d \in Int
  OBVIOUS
<1>2. n \in Nat
  BY FS_CardinalityType
<1>3. \A i \in 1 .. n : byRank[i] \in S /\ Rank(S, byRank[i]) = i
  BY EveryRank
<1>4. byRank \in [1 .. n -> S]
  BY <1>3
<1> HIDE DEF byRank
<1>5. Increasing(byRank)
  <2> SUFFICES ASSUME NEW i \in 1 .. n, NEW j \in 1 .. n, i < j
               PROVE  byRank[i] < byRank[j]
    BY <1>4
  <2>1. byRank[i] \in S /\ byRank[j] \in S
    BY <1>3
  <2>2. byRank[j] <= byRank[i] => Rank(S, byRank[j]) <= Rank(S, byRank[i])
    BY <2>1, RankGrows
  <2>3. byRank[i] \in Int /\ byRank[j] \in Int
    BY <2>1, <1>1
  <2>4. ~(j <= i)
    OBVIOUS
  <2> QED
    BY <2>2, <2>3, <2>4, <1>3
<1> DEFINE list == SortedEvents(S)
<1>6. list \in [1 .. n -> S] /\ Increasing(list)
  BY <1>4, <1>5 DEF SortedEvents
<1> HIDE DEF list
<1>7. \A i, j \in 1 .. n : list[i] = list[j] => i = j
  <2> TAKE i, j \in 1 .. n
  <2>1. DOMAIN list = 1 .. n
    BY <1>6
  <2>2. (i < j => list[i] < list[j]) /\ (j < i => list[j] < list[i])
    BY <1>6, <2>1, Zenon
  <2>3. list[i] \in S /\ list[j] \in S
    BY <1>6
  <2>4. list[i] \in Int /\ list[j] \in Int
    BY <2>3, <1>1
  <2> QED
    BY <2>2, <2>4
<1>8. list \in Injection(1 .. n, S)
  BY <1>6, <1>7 DEF Injection, IsInjective
<1>9. Cardinality(1 .. n) = n
  <2>1. Cardinality(1 .. n) = IF 1 > n THEN 0 ELSE n - 1 + 1
    BY <1>2, FS_Interval
  <2> QED
    BY <2>1, <1>2
<1>10. list \in Surjection(1 .. n, S)
  BY <1>8, <1>9, FS_Injection
<1>11. Range(list) = S
  BY <1>6, <1>10 DEF Range, Surjection
<1>12. list \in Seq(S)
  BY <1>6, <1>2
<1> QED
  BY <1>6, <1>11, <1>12 DEF list

\* The last item of a list is one of its items and none follows it.
LEMMA LastIsLast ==
  ASSUME NEW S \in SUBSET Events
  PROVE  /\ LastItem(S) \in S \cup {NoId}
         /\ \A e \in S : e <= LastItem(S)
         /\ \A e \in Events : (\A f \in S : f < e) => LastItem(S) < e
<1>0. IsFiniteSet(S) /\ S \subseteq Nat
  BY FiniteEvents
<1>1. CASE S = {}
  BY <1>1, EventStreamAssumption DEF LastItem, NoId
<1>2. CASE S # {}
  <2>1. Cardinality(S) \in Nat /\ Cardinality(S) # 0
    BY <1>0, <1>2, FS_CardinalityType, FS_EmptySet
  <2>2. PICK m \in S : Rank(S, m) = Cardinality(S)
    BY <1>0, <2>1, EveryRank
  <2>3. \A e \in S : m >= e
    <3> TAKE e \in S
    <3>1. (m < e => Rank(S, m) < Rank(S, e)) /\ Rank(S, e) \in 1 .. Cardinality(S)
      BY <1>0, RankGrows
    <3> QED
      BY <3>1, <2>1, <2>2, <1>0
  <2>4. LastItem(S) \in S /\ \A e \in S : LastItem(S) >= e
    BY <1>2, <2>3 DEF LastItem, Max
  <2> QED
    BY <2>4, <1>0
<1> QED
  BY <1>1, <1>2

\* What a page leaves out follows all that it holds.
LEMMA PageIsFirst ==
  ASSUME NEW S \in SUBSET Events, NEW n \in Nat,
         NEW e \in S \ PageOf(S, n), NEW f \in PageOf(S, n)
  PROVE  f < e
<1> DEFINE Before(d) == { c \in S : c < d }
<1>0. IsFiniteSet(S) /\ S \subseteq Nat
  BY FiniteEvents
<1>1. \A d \in S : IsFiniteSet(Before(d)) /\ Cardinality(Before(d)) \in Nat
  BY <1>0, FS_Subset, FS_CardinalityType
<1>2. f \in S /\ Cardinality(Before(f)) < n /\ ~(Cardinality(Before(e)) < n)
  BY DEF PageOf
<1>3. ASSUME e <= f PROVE FALSE
  <2>0. \A c \in S : c \in Int
    BY <1>0
  <2>1. Before(e) \in SUBSET Before(f)
    BY <1>2, <1>3, <2>0
  <2>2. Cardinality(Before(e)) <= Cardinality(Before(f))
    BY <2>1, <1>1, <1>2, FS_Subset
  <2> QED
    BY <2>2, <1>1, <1>2
<1> QED
  BY <1>0, <1>2, <1>3

\* e is in s, and what comes before it there comes before it in the order.
First(e, s) == \E i \in DOMAIN s : s[i] = e /\ \A j \in 1 .. (i - 1) : s[j] < e

LEMMA RangeType ==
  ASSUME NEW T, NEW s \in Seq(T)
  PROVE  Range(s) \subseteq T /\ DOMAIN s = 1 .. Len(s)
BY DEF Range

LEMMA HeadFirst ==
  ASSUME NEW T, NEW s \in Seq(T), NEW e, e \in Range(s)
  PROVE  s # <<>> /\ (e = Head(s) \/ e \in Range(Tail(s)))
<1>1. PICK i \in 1 .. Len(s) : s[i] = e
  BY DEF Range
<1>2. Len(s) \in Nat /\ s # <<>>
  BY <1>1
<1>3. CASE i = 1
  BY <1>1, <1>2, <1>3
<1>4. CASE i # 1
  <2>1. Len(Tail(s)) = Len(s) - 1 /\ \A j \in 1 .. Len(Tail(s)) : Tail(s)[j] = s[j + 1]
    BY <1>2
  <2>2. i - 1 \in 1 .. Len(Tail(s)) /\ Tail(s)[i - 1] = e /\ DOMAIN Tail(s) = 1 .. Len(Tail(s))
    BY <1>1, <1>2, <1>4, <2>1
  <2> QED
    BY <2>2, <1>2 DEF Range
<1> QED
  BY <1>3, <1>4

\* The rest of a list that grows grows, and it follows what was its head.
LEMMA RestGrows ==
  ASSUME NEW T \in SUBSET Nat, NEW s \in Seq(T), s # <<>>,
         \A i, j \in DOMAIN s : i < j => s[i] < s[j]
  PROVE  /\ Tail(s) \in Seq(T) /\ Head(s) \in T
         /\ \A i, j \in DOMAIN Tail(s) : i < j => Tail(s)[i] < Tail(s)[j]
         /\ \A f \in Range(Tail(s)) : Head(s) < f
         /\ Range(Tail(s)) \subseteq Range(s)
<1>1. /\ Len(s) \in Nat \ {0} /\ Head(s) = s[1] /\ DOMAIN s = 1 .. Len(s)
      /\ Tail(s) \in Seq(T) /\ Head(s) \in T
  OBVIOUS
<1>2. /\ Len(Tail(s)) = Len(s) - 1 /\ DOMAIN Tail(s) = 1 .. Len(Tail(s))
      /\ \A j \in 1 .. Len(Tail(s)) : Tail(s)[j] = s[j + 1]
  OBVIOUS
<1>3. \A i, j \in DOMAIN Tail(s) : i < j => Tail(s)[i] < Tail(s)[j]
  <2> SUFFICES ASSUME NEW i \in 1 .. Len(Tail(s)), NEW j \in 1 .. Len(Tail(s)), i < j
               PROVE  Tail(s)[i] < Tail(s)[j]
    BY <1>2
  <2>1. i + 1 \in 1 .. Len(s) /\ j + 1 \in 1 .. Len(s) /\ i + 1 < j + 1
    BY <1>1, <1>2
  <2> QED
    BY <2>1, <1>1, <1>2
<1>4. \A f \in Range(Tail(s)) : Head(s) < f /\ f \in Range(s)
  <2> TAKE f \in Range(Tail(s))
  <2>1. PICK i \in 1 .. Len(Tail(s)) : Tail(s)[i] = f
    BY <1>2 DEF Range
  <2>2. i + 1 \in 1 .. Len(s) /\ 1 \in 1 .. Len(s) /\ 1 < i + 1 /\ s[i + 1] = f
    BY <2>1, <1>1, <1>2
  <2> QED
    BY <2>2, <1>1 DEF Range
<1> QED
  BY <1>1, <1>3, <1>4

\* When the head of s is not e, e follows it and is still first among its like.
LEMMA FirstInRest ==
  ASSUME NEW T, NEW s \in Seq(T), NEW e, First(e, s)
  PROVE  /\ s # <<>> /\ e \in Range(s)
         /\ e # Head(s) => Head(s) < e /\ First(e, Tail(s))
<1>1. PICK i \in DOMAIN s : s[i] = e /\ \A j \in 1 .. (i - 1) : s[j] < e
  BY DEF First
<1>2. /\ Len(s) \in Nat /\ DOMAIN s = 1 .. Len(s) /\ s # <<>> /\ Head(s) = s[1]
      /\ i \in Nat /\ 1 <= i /\ i <= Len(s)
  BY <1>1
<1>3. ASSUME e # Head(s) PROVE Head(s) < e /\ First(e, Tail(s))
  <2>1. i # 1 /\ 1 \in 1 .. (i - 1)
    BY <1>1, <1>2, <1>3
  <2>2. /\ Len(Tail(s)) = Len(s) - 1 /\ DOMAIN Tail(s) = 1 .. Len(Tail(s))
        /\ \A j \in 1 .. Len(Tail(s)) : Tail(s)[j] = s[j + 1]
    BY <1>2
  <2>3. i - 1 \in DOMAIN Tail(s) /\ Tail(s)[i - 1] = e
    BY <1>1, <1>2, <2>1, <2>2
  <2>4. \A j \in 1 .. ((i - 1) - 1) : Tail(s)[j] < e
    <3> TAKE j \in 1 .. ((i - 1) - 1)
    <3>1. j + 1 \in 1 .. (i - 1) /\ j \in 1 .. Len(Tail(s))
      BY <1>2, <2>2
    <3> QED
      BY <3>1, <2>2, <1>1
  <2>5. First(e, Tail(s))
    BY <2>3, <2>4 DEF First
  <2> QED
    BY <2>1, <2>5, <1>1, <1>2
<1> QED
  BY <1>1, <1>2, <1>3 DEF Range

\* What follows s does not change what is first in s.
LEMMA FirstKept ==
  ASSUME NEW T, NEW s \in Seq(T), NEW u \in Seq(T), NEW e, First(e, s)
  PROVE  First(e, s \o u)
<1>1. PICK i \in DOMAIN s : s[i] = e /\ \A j \in 1 .. (i - 1) : s[j] < e
  BY DEF First
<1>2. /\ DOMAIN (s \o u) = 1 .. (Len(s) + Len(u)) /\ DOMAIN s = 1 .. Len(s)
      /\ Len(s) \in Nat /\ Len(u) \in Nat
      /\ \A j \in 1 .. Len(s) : (s \o u)[j] = s[j]
  OBVIOUS
<1>3. \A j \in 1 .. (i - 1) : j \in 1 .. Len(s)
  BY <1>1, <1>2
<1>4. i \in DOMAIN (s \o u)
  BY <1>1, <1>2
<1> QED
  BY <1>1, <1>2, <1>3, <1>4 DEF First

\* What is first in u is first after an s of lesser events.
LEMMA FirstAfter ==
  ASSUME NEW T, NEW s \in Seq(T), NEW u \in Seq(T), NEW e, First(e, u),
         \A f \in Range(s) : f < e
  PROVE  First(e, s \o u)
<1>1. PICK i \in DOMAIN u : u[i] = e /\ \A j \in 1 .. (i - 1) : u[j] < e
  BY DEF First
<1>2. /\ DOMAIN (s \o u) = 1 .. (Len(s) + Len(u))
      /\ Len(s) \in Nat /\ Len(u) \in Nat /\ DOMAIN u = 1 .. Len(u) /\ DOMAIN s = 1 .. Len(s)
      /\ \A j \in 1 .. Len(s) : (s \o u)[j] = s[j]
      /\ \A j \in 1 .. Len(u) : (s \o u)[Len(s) + j] = u[j]
  OBVIOUS
<1>3. Len(s) + i \in DOMAIN (s \o u) /\ (s \o u)[Len(s) + i] = e
  BY <1>1, <1>2
<1>4. \A j \in 1 .. (Len(s) + i - 1) : (s \o u)[j] < e
  <2> TAKE j \in 1 .. (Len(s) + i - 1)
  <2>1. CASE j <= Len(s)
    <3>1. j \in 1 .. Len(s)
      BY <2>1, <1>2
    <3> QED
      BY <3>1, <1>2 DEF Range
  <2>2. CASE j > Len(s)
    <3>1. j - Len(s) \in 1 .. (i - 1) /\ j - Len(s) \in 1 .. Len(u)
          /\ j = Len(s) + (j - Len(s))
      BY <2>2, <1>1, <1>2
    <3> QED
      BY <3>1, <1>1, <1>2
  <2> QED
    BY <2>1, <2>2, <1>2
<1> QED
  BY <1>3, <1>4 DEF First

\* An event that moves from the outbox to the end of the queue keeps its place.
LEMMA SameComing ==
  ASSUME NEW T, NEW q \in Seq(T), NEW o \in Seq(T), o # <<>>
  PROVE  Append(q, Head(o)) \o Tail(o) = q \o o
<1>1. /\ Len(q) \in Nat /\ Len(o) \in Nat \ {0} /\ Head(o) = o[1]
      /\ Len(Tail(o)) = Len(o) - 1 /\ Tail(o) \in Seq(T) /\ Head(o) \in T
      /\ \A j \in 1 .. Len(Tail(o)) : Tail(o)[j] = o[j + 1]
  OBVIOUS
<1> DEFINE l == Append(q, Head(o)) \o Tail(o)
<1> DEFINE r == q \o o
<1>2. l \in Seq(T) /\ r \in Seq(T) /\ Len(l) = Len(q) + 1 + (Len(o) - 1) /\ Len(r) = Len(q) + Len(o)
  BY <1>1
<1>3. Len(l) = Len(r) /\ Len(l) \in Nat
  BY <1>1, <1>2
<1>4. \A j \in 1 .. Len(l) : l[j] = r[j]
  <2> TAKE j \in 1 .. Len(l)
  <2>1. CASE j <= Len(q)
    BY <2>1, <1>1, <1>2
  <2>2. CASE j = Len(q) + 1
    BY <2>2, <1>1, <1>2
  <2>3. CASE j > Len(q) + 1
    <3>1. j - (Len(q) + 1) \in 1 .. Len(Tail(o)) /\ j - Len(q) \in 1 .. Len(o)
          /\ j - Len(q) = (j - (Len(q) + 1)) + 1
      BY <2>3, <1>1, <1>2
    <3>2. l[j] = Tail(o)[j - (Len(q) + 1)]
      BY <2>3, <3>1, <1>1, <1>2
    <3>3. r[j] = o[j - Len(q)]
      BY <2>3, <3>1, <1>1, <1>2
    <3> QED
      BY <3>1, <3>2, <3>3, <1>1
  <2> QED
    BY <2>1, <2>2, <2>3, <1>1, <1>2
<1> QED
  BY <1>2, <1>3, <1>4

LEMMA RangeOfBoth ==
  ASSUME NEW T, NEW q \in Seq(T), NEW o \in Seq(T), NEW i \in DOMAIN (q \o o)
  PROVE  (q \o o)[i] \in Range(q) \cup Range(o)
<1>1. /\ Len(q) \in Nat /\ Len(o) \in Nat /\ i \in 1 .. (Len(q) + Len(o))
      /\ DOMAIN q = 1 .. Len(q) /\ DOMAIN o = 1 .. Len(o)
  OBVIOUS
<1>2. CASE i <= Len(q)
  <2>1. i \in DOMAIN q /\ (q \o o)[i] = q[i]
    BY <1>1, <1>2
  <2> QED
    BY <2>1 DEF Range
<1>3. CASE i > Len(q)
  <2>1. i - Len(q) \in DOMAIN o /\ (q \o o)[i] = o[i - Len(q)]
    BY <1>1, <1>3
  <2> QED
    BY <2>1 DEF Range
<1> QED
  BY <1>1, <1>2, <1>3

LEMMA TailOfBoth ==
  ASSUME NEW T, NEW q \in Seq(T), NEW o \in Seq(T), q # <<>>
  PROVE  Tail(q \o o) = Tail(q) \o o
<1>1. /\ Len(q) \in Nat \ {0} /\ Len(o) \in Nat /\ Len(q \o o) = Len(q) + Len(o)
      /\ Len(Tail(q)) = Len(q) - 1 /\ Tail(q) \in Seq(T) /\ q \o o \in Seq(T)
      /\ \A j \in 1 .. Len(Tail(q)) : Tail(q)[j] = q[j + 1]
  OBVIOUS
<1> DEFINE l == Tail(q \o o)
<1> DEFINE r == Tail(q) \o o
<1>2. /\ l \in Seq(T) /\ r \in Seq(T) /\ Len(l) = Len(q) + Len(o) - 1
      /\ Len(r) = Len(q) - 1 + Len(o)
      /\ \A j \in 1 .. Len(l) : l[j] = (q \o o)[j + 1]
  BY <1>1
<1>3. \A j \in 1 .. Len(l) : l[j] = r[j]
  <2> TAKE j \in 1 .. Len(l)
  <2>1. CASE j < Len(q)
    BY <2>1, <1>1, <1>2
  <2>2. CASE j >= Len(q)
    <3>1. j + 1 > Len(q) /\ j + 1 <= Len(q) + Len(o) /\ j > Len(Tail(q))
          /\ j + 1 - Len(q) = j - Len(Tail(q))
      BY <2>2, <1>1, <1>2
    <3>2. (q \o o)[j + 1] = o[j + 1 - Len(q)]
      BY <3>1, <1>1
    <3>3. r[j] = o[j - Len(Tail(q))]
      BY <3>1, <1>1, <1>2
    <3> QED
      BY <3>1, <3>2, <3>3, <1>2
  <2> QED
    BY <2>1, <2>2, <1>1, <1>2
<1> QED
  BY <1>1, <1>2, <1>3

-----------------------------------------------------------------------------
(***************************************************************************)
(* The inductive invariant.                                                *)
(***************************************************************************)
Typed ==
  /\ stored \subseteq Events
  /\ outbox \in Seq(stored)
  /\ stream \in [at : {"off", "asked", "read", "open"}, history : Seq(stored),
                 queue : Seq(stored), lagged : BOOLEAN, last : stored \cup {NoId}]
  /\ resume \in stored \cup {NoId}
  /\ items \subseteq Mine \cap stored
  /\ dropped \subseteq Mine \cap stored /\ hidden \subseteq Mine \cap stored
  /\ stale \in BOOLEAN
  /\ \A page \in pages : page \subseteq Mine \cap stored

\* A receiver holds nothing before the subscription.
Quiet == stream.at # "open" => stream.queue = <<>> /\ ~stream.lagged

\* What is left of the history is sent in the order of the events.
Ordered ==
  \A i, j \in DOMAIN stream.history : i < j => stream.history[i] < stream.history[j]

\* What a connection has still to deliver.
Undelivered == (Mine \cap stored) \ (gaps \cup hidden \cup items \cup dropped)

\* It follows every id that a connection has been, or may be, resumed after.
Ahead == \A e \in Undelivered : e > resume /\ e > stream.last /\ \A f \in items : f < e

\* A connection that has read the history has it there, or will be told of it
\* before anything that follows it, or will notice that it lags.
OnItsWay ==
  \A e \in Undelivered :
    stream.at \in {"read", "open"} =>
      \/ e \in Range(stream.history)
      \/ /\ \A f \in Range(stream.history) : f < e
         /\ stream.lagged \/ First(e, stream.queue \o outbox)

\* An event that a page took off the list will be asked for again.
Remembered ==
  /\ dropped \cap items = {}
  /\ \A e \in dropped : stale /\ (e \in gaps \cup hidden \/ \A f \in items : f < e)

\* What a page that is on its way leaves out follows all that it holds.
PagesAhead ==
  \A page \in pages : \A e \in (Mine \cap stored) \ (gaps \cup page) : \A f \in page : f < e

IInv == Typed /\ Quiet /\ Ordered /\ Ahead /\ OnItsWay /\ Remembered /\ PagesAhead

LEMMA Numbers ==
  ASSUME Typed
  PROVE  /\ stored \subseteq Nat \ {0} /\ IsFiniteSet(stored)
         /\ resume \in Nat /\ stream.last \in Nat
<1>1. stored \subseteq Events /\ resume \in stored \cup {0} /\ stream.last \in stored \cup {0}
  BY DEF Typed, NoId
<1>2. stored \subseteq Nat \ {0} /\ IsFiniteSet(stored)
  BY <1>1, FiniteEvents, EventStreamAssumption DEF NoId
<1>3. \A e \in stored : e \in Nat
  BY <1>2
<1>4. resume \in Nat
  BY <1>1, <1>3
<1>5. stream.last \in Nat
  BY <1>1, <1>3
<1> QED
  BY <1>2, <1>4, <1>5, Zenon

LEMMA InitInv == Init => IInv
<1> SUFFICES ASSUME Init PROVE IInv
  OBVIOUS
<1> USE DEF Init
<1>1. Typed
  <2>1. Off \in [at : {"off", "asked", "read", "open"}, history : Seq(stored),
                queue : Seq(stored), lagged : BOOLEAN, last : stored \cup {NoId}]
    BY DEF Off
  <2>2. outbox \in Seq(stored)
    OBVIOUS
  <2>3. stored \subseteq Events /\ resume \in stored \cup {NoId} /\ items \subseteq Mine \cap stored
        /\ dropped \subseteq Mine \cap stored /\ hidden \subseteq Mine \cap stored
        /\ stale \in BOOLEAN
        /\ \A page \in pages : page \subseteq Mine \cap stored
    OBVIOUS
  <2> QED
    BY <2>1, <2>2, <2>3, stream = Off, Zenon DEF Typed
<1>2. Quiet /\ Ordered
  BY DEF Quiet, Ordered, Off
<1>3. Undelivered = {} /\ dropped = {} /\ pages = {}
  BY DEF Undelivered
<1>4. Ahead /\ OnItsWay /\ Remembered /\ PagesAhead
  BY <1>3 DEF Ahead, OnItsWay, Remembered, PagesAhead
<1> QED
  BY <1>1, <1>2, <1>4 DEF IInv

-----------------------------------------------------------------------------
(***************************************************************************)
(* Ingestion.                                                              *)
(***************************************************************************)
LEMMA BatchTypes ==
  ASSUME NEW batch \in Batches
  PROVE  batch \in Seq(Range(batch)) /\ Range(batch) \subseteq Events
BY DEF Batches, Range

\* A new event that its commit does not make late follows all that is stored,
\* and nothing that follows it is published before it.
LEMMA NewEvent ==
  ASSUME Typed, NEW batch \in Batches, NEW e \in Range(batch) \ (stored \cup Late(batch))
  PROVE  (\A f \in stored : f < e) /\ First(e, batch)
<1>0. stored \subseteq Nat /\ \A f \in Events : f \in Nat
  BY Numbers, EventStreamAssumption
<1>1. PICK i \in DOMAIN batch : batch[i] = e
  BY DEF Range
<1>2. /\ ~ \E f \in stored : f > batch[i]
      /\ ~ \E k \in 1 .. (i - 1) : batch[k] > batch[i]
  BY <1>1 DEF Late
<1>3. e \in Nat
  BY <1>0, BatchTypes
<1>4. \A f \in stored : f < e
  <2> TAKE f \in stored
  <2>1. ~(f > e) /\ f # e /\ f \in Nat
    BY <1>0, <1>1, <1>2
  <2> QED
    BY <2>1, <1>3
<1>5. \A k \in 1 .. (i - 1) : batch[k] \in Nat /\ batch[k] # e
  BY <1>0, <1>1 DEF Batches
<1>6. \A k \in 1 .. (i - 1) : batch[k] < e
  BY <1>1, <1>2, <1>3, <1>5
<1> QED
  BY <1>1, <1>4, <1>6 DEF First

\* What a commit of any kind leaves as it was.
LEMMA CommitInv ==
  ASSUME IInv, stored \subseteq stored', stored' \subseteq Events, gaps \subseteq gaps',
         \A e \in stored' \ (stored \cup gaps') : \A f \in stored : f < e,
         outbox' \in Seq(stored'), OnItsWay',
         UNCHANGED <<stream, resume, items, stale, pages, dropped, hidden>>
  PROVE  IInv'
<1>0. Typed /\ Quiet /\ Ordered /\ Ahead /\ Remembered /\ PagesAhead
  BY DEF IInv
<1>1. Typed'
  <2>1. Seq(stored) \subseteq Seq(stored')
    OBVIOUS
  <2> QED
    BY <1>0, <2>1 DEF Typed
<1>2. Quiet' /\ Ordered'
  BY <1>0 DEF Quiet, Ordered
<1>3. Ahead'
  <2> SUFFICES ASSUME NEW e \in Undelivered'
               PROVE  e > resume /\ e > stream.last /\ \A f \in items : f < e
    BY DEF Ahead
  <2>1. CASE e \in stored
    BY <2>1, <1>0 DEF Ahead, Undelivered
  <2>2. CASE e \notin stored
    <3>1. \A f \in stored : f < e
      BY <2>2 DEF Undelivered
    <3>2. e \in Nat \ {0}
      BY EventStreamAssumption DEF Undelivered
    <3> QED
      BY <3>1, <3>2, <1>0 DEF Typed, NoId
  <2> QED
    BY <2>1, <2>2
<1>4. Remembered'
  BY <1>0 DEF Remembered
<1>5. PagesAhead'
  <2> SUFFICES ASSUME NEW page \in pages, NEW e \in (Mine \cap stored') \ (gaps' \cup page),
                      NEW f \in page
               PROVE  f < e
    BY DEF PagesAhead
  <2>1. CASE e \in stored
    BY <2>1, <1>0 DEF PagesAhead
  <2>2. CASE e \notin stored
    BY <2>2, <1>0 DEF Typed
  <2> QED
    BY <2>1, <2>2
<1> QED
  BY <1>1, <1>2, <1>3, <1>4, <1>5 DEF IInv

LEMMA CommitBatchInv ==
  ASSUME IInv, NEW batch \in Batches, CommitBatch(batch)
  PROVE  IInv'
<1>0. Typed /\ OnItsWay
  BY DEF IInv
<1>1. /\ outbox = <<>> /\ outbox' = batch
      /\ stored' = stored \cup Range(batch) /\ gaps' = gaps \cup Late(batch)
      /\ UNCHANGED <<stream, resume, items, stale, pages, dropped, hidden>>
  BY DEF CommitBatch, client
<1>2. stored' \subseteq Events /\ batch \in Seq(stored')
  <2>1. Seq(Range(batch)) \subseteq Seq(stored')
    BY <1>1
  <2> QED
    BY <1>0, <1>1, <2>1, BatchTypes DEF Typed
<1>3. \A e \in stored' \ (stored \cup gaps') : (\A f \in stored : f < e) /\ First(e, batch)
  BY <1>0, <1>1, NewEvent
<1>4. OnItsWay'
  <2> SUFFICES ASSUME NEW e \in Undelivered', stream.at \in {"read", "open"}
               PROVE  \/ e \in Range(stream.history)
                      \/ /\ \A f \in Range(stream.history) : f < e
                         /\ stream.lagged \/ First(e, stream.queue \o batch)
    BY <1>1 DEF OnItsWay
  <2>0. stream.queue \in Seq(stored') /\ Range(stream.queue) \subseteq stored
        /\ Range(stream.history) \subseteq stored
    <3>1. stream.queue \in Seq(stored) /\ stream.history \in Seq(stored)
      BY <1>0 DEF Typed
    <3>2. Seq(stored) \subseteq Seq(stored')
      BY <1>1
    <3> QED
      BY <3>1, <3>2, RangeType
  <2>1. CASE e \in stored
    <3>1. e \in Undelivered
      BY <2>1, <1>1 DEF Undelivered
    <3>2. stream.queue \o outbox = stream.queue
      BY <1>1, <2>0
    <3>3. First(e, stream.queue) => First(e, stream.queue \o batch)
      BY <2>0, <1>2, FirstKept
    <3> QED
      BY <3>1, <3>2, <3>3, <1>0 DEF OnItsWay
  <2>2. CASE e \notin stored
    <3>1. (\A f \in stored : f < e) /\ First(e, batch)
      BY <2>2, <1>3 DEF Undelivered
    <3>2. First(e, stream.queue \o batch)
      BY <3>1, <2>0, <1>2, FirstAfter
    <3> QED
      BY <3>1, <3>2, <2>0
  <2> QED
    BY <2>1, <2>2
<1> QED
  BY <1>1, <1>2, <1>3, <1>4, CommitInv

LEMMA CommitRemoteInv ==
  ASSUME IInv, NEW r \in Events, CommitRemote(r)
  PROVE  IInv'
<1>0. Typed /\ OnItsWay
  BY DEF IInv
<1>1. /\ stored' = stored \cup {r} /\ r \notin stored
      /\ gaps' = gaps \cup Late(<<r>>) \cup (IF Connected THEN {r} ELSE {})
      /\ UNCHANGED <<outbox, stream, resume, items, stale, pages, dropped, hidden>>
  BY DEF CommitRemote, client
<1>2. stored' \subseteq Events /\ outbox' \in Seq(stored')
  <2>1. Seq(stored) \subseteq Seq(stored')
    BY <1>1
  <2> QED
    BY <1>0, <1>1, <2>1 DEF Typed
<1>3. \A e \in stored' \ (stored \cup gaps') : \A f \in stored : f < e
  <2>1. <<r>> \in Batches /\ Range(<<r>>) = {r}
    BY DEF Batches, Range
  <2> QED
    BY <1>0, <1>1, <2>1, NewEvent
<1>4. OnItsWay'
  <2> SUFFICES ASSUME NEW e \in Undelivered', stream.at \in {"read", "open"}
               PROVE  \/ e \in Range(stream.history)
                      \/ /\ \A f \in Range(stream.history) : f < e
                         /\ stream.lagged \/ First(e, stream.queue \o outbox)
    BY <1>1 DEF OnItsWay
  <2>1. e \in Undelivered
    BY <1>1 DEF Undelivered, Connected
  <2> QED
    BY <2>1, <1>0 DEF OnItsWay
<1> QED
  BY <1>1, <1>2, <1>3, <1>4, CommitInv

LEMMA PublishInv ==
  ASSUME IInv, Publish
  PROVE  IInv'
<1>0. Typed /\ Quiet /\ Ordered /\ Ahead /\ OnItsWay /\ Remembered /\ PagesAhead
  BY DEF IInv
<1> DEFINE h == Head(outbox)
<1>1. /\ outbox # <<>> /\ outbox' = Tail(outbox)
      /\ stream' = IF stream.at # "open" THEN stream
                   ELSE [stream EXCEPT !.queue = Send(@, h),
                                       !.lagged = @ \/ Len(stream.queue) >= Capacity]
      /\ gaps' = IF stream.at = "read" /\ h \notin Range(stream.history) \cup items
                 THEN gaps \cup {h} ELSE gaps
      /\ UNCHANGED <<stored, resume, items, stale, pages, dropped, hidden>>
  BY DEF Publish, client
<1>2. outbox \in Seq(stored) /\ h \in stored /\ Tail(outbox) \in Seq(stored)
      /\ stream.queue \in Seq(stored) /\ stream.history \in Seq(stored)
  BY <1>0, <1>1 DEF Typed
<1> HIDE DEF h
<1>3. /\ stream'.at = stream.at /\ stream'.history = stream.history /\ stream'.last = stream.last
      /\ stream.at # "open" => stream' = stream
      /\ stream.at = "open" => /\ stream'.queue = Send(stream.queue, h)
                               /\ stream'.lagged = (stream.lagged \/ Len(stream.queue) >= Capacity)
  BY <1>0, <1>1 DEF Typed
<1>4. Send(stream.queue, h) \in Seq(stored)
  <2>1. Len(stream.queue) \in Nat /\ Capacity \in Nat \ {0}
    BY <1>2, EventStreamAssumption
  <2> QED
    BY <1>2, <2>1 DEF Send
<1>5. Typed'
  <2>1. stream' \in [at : {"off", "asked", "read", "open"}, history : Seq(stored),
                     queue : Seq(stored), lagged : BOOLEAN, last : stored \cup {NoId}]
    BY <1>0, <1>1, <1>4 DEF Typed
  <2> QED
    BY <1>0, <1>1, <1>2, <2>1 DEF Typed
<1>6. Quiet' /\ Ordered' /\ Remembered'
  BY <1>0, <1>1, <1>3 DEF Quiet, Ordered, Remembered
<1>7. \A e \in Undelivered' : e \in Undelivered
  BY <1>1 DEF Undelivered
<1>8. Ahead'
  BY <1>0, <1>1, <1>3, <1>7 DEF Ahead
<1>9. PagesAhead'
  BY <1>0, <1>1 DEF PagesAhead
<1>10. OnItsWay'
  <2> SUFFICES ASSUME NEW e \in Undelivered', stream.at \in {"read", "open"},
                      e \notin Range(stream.history)
               PROVE  /\ \A f \in Range(stream.history) : f < e
                      /\ stream'.lagged \/ First(e, stream'.queue \o Tail(outbox))
    BY <1>1, <1>3 DEF OnItsWay
  <2>1. /\ \A f \in Range(stream.history) : f < e
        /\ stream.lagged \/ First(e, stream.queue \o outbox)
    BY <1>0, <1>7 DEF OnItsWay
  <2>2. CASE stream.at = "read"
    <3>1. stream.queue = <<>> /\ ~stream.lagged
      BY <2>2, <1>0 DEF Quiet
    <3>2. First(e, outbox)
      BY <3>1, <2>1, <1>2
    <3>3. e # h
      BY <2>2, <1>1 DEF Undelivered
    <3>4. First(e, Tail(outbox))
      BY <3>2, <3>3, <1>2, FirstInRest DEF h
    <3>5. stream'.queue \o Tail(outbox) = Tail(outbox)
      BY <2>2, <3>1, <1>2, <1>3
    <3> QED
      BY <2>1, <3>4, <3>5
  <2>3. CASE stream.at = "open" /\ ~stream'.lagged
    <3>1. ~stream.lagged /\ ~(Len(stream.queue) >= Capacity)
      BY <2>3, <1>3
    <3>2. stream'.queue = Append(stream.queue, h)
      <4>1. Len(stream.queue) \in Nat /\ Capacity \in Nat
        BY <1>2, EventStreamAssumption
      <4>2. Len(stream.queue) < Capacity
        BY <3>1, <4>1
      <4> QED
        BY <2>3, <4>2, <1>3 DEF Send
    <3>3. stream'.queue \o Tail(outbox) = stream.queue \o outbox
      BY <3>2, <1>1, <1>2, SameComing DEF h
    <3> QED
      BY <2>1, <3>1, <3>3
  <2> QED
    BY <2>1, <2>2, <2>3
<1> QED
  BY <1>5, <1>6, <1>8, <1>9, <1>10 DEF IInv

-----------------------------------------------------------------------------
(***************************************************************************)
(* The connection.                                                         *)
(***************************************************************************)
\* A client that is no longer, or not yet, served.
LEMMA DisconnectedInv ==
  ASSUME IInv,
         stream' = Off \/ stream' = [Off EXCEPT !.at = "asked", !.last = resume],
         outbox' \in {outbox, <<>>},
         resume' \in {resume, stream.last},
         pages' \in {pages, {}},
         UNCHANGED <<stored, items, stale, dropped, hidden, gaps>>
  PROVE  IInv'
<1>0. Typed /\ Ahead /\ Remembered /\ PagesAhead
  BY DEF IInv
<1>1. /\ stream'.at \in {"off", "asked"} /\ stream'.history = <<>> /\ stream'.queue = <<>>
      /\ ~stream'.lagged /\ stream'.last \in {NoId, resume}
      /\ stream' \in [at : {"off", "asked", "read", "open"}, history : Seq(stored),
                      queue : Seq(stored), lagged : BOOLEAN, last : stored \cup {NoId}]
  <2>1. <<>> \in Seq(stored) /\ resume \in stored \cup {NoId}
    BY <1>0 DEF Typed
  <2>2. CASE stream' = Off
    BY <2>1, <2>2 DEF Off
  <2>3. CASE stream' = [Off EXCEPT !.at = "asked", !.last = resume]
    BY <2>1, <2>3 DEF Off
  <2> QED
    BY <2>2, <2>3
<1>2. Typed'
  <2>1. resume' \in stored \cup {NoId}
    BY <1>0 DEF Typed
  <2>2. outbox' \in Seq(stored)
    <3>1. outbox \in Seq(stored) /\ <<>> \in Seq(stored)
      BY <1>0 DEF Typed
    <3> QED
      BY <3>1
  <2>3. \A page \in pages' : page \subseteq Mine \cap stored
    BY <1>0 DEF Typed
  <2> QED
    BY <1>0, <1>1, <2>1, <2>2, <2>3 DEF Typed
<1>3. Quiet' /\ Ordered'
  BY <1>1 DEF Quiet, Ordered
<1>4. Undelivered' = Undelivered
  BY DEF Undelivered
<1>5. Ahead'
  <2> SUFFICES ASSUME NEW e \in Undelivered
               PROVE  e > resume' /\ e > stream'.last /\ \A f \in items : f < e
    BY <1>4 DEF Ahead
  <2>1. e > resume /\ e > stream.last /\ \A f \in items : f < e
    BY <1>0 DEF Ahead
  <2>2. e > NoId
    BY <1>0, Numbers DEF Undelivered, NoId
  <2> QED
    BY <2>1, <2>2, <1>1
<1>6. OnItsWay'
  BY <1>1 DEF OnItsWay
<1>7. Remembered'
  BY <1>0 DEF Remembered
<1>8. PagesAhead'
  BY <1>0 DEF PagesAhead
<1> QED
  BY <1>2, <1>3, <1>5, <1>6, <1>7, <1>8 DEF IInv

LEMMA ReadHistoryInv ==
  ASSUME IInv, ReadHistory
  PROVE  IInv'
<1>0. Typed /\ Quiet /\ Ahead /\ Remembered /\ PagesAhead
  BY DEF IInv
<1> DEFINE left == AfterId(stored, resume)
<1>1. /\ stream.at = "asked"
      /\ stream' = [stream EXCEPT !.at = "read", !.history = SortedEvents(left)]
      /\ UNCHANGED <<stored, outbox, resume, items, stale, pages, dropped, hidden, gaps>>
  BY DEF ReadHistory, client
<1>2. left \in SUBSET stored /\ left \in SUBSET Nat /\ IsFiniteSet(left)
      /\ \A e \in stored : e > resume => e \in left
  BY <1>0, Numbers, FS_Subset DEF AfterId
<1> HIDE DEF left
<1>3. /\ SortedEvents(left) \in Seq(stored) /\ Range(SortedEvents(left)) = left
      /\ \A i, j \in DOMAIN SortedEvents(left) :
           i < j => SortedEvents(left)[i] < SortedEvents(left)[j]
  <2>1. SortedEvents(left) \in Seq(left)
    BY <1>2, SortedLists
  <2>2. \A s : s \in Seq(left) => s \in Seq(stored)
    <3>1. left \subseteq stored
      BY <1>2
    <3> QED
      BY <3>1
  <2> QED
    BY <2>1, <2>2, <1>2, SortedLists
<1>4. /\ stream'.at = "read" /\ stream'.history = SortedEvents(left)
      /\ stream'.queue = stream.queue /\ stream'.lagged = stream.lagged /\ stream'.last = stream.last
      /\ stream' \in [at : {"off", "asked", "read", "open"}, history : Seq(stored),
                      queue : Seq(stored), lagged : BOOLEAN, last : stored \cup {NoId}]
  BY <1>0, <1>1, <1>3 DEF Typed
<1>5. Typed'
  BY <1>0, <1>1, <1>4 DEF Typed
<1>6. Quiet' /\ Ordered'
  BY <1>0, <1>1, <1>3, <1>4 DEF Quiet, Ordered
<1>7. Undelivered' = Undelivered
  BY <1>1 DEF Undelivered
<1>8. Ahead'
  BY <1>0, <1>1, <1>4, <1>7 DEF Ahead
<1>9. OnItsWay'
  <2> SUFFICES ASSUME NEW e \in Undelivered
               PROVE  e \in Range(stream'.history)
    BY <1>7 DEF OnItsWay
  <2>1. e > resume /\ e \in stored
    BY <1>0 DEF Ahead, Undelivered
  <2> QED
    BY <2>1, <1>2, <1>3, <1>4
<1>10. Remembered' /\ PagesAhead'
  BY <1>0, <1>1 DEF Remembered, PagesAhead
<1> QED
  BY <1>5, <1>6, <1>8, <1>9, <1>10 DEF IInv

LEMMA SubscribeInv ==
  ASSUME IInv, Subscribe
  PROVE  IInv'
<1>0. Typed /\ Quiet /\ Ordered /\ Ahead /\ OnItsWay /\ Remembered /\ PagesAhead
  BY DEF IInv
<1>1. /\ stream.at = "read" /\ stream' = [stream EXCEPT !.at = "open"]
      /\ UNCHANGED <<stored, outbox, resume, items, stale, pages, dropped, hidden, gaps>>
  BY DEF Subscribe, client
<1>2. /\ stream'.at = "open" /\ stream'.history = stream.history /\ stream'.queue = stream.queue
      /\ stream'.lagged = stream.lagged /\ stream'.last = stream.last
      /\ stream' \in [at : {"off", "asked", "read", "open"}, history : Seq(stored),
                      queue : Seq(stored), lagged : BOOLEAN, last : stored \cup {NoId}]
  BY <1>0, <1>1 DEF Typed
<1>3. Undelivered' = Undelivered
  BY <1>1 DEF Undelivered
<1>4. Typed'
  BY <1>0, <1>1, <1>2 DEF Typed
<1>5. Quiet' /\ Ordered' /\ Ahead'
  BY <1>0, <1>1, <1>2, <1>3 DEF Quiet, Ordered, Ahead
<1>6. OnItsWay'
  BY <1>0, <1>1, <1>2, <1>3 DEF OnItsWay
<1>7. Remembered' /\ PagesAhead'
  BY <1>0, <1>1 DEF Remembered, PagesAhead
<1> QED
  BY <1>4, <1>5, <1>6, <1>7 DEF IInv

\* What receiving e keeps, when whatever is still undelivered follows e.
LEMMA ReceiveInv ==
  ASSUME IInv, NEW r \in stored, Receive(r),
         stream' \in [at : {"off", "asked", "read", "open"}, history : Seq(stored),
                     queue : Seq(stored), lagged : BOOLEAN, last : stored \cup {NoId}],
         stream'.last = r, Quiet', Ordered', OnItsWay',
         \A e \in Undelivered : e = r \/ r < e
  PROVE  IInv'
<1>0. Typed /\ Ahead /\ Remembered /\ PagesAhead
  BY DEF IInv
<1>1. /\ items' = items \cup ({r} \cap Mine)
      /\ stale' = (stale \/ r \in Mine \ items)
      /\ dropped' = dropped \ {r}
      /\ hidden' = IF r \in Mine THEN (hidden \ {r}) \cup { f \in dropped : f < r } ELSE hidden
      /\ UNCHANGED <<stored, outbox, resume, pages, gaps>>
  BY DEF Receive
<1>2. Typed'
  BY <1>0, <1>1 DEF Typed
<1>3. \A e \in Undelivered' : e \in Undelivered /\ e # r
  <2> TAKE e \in Undelivered'
  <2>1. e \in Mine /\ e \in stored /\ e \notin gaps /\ e \notin hidden' /\ e \notin items' /\ e \notin dropped'
    BY <1>1 DEF Undelivered
  <2>2. e # r
    BY <2>1, <1>1
  <2>3. e \notin gaps /\ e \notin hidden /\ e \notin items /\ e \notin dropped
    BY <2>1, <2>2, <1>1
  <2> QED
    BY <2>1, <2>2, <2>3 DEF Undelivered
<1>4. Ahead'
  <2> SUFFICES ASSUME NEW e \in Undelivered'
               PROVE  e > resume /\ e > r /\ \A f \in items \cup {r} : f < e
    BY <1>1 DEF Ahead
  <2>1. e > resume /\ (\A f \in items : f < e) /\ r < e
    BY <1>0, <1>3 DEF Ahead
  <2> QED
    BY <2>1, <1>0, <1>3, Numbers DEF Undelivered
<1>5. Remembered'
  <2>1. dropped' \cap items' = {}
    BY <1>0, <1>1 DEF Remembered
  <2>2. ASSUME NEW e \in dropped'
        PROVE  stale' /\ (e \in gaps' \cup hidden' \/ \A f \in items' : f < e)
    <3>1. e \in dropped /\ e # r /\ e \in Nat /\ r \in Nat
      BY <2>2, <1>0, <1>1, Numbers DEF Typed
    <3>2. stale /\ (e \in gaps \cup hidden \/ \A f \in items : f < e)
      BY <3>1, <1>0 DEF Remembered
    <3>3. CASE r \in Mine /\ e < r
      BY <3>1, <3>2, <3>3, <1>1
    <3>4. CASE r \notin Mine \/ r < e
      BY <3>1, <3>2, <3>4, <1>1
    <3> QED
      BY <3>1, <3>3, <3>4
  <2> QED
    BY <2>1, <2>2 DEF Remembered
<1>6. PagesAhead'
  BY <1>0, <1>1 DEF PagesAhead
<1> QED
  BY <1>2, <1>4, <1>5, <1>6 DEF IInv

LEMMA SendHistoryInv ==
  ASSUME IInv, SendHistory
  PROVE  IInv'
<1>0. Typed /\ Quiet /\ Ordered /\ Ahead /\ OnItsWay
  BY DEF IInv
<1> DEFINE h == Head(stream.history)
<1> DEFINE rest == Tail(stream.history)
<1>1. /\ stream.at = "open" /\ stream.history # <<>>
      /\ stream' = [stream EXCEPT !.history = rest, !.last = h]
      /\ Receive(h)
  BY <1>0 DEF SendHistory, Typed
<1>2. UNCHANGED <<stored, outbox>>
  BY <1>1 DEF Receive
<1>3. /\ stored \in SUBSET Nat /\ stream.history \in Seq(stored)
      /\ \A i, j \in DOMAIN stream.history : i < j => stream.history[i] < stream.history[j]
  BY <1>0, Numbers DEF Typed, Ordered
<1>4. /\ rest \in Seq(stored) /\ h \in stored
      /\ \A i, j \in DOMAIN rest : i < j => rest[i] < rest[j]
      /\ \A f \in Range(rest) : h < f
      /\ Range(rest) \subseteq Range(stream.history)
  BY <1>1, <1>3, RestGrows
<1>5. \A e \in Range(stream.history) : e = h \/ e \in Range(rest)
  BY <1>3, HeadFirst
<1>6. h \in Range(stream.history)
  BY <1>1, <1>3 DEF Range
<1> HIDE DEF h, rest
<1>7. /\ stream'.at = "open" /\ stream'.history = rest /\ stream'.last = h
      /\ stream'.queue = stream.queue /\ stream'.lagged = stream.lagged
      /\ stream' \in [at : {"off", "asked", "read", "open"}, history : Seq(stored),
                      queue : Seq(stored), lagged : BOOLEAN, last : stored \cup {NoId}]
  BY <1>0, <1>1, <1>4 DEF Typed
<1>8. Quiet' /\ Ordered'
  BY <1>4, <1>7 DEF Quiet, Ordered
<1>9. \A e \in Undelivered : e = h \/ h < e
  <2> TAKE e \in Undelivered
  <2>1. \/ e \in Range(stream.history)
        \/ \A f \in Range(stream.history) : f < e
    BY <1>0, <1>1 DEF OnItsWay
  <2> QED
    BY <2>1, <1>4, <1>5, <1>6
<1>10. OnItsWay'
  <2> SUFFICES ASSUME NEW e \in Undelivered'
               PROVE  \/ e \in Range(rest)
                      \/ /\ \A f \in Range(rest) : f < e
                         /\ stream.lagged \/ First(e, stream.queue \o outbox)
    BY <1>2, <1>7 DEF OnItsWay
  <2>1. e \in Undelivered /\ e # h
    BY <1>1 DEF Undelivered, Receive
  <2>2. \/ e \in Range(stream.history)
        \/ /\ \A f \in Range(stream.history) : f < e
           /\ stream.lagged \/ First(e, stream.queue \o outbox)
    BY <2>1, <1>0, <1>1 DEF OnItsWay
  <2> QED
    BY <2>1, <2>2, <1>4, <1>5
<1> QED
  BY <1>1, <1>4, <1>7, <1>8, <1>9, <1>10, ReceiveInv

LEMMA SendLiveInv ==
  ASSUME IInv, SendLive
  PROVE  IInv'
<1>0. Typed /\ Quiet /\ Ordered /\ Ahead /\ OnItsWay
  BY DEF IInv
<1> DEFINE h == Head(stream.queue)
<1> DEFINE rest == Tail(stream.queue)
<1>1. /\ stream.at = "open" /\ stream.history = <<>> /\ ~stream.lagged /\ stream.queue # <<>>
      /\ stream' = [stream EXCEPT !.queue = rest, !.last = h]
      /\ Receive(h)
  BY <1>0 DEF SendLive, Typed
<1>2. UNCHANGED <<stored, outbox>>
  BY <1>1 DEF Receive
<1>3. stream.queue \in Seq(stored) /\ outbox \in Seq(stored)
  BY <1>0 DEF Typed
<1>4. /\ rest \in Seq(stored) /\ h \in stored
      /\ Head(stream.queue \o outbox) = h
      /\ stream.queue \o outbox \in Seq(stored)
  BY <1>1, <1>3
<1>5. Tail(stream.queue \o outbox) = rest \o outbox
  BY <1>1, <1>3, TailOfBoth
<1> HIDE DEF h, rest
<1>6. /\ stream'.at = "open" /\ stream'.history = <<>> /\ stream'.last = h
      /\ stream'.queue = rest /\ stream'.lagged = stream.lagged
      /\ stream' \in [at : {"off", "asked", "read", "open"}, history : Seq(stored),
                      queue : Seq(stored), lagged : BOOLEAN, last : stored \cup {NoId}]
  BY <1>0, <1>1, <1>4 DEF Typed
<1>7. Quiet' /\ Ordered'
  BY <1>6 DEF Quiet, Ordered
<1>8. \A e \in Undelivered : First(e, stream.queue \o outbox)
  BY <1>0, <1>1 DEF OnItsWay, Range
<1>9. \A e \in Undelivered : e = h \/ (h < e /\ First(e, rest \o outbox))
  BY <1>4, <1>5, <1>8, FirstInRest
<1>10. OnItsWay'
  <2> SUFFICES ASSUME NEW e \in Undelivered'
               PROVE  First(e, rest \o outbox)
    BY <1>2, <1>6 DEF OnItsWay, Range
  <2>1. e \in Undelivered /\ e # h
    BY <1>1 DEF Undelivered, Receive
  <2> QED
    BY <2>1, <1>9
<1> QED
  BY <1>1, <1>4, <1>6, <1>7, <1>9, <1>10, ReceiveInv

-----------------------------------------------------------------------------
(***************************************************************************)
(* The timeline.                                                           *)
(***************************************************************************)
LEMMA ReadPageInv ==
  ASSUME IInv, ReadPage
  PROVE  IInv'
<1>0. Typed /\ Quiet /\ Ordered /\ Ahead /\ OnItsWay /\ Remembered
  BY DEF IInv
<1>1. /\ pages' = {PageOf(Mine \cap stored, PageSize)}
      /\ UNCHANGED <<stored, outbox, stream, resume, items, stale, dropped, hidden, gaps>>
  BY DEF ReadPage
<1>2. PageOf(Mine \cap stored, PageSize) \subseteq Mine \cap stored
  BY DEF PageOf
<1>3. Typed'
  BY <1>0, <1>1, <1>2 DEF Typed
<1>4. Quiet' /\ Ordered' /\ Remembered'
  BY <1>0, <1>1 DEF Quiet, Ordered, Remembered
<1>5. Ahead' /\ OnItsWay'
  BY <1>0, <1>1 DEF Ahead, OnItsWay, Undelivered
<1>6. PagesAhead'
  <2>1. Mine \cap stored \in SUBSET Events /\ PageSize \in Nat
    BY <1>0, EventStreamAssumption DEF Typed
  <2>2. \A e \in (Mine \cap stored) \ PageOf(Mine \cap stored, PageSize) :
          \A f \in PageOf(Mine \cap stored, PageSize) : f < e
    BY <2>1, PageIsFirst
  <2> QED
    BY <2>2, <1>1 DEF PagesAhead
<1> QED
  BY <1>3, <1>4, <1>5, <1>6 DEF IInv

LEMMA ShowPageInv ==
  ASSUME IInv, ShowPage
  PROVE  IInv'
<1>0. Typed /\ Quiet /\ Ordered /\ Ahead /\ OnItsWay /\ Remembered /\ PagesAhead
  BY DEF IInv
<1>1. PICK page \in pages :
        /\ items' = page
        /\ stale' = (stale \/ page # items)
        /\ dropped' = (dropped \cup items) \ page
        /\ hidden' = hidden \ page
        /\ pages' = {}
        /\ UNCHANGED <<stored, outbox, stream, resume, gaps>>
  BY DEF ShowPage
<1>2. Typed'
  BY <1>0, <1>1 DEF Typed
<1>3. Quiet' /\ Ordered' /\ PagesAhead'
  BY <1>0, <1>1 DEF Quiet, Ordered, PagesAhead
<1>4. \A e \in (Mine \cap stored) \ (gaps \cup page) : \A f \in page : f < e
  BY <1>0 DEF PagesAhead
<1>5. \A e \in Undelivered' : e \in Undelivered /\ \A f \in page : f < e
  BY <1>1, <1>4 DEF Undelivered
<1>6. Ahead'
  BY <1>0, <1>1, <1>5 DEF Ahead
<1>7. OnItsWay'
  BY <1>0, <1>1, <1>5 DEF OnItsWay
<1>8. Remembered'
  <2>1. dropped' \cap items' = {}
    BY <1>1
  <2>2. ASSUME NEW e \in dropped'
        PROVE  stale' /\ (e \in gaps' \cup hidden' \/ \A f \in items' : f < e)
    <3>1. e \in dropped \cup items /\ e \notin page /\ e \in Mine \cap stored
      BY <2>2, <1>0, <1>1 DEF Typed
    <3>2. stale'
      BY <3>1, <1>0, <1>1 DEF Remembered
    <3> QED
      BY <3>1, <3>2, <1>1, <1>4
  <2> QED
    BY <2>1, <2>2 DEF Remembered
<1> QED
  BY <1>2, <1>3, <1>6, <1>7, <1>8 DEF IInv

LEMMA ResubscribeInv ==
  ASSUME IInv, Resubscribe
  PROVE  IInv'
<1>0. Typed /\ Ahead /\ Remembered /\ PagesAhead
  BY DEF IInv
<1>1. /\ stale' = FALSE /\ resume' = LastItem(items) /\ stream' = Off /\ dropped' = {}
      /\ UNCHANGED <<stored, outbox, items, pages, hidden, gaps>>
  BY DEF Resubscribe
<1>2. /\ stream'.at = "off" /\ stream'.history = <<>> /\ stream'.queue = <<>>
      /\ ~stream'.lagged /\ stream'.last = NoId
      /\ stream' \in [at : {"off", "asked", "read", "open"}, history : Seq(stored),
                      queue : Seq(stored), lagged : BOOLEAN, last : stored \cup {NoId}]
  <2>1. <<>> \in Seq(stored)
    OBVIOUS
  <2> QED
    BY <2>1, <1>1 DEF Off
<1>3. /\ LastItem(items) \in items \cup {NoId}
      /\ \A e \in Events : (\A f \in items : f < e) => LastItem(items) < e
  <2>1. items \in SUBSET Events
    BY <1>0 DEF Typed
  <2> QED
    BY <2>1, LastIsLast
<1>4. Typed'
  BY <1>0, <1>1, <1>2, <1>3 DEF Typed
<1>5. Quiet' /\ Ordered' /\ OnItsWay' /\ Remembered' /\ PagesAhead'
  BY <1>0, <1>1, <1>2 DEF Quiet, Ordered, OnItsWay, Remembered, PagesAhead
<1>6. Ahead'
  <2> SUFFICES ASSUME NEW e \in Undelivered'
               PROVE  e > resume' /\ e > NoId /\ \A f \in items : f < e
    BY <1>1, <1>2 DEF Ahead
  <2>1. e \in Mine \cap stored /\ e \notin gaps \cup hidden /\ (e \in dropped \/ e \in Undelivered)
    BY <1>1 DEF Undelivered
  <2>2. \A f \in items : f < e
    BY <2>1, <1>0 DEF Ahead, Remembered
  <2>3. e \in Events
    BY <2>1, <1>0 DEF Typed
  <2>4. e \in Nat /\ e > 0
    BY <2>3, EventStreamAssumption
  <2>5. LastItem(items) < e
    BY <2>2, <2>3, <1>3
  <2>6. LastItem(items) \in Nat
    <3>0. items \subseteq Events
      BY <1>0 DEF Typed
    <3>1. \A f \in items \cup {0} : f \in Nat
      BY <3>0, EventStreamAssumption
    <3> QED
      BY <3>1, <1>3, Zenon DEF NoId
  <2>7. e > LastItem(items)
    BY <2>4, <2>5, <2>6
  <2> QED
    BY <2>2, <2>4, <2>7, <1>1 DEF NoId
<1> QED
  BY <1>4, <1>5, <1>6 DEF IInv

-----------------------------------------------------------------------------
(***************************************************************************)
(* The theorems.                                                           *)
(***************************************************************************)
LEMMA NextInv ==
  ASSUME IInv, [Next]_vars
  PROVE  IInv'
<1>1. CASE Import
  BY <1>1, CommitBatchInv DEF Import
<1>2. CASE ImportRemote
  BY <1>2, CommitRemoteInv DEF ImportRemote
<1>3. CASE Publish
  BY <1>3, PublishInv
<1>4. CASE Connect
  BY <1>4, DisconnectedInv DEF Connect, client
<1>5. CASE Serve
  <2>1. CASE ReadHistory
    BY <2>1, ReadHistoryInv
  <2>2. CASE Subscribe
    BY <2>2, SubscribeInv
  <2>3. CASE SendHistory
    BY <2>3, SendHistoryInv
  <2>4. CASE SendLive
    BY <2>4, SendLiveInv
  <2>5. CASE EndLagged
    BY <2>5, DisconnectedInv DEF EndLagged
  <2> QED
    BY <1>5, <2>1, <2>2, <2>3, <2>4, <2>5 DEF Serve
<1>6. CASE Break
  BY <1>6, DisconnectedInv DEF Break
<1>7. CASE Restart
  BY <1>7, DisconnectedInv DEF Restart
<1>8. CASE ReadPage
  BY <1>8, ReadPageInv
<1>9. CASE ShowPage
  BY <1>9, ShowPageInv
<1>10. CASE Resubscribe
  BY <1>10, ResubscribeInv
<1>11. CASE UNCHANGED vars
  BY <1>11 DEF vars, client, IInv, Typed, Quiet, Ordered, Ahead, OnItsWay, Undelivered,
               Remembered, PagesAhead
<1> QED
  BY <1>1, <1>2, <1>3, <1>4, <1>5, <1>6, <1>7, <1>8, <1>9, <1>10, <1>11 DEF Next

LEMMA InvHolds == Spec => []IInv
<1>1. IInv /\ [Next]_vars => IInv'
  BY NextInv
<1> QED
  BY <1>1, InitInv, PTL DEF Spec

LEMMA InvImpliesKnownGaps == IInv => OnlyKnownGaps
<1> SUFFICES ASSUME IInv, NEW e \in (Mine \cap stored) \ (gaps \cup hidden \cup items)
             PROVE  Due(e)
  BY DEF OnlyKnownGaps
<1>0. Typed /\ Quiet /\ Ahead /\ OnItsWay /\ Remembered
  BY DEF IInv
<1>1. e \in Events /\ items \in SUBSET Events
  BY <1>0 DEF Typed
<1>2. (\A f \in items : f < e) => e > LastItem(items)
  <2>1. /\ LastItem(items) \in items \cup {NoId}
        /\ (\A f \in items : f < e) => LastItem(items) < e
    BY <1>1, LastIsLast
  <2>2. \A f \in items \cup {0} : f \in Nat
    BY <1>1, EventStreamAssumption
  <2>3. LastItem(items) \in Nat /\ e \in Nat
    BY <1>1, <2>1, <2>2, EventStreamAssumption DEF NoId
  <2> QED
    BY <2>1, <2>3
<1>3. CASE e \in dropped
  <2>1. stale /\ \A f \in items : f < e
    BY <1>0, <1>3 DEF Remembered
  <2> QED
    BY <2>1, <1>2 DEF Due
<1>4. CASE e \notin dropped
  <2>1. e \in Undelivered
    BY <1>4 DEF Undelivered
  <2>2. e > resume /\ e > stream.last /\ \A f \in items : f < e
    BY <2>1, <1>0 DEF Ahead
  <2>3. CASE stream.at # "open"
    BY <2>2, <2>3, <1>2 DEF Due, NextResume
  <2>4. CASE stream.at = "open"
    <3>1. e \in Range(stream.history) \/ stream.lagged \/ First(e, stream.queue \o outbox)
      BY <2>1, <2>4, <1>0 DEF OnItsWay
    <3>2. ASSUME First(e, stream.queue \o outbox)
          PROVE  e \in Range(stream.queue) \cup Range(outbox)
      <4>1. stream.queue \in Seq(stored) /\ outbox \in Seq(stored)
        BY <1>0 DEF Typed
      <4>2. PICK i \in DOMAIN (stream.queue \o outbox) : (stream.queue \o outbox)[i] = e
        BY <3>2 DEF First
      <4> QED
        BY <4>1, <4>2, RangeOfBoth
    <3> QED
      BY <2>2, <2>4, <3>1, <3>2 DEF Due
  <2> QED
    BY <2>3, <2>4
<1> QED
  BY <1>3, <1>4

(***************************************************************************)
(* Bounds: a batch has two events, a receiver as many as the channel.      *)
(***************************************************************************)
Bounded ==
  /\ gaps \subseteq stored
  /\ Len(outbox) <= 2 /\ Len(stream.queue) <= Capacity
  /\ spent \in [replays : 0 .. MaxReplays, pages : 0 .. MaxPages, breaks : 0 .. MaxBreaks]

\* Each list of a batch has one event or two.
LEMMA BatchLength ==
  ASSUME NEW batch \in Batches
  PROVE  Len(batch) <= 2
<1>1. ASSUME NEW e \in Events
      PROVE  Len(<<e>>) <= 2
  OBVIOUS
<1>2. ASSUME NEW e \in Events, NEW f \in Events
      PROVE  Len(<<e, f>>) <= 2
  OBVIOUS
<1> QED
  BY <1>1, <1>2 DEF Batches

LEMMA InitBounded == Init => Bounded
BY EventStreamAssumption DEF Init, Off, Bounded

LEMMA CommitBounded ==
  ASSUME IInv, Bounded, Import \/ ImportRemote
  PROVE  Bounded'
<1>1. ASSUME NEW batch \in Batches, CommitBatch(batch)
      PROVE  Bounded'
  <2>1. batch \in Seq(Events) /\ Len(batch) <= 2
    BY BatchTypes, BatchLength
  <2>2. Late(batch) \subseteq Range(batch)
    BY <2>1 DEF Late, Range
  <2>3. gaps' \subseteq stored'
    BY <1>1, <2>2 DEF CommitBatch, Bounded
  <2>4. spent' \in [replays : 0 .. MaxReplays, pages : 0 .. MaxPages, breaks : 0 .. MaxBreaks]
    BY <1>1, EventStreamAssumption DEF CommitBatch, Bounded
  <2> QED
    BY <1>1, <2>1, <2>3, <2>4 DEF CommitBatch, Bounded
<1>2. ASSUME NEW e \in Events, CommitRemote(e)
      PROVE  Bounded'
  <2>1. Late(<<e>>) \subseteq {e}
    BY DEF Late
  <2> QED
    BY <1>2, <2>1 DEF CommitRemote, Bounded
<1> QED
  BY <1>1, <1>2 DEF Import, ImportRemote

LEMMA PublishBounded ==
  ASSUME IInv, Bounded, Publish
  PROVE  Bounded'
<1>1. outbox \in Seq(stored) /\ stream.queue \in Seq(stored) /\ outbox # <<>>
  BY DEF IInv, Typed, Publish
<1>2. Head(outbox) \in stored /\ Len(Tail(outbox)) <= 2
  BY <1>1 DEF Bounded
<1>3. Len(Send(stream.queue, Head(outbox))) <= Capacity
  <2>1. Len(stream.queue) \in Nat /\ Capacity \in Nat \ {0} /\ Len(stream.queue) <= Capacity
    BY <1>1, EventStreamAssumption DEF Bounded
  <2>2. CASE Len(stream.queue) < Capacity
    BY <1>1, <1>2, <2>1, <2>2 DEF Send
  <2>3. CASE ~(Len(stream.queue) < Capacity)
    <3>1. Tail(stream.queue) \in Seq(stored) /\ Len(Tail(stream.queue)) = Len(stream.queue) - 1
      BY <1>1, <2>1, <2>3
    <3> QED
      BY <1>2, <2>1, <2>3, <3>1 DEF Send
  <2> QED
    BY <2>2, <2>3
<1>4. Len(stream.queue') <= Capacity
  <2>1. CASE stream.at = "open"
    BY <1>3, <2>1 DEF Publish, IInv, Typed
  <2>2. CASE stream.at # "open"
    BY <2>2 DEF Publish, Bounded
  <2> QED
    BY <2>1, <2>2
<1> QED
  BY <1>2, <1>4 DEF Publish, Bounded

LEMMA ServeBounded ==
  ASSUME IInv, Bounded, Connect \/ Serve
  PROVE  Bounded'
<1>1. /\ stream.queue \in Seq(stored) /\ dropped \subseteq stored
      /\ DOMAIN stream = {"at", "history", "queue", "lagged", "last"}
  BY DEF IInv, Typed
<1>2. Len(<<>>) <= Capacity
  BY EventStreamAssumption
<1>3. CASE Connect
  BY <1>2, <1>3 DEF Connect, client, Off, Bounded
<1>4. CASE ReadHistory
  BY <1>1, <1>4 DEF ReadHistory, client, Bounded
<1>5. CASE Subscribe
  BY <1>1, <1>5 DEF Subscribe, client, Bounded
<1>6. CASE SendHistory
  BY <1>1, <1>6 DEF SendHistory, Receive, Bounded
<1>7. CASE SendLive
  <2>1. Len(Tail(stream.queue)) <= Capacity
    BY <1>1, <1>7, EventStreamAssumption DEF SendLive, Bounded
  <2> QED
    BY <1>1, <1>7, <2>1 DEF SendLive, Receive, Bounded
<1>8. CASE EndLagged
  BY <1>2, <1>8 DEF EndLagged, Off, Bounded
<1> QED
  BY <1>3, <1>4, <1>5, <1>6, <1>7, <1>8 DEF Serve

LEMMA ClientBounded ==
  ASSUME IInv, Bounded, Break \/ Restart \/ ReadPage \/ ShowPage \/ Resubscribe
  PROVE  Bounded'
<1>1. Len(<<>>) <= Capacity /\ Len(<<>>) <= 2
  BY EventStreamAssumption
<1>2. CASE Break \/ Restart
  BY <1>1, <1>2, EventStreamAssumption DEF Break, Restart, Off, Bounded
<1>3. CASE ReadPage
  BY <1>3, EventStreamAssumption DEF ReadPage, Bounded
<1>4. CASE ShowPage
  BY <1>4 DEF ShowPage, Bounded
<1>5. CASE Resubscribe
  BY <1>1, <1>5 DEF Resubscribe, Off, Bounded
<1> QED
  BY <1>2, <1>3, <1>4, <1>5

LEMMA NextBounded ==
  ASSUME IInv, Bounded, [Next]_vars
  PROVE  Bounded'
<1>1. CASE UNCHANGED vars
  BY <1>1 DEF vars, Bounded
<1> QED
  BY <1>1, CommitBounded, PublishBounded, ServeBounded, ClientBounded DEF Next

\* A list with at most n entries is one of the lists TypeOK speaks of.
LEMMA ShortLists ==
  ASSUME NEW S, NEW n \in Nat, NEW s \in Seq(S), Len(s) <= n
  PROVE  s \in BoundedSeq(S, n)
<1>1. Len(s) \in 0 .. n /\ s \in [1 .. Len(s) -> S]
  OBVIOUS
<1> QED
  BY <1>1 DEF BoundedSeq, SeqOf

(***************************************************************************)
(* All that the timeline, its page and its connection hold is stored, and  *)
(* neither the batch being published nor the receiver's place in the       *)
(* broadcast channel outgrows its limit.                                   *)
(***************************************************************************)
THEOREM TypeCorrect == Spec => []TypeOK
<1>1. IInv /\ Bounded /\ [Next]_vars => Bounded'
  BY NextBounded
<1>2. IInv /\ Bounded => TypeOK
  <2> SUFFICES ASSUME IInv, Bounded
               PROVE  TypeOK
    OBVIOUS
  <2>1. /\ outbox \in Seq(stored) /\ stream.history \in Seq(stored)
        /\ stream.queue \in Seq(stored) /\ Capacity \in Nat
    BY EventStreamAssumption DEF IInv, Typed
  <2>2. outbox \in BoundedSeq(stored, 2) /\ stream.queue \in BoundedSeq(stored, Capacity)
    BY <2>1, ShortLists DEF Bounded
  <2>3. Range(stream.history) \subseteq stored
    BY <2>1 DEF Range
  <2> QED
    BY <2>2, <2>3 DEF IInv, Typed, Bounded, TypeOK
<1> QED
  BY <1>1, <1>2, InitBounded, InvHolds, PTL DEF Spec

(***************************************************************************)
(* An event of the session that the client does not show is one that no    *)
(* connection had to deliver, or it is still coming: published and not yet *)
(* received, in the history, or after the id that the next connection is   *)
(* resumed after.  stream_events, consumeEventStream and                   *)
(* mergeChronologicalEvents lose nothing else, whatever lags or breaks.    *)
(***************************************************************************)
THEOREM TimelineIsComplete == Spec => []OnlyKnownGaps
BY InvHolds, InvImpliesKnownGaps, PTL

=============================================================================
