------------------------------ MODULE TimersProofs -----------------------------
(***************************************************************************)
(* Proofs about Timers, for every number of timers and all intervals: the  *)
(* heap is one of the active timers, the poll reaches to the first of      *)
(* them, and timers fire as TimerQueue says.                               *)
(***************************************************************************)
EXTENDS Timers, TimerHeapProofs, SequenceTheorems

-----------------------------------------------------------------------------
(* The line, and the order of the timers in it *)

Queues == [heap : Heaps, due : [Nodes -> Int], line : Seq(Nodes)]

\* The line without its k-th timer.
Behind(k, i) == IF i < k THEN i ELSE i + 1

\* What taking a timer out of a line without repeats leaves.
LEMMA RemoveFirstIs ==
    ASSUME NEW l \in Seq(Nodes), IsInjective(l), NEW t
    PROVE  \/ t \notin ToSet(l) /\ RemoveFirst(l, t) = l
           \/ \E k \in 1..Len(l) :
                /\ l[k] = t /\ RemoveFirst(l, t) \in Seq(Nodes) /\ Len(RemoveFirst(l, t)) = Len(l) - 1
                /\ \A i \in 1..Len(l) - 1 : RemoveFirst(l, t)[i] = l[Behind(k, i)]
<1>1. Len(l) \in Nat /\ DOMAIN l = 1..Len(l) /\ \A i \in 1..Len(l) : l[i] \in Nodes
  BY LenProperties
<1>2. CASE t \notin ToSet(l)
  BY <1>1, <1>2 DEF ToSet, RemoveFirst
<1>3. ASSUME NEW k \in 1..Len(l), l[k] = t PROVE
                /\ l[k] = t /\ RemoveFirst(l, t) \in Seq(Nodes) /\ Len(RemoveFirst(l, t)) = Len(l) - 1
                /\ \A i \in 1..Len(l) - 1 : RemoveFirst(l, t)[i] = l[Behind(k, i)]
  <2> DEFINE I == {i \in 1..Len(l) : l[i] = t}
  <2>1. I = {k}
    BY <1>1, <1>3 DEF IsInjective
  <2>2. Min(I) = k
    <3>1. \A x \in {k} : \A y \in {k} : x <= y
      BY <1>1
    <3> QED
      BY <2>1, <3>1 DEF Min
  <2>3. SelectInSeq(l, LAMBDA v : v = t) = k
    BY <2>1, <2>2 DEF SelectInSeq
  <2>4. RemoveFirst(l, t) = RemoveAt(l, k)
    BY <1>3, <2>3 DEF RemoveFirst
  <2> DEFINE a == SubSeq(l, 1, k - 1)
             b == SubSeq(l, k + 1, Len(l))
  <2>5. /\ a \in Seq(Nodes) /\ Len(a) = k - 1
        /\ \A i \in 1..k - 1 : a[i] = l[i]
    <3>1. 1 \in Int /\ k - 1 \in Int /\ \A i \in 1..k - 1 : l[i] \in Nodes
      BY <1>1, <1>3
    <3>2. /\ a \in Seq(Nodes)
          /\ Len(a) = IF 1 <= k - 1 THEN (k - 1) - 1 + 1 ELSE 0
          /\ \A i \in 1..(k - 1) - 1 + 1 : a[i] = l[1 + i - 1]
      BY <3>1, SubSeqProperties
    <3> HIDE DEF a
    <3> QED
      BY <1>1, <3>2
  <2>6. /\ b \in Seq(Nodes) /\ Len(b) = Len(l) - k
        /\ \A i \in 1..Len(l) - k : b[i] = l[k + i]
    <3>1. k + 1 \in Int /\ Len(l) \in Int /\ \A i \in k + 1..Len(l) : l[i] \in Nodes
      BY <1>1, <1>3
    <3>2. /\ b \in Seq(Nodes)
          /\ Len(b) = IF k + 1 <= Len(l) THEN Len(l) - (k + 1) + 1 ELSE 0
          /\ \A i \in 1..Len(l) - (k + 1) + 1 : b[i] = l[k + 1 + i - 1]
      BY <3>1, SubSeqProperties
    <3> HIDE DEF b
    <3>3. Len(b) = Len(l) - k
      <4>1. k \in Nat /\ k <= Len(l) /\ Len(l) \in Nat
        BY <1>1
      <4>2. Len(b) = IF k + 1 <= Len(l) THEN Len(l) - (k + 1) + 1 ELSE 0
        BY <3>2
      <4> QED
        BY <4>1, <4>2
    <3>4. ASSUME NEW i \in 1..Len(l) - k PROVE b[i] = l[k + i]
      <4>1. i \in 1..Len(l) - (k + 1) + 1 /\ k + 1 + i - 1 = k + i
        BY <1>1
      <4> QED
        BY <3>2, <4>1
    <3> QED
      BY <3>2, <3>3, <3>4
  <2>7. RemoveFirst(l, t) = a \o b
    BY <2>4 DEF RemoveAt
  <2> HIDE DEF a, b
  <2>8. /\ a \o b \in Seq(Nodes) /\ Len(a \o b) = Len(a) + Len(b)
        /\ \A i \in 1..Len(a) + Len(b) : (a \o b)[i] = IF i <= Len(a) THEN a[i] ELSE b[i - Len(a)]
    BY <2>5, <2>6, ConcatProperties
  <2>9. ASSUME NEW i \in 1..Len(l) - 1 PROVE (a \o b)[i] = l[Behind(k, i)]
    <3>1. CASE i < k
      BY <1>1, <2>5, <2>6, <2>8, <3>1 DEF Behind
    <3>2. CASE ~ (i < k)
      <4>1. (a \o b)[i] = b[i - (k - 1)] /\ i - (k - 1) \in 1..Len(l) - k
        BY <1>1, <2>5, <2>6, <2>8, <3>2
      <4>2. b[i - (k - 1)] = l[k + (i - (k - 1))] /\ k + (i - (k - 1)) = i + 1
        BY <1>1, <2>6, <4>1
      <4> QED
        BY <3>2, <4>1, <4>2 DEF Behind
    <3> QED
      BY <3>1, <3>2
  <2> QED
    BY <1>1, <1>3, <2>5, <2>6, <2>7, <2>8, <2>9
<1>4. CASE t \in ToSet(l)
  <2>1. PICK k \in 1..Len(l) : l[k] = t
    BY <1>1, <1>4 DEF ToSet
  <2> QED
    BY <1>3, <2>1
<1> QED
  BY <1>2, <1>4

\* Who goes before whom, by their places in the line.
LEMMA BeforeIs ==
    ASSUME NEW T \in Queues, IsInjective(T.line), NEW i \in 1..Len(T.line), NEW j \in 1..Len(T.line)
    PROVE  T.line[i] \in Before(T)[T.line[j]] <=>
             \/ T.due[T.line[i]] < T.due[T.line[j]]
             \/ T.due[T.line[i]] = T.due[T.line[j]] /\ i < j
<1>1. T.line \in Seq(Nodes)
  BY DEF Queues
<1>2. Len(T.line) \in Nat /\ DOMAIN T.line = 1..Len(T.line) /\ \A k \in 1..Len(T.line) : T.line[k] \in Nodes
  BY <1>1, LenProperties
<1>3. T.line[i] \in ToSet(T.line)
  BY <1>2 DEF ToSet
<1>4. ASSUME NEW h \in DOMAIN T.line, NEW k \in DOMAIN T.line, h < k, T.line[h] = T.line[i], T.line[k] = T.line[j]
      PROVE  i < j
  BY <1>2, <1>4 DEF IsInjective
<1>5. T.line[j] \in Nodes
  BY <1>2
<1>6. Before(T)[T.line[j]] = {u \in ToSet(T.line) :
        \/ T.due[u] < T.due[T.line[j]]
        \/ T.due[u] = T.due[T.line[j]] /\ \E h, k \in DOMAIN T.line : h < k /\ T.line[h] = u /\ T.line[k] = T.line[j]}
  BY <1>5 DEF Before
<1> QED
  BY <1>2, <1>3, <1>4, <1>6

\* This is an order of the timers in the line.
LEMMA BeforeOrders ==
    ASSUME NEW T \in Queues, IsInjective(T.line)
    PROVE  Ordering(Before(T), ToSet(T.line))
<1>1. T.line \in Seq(Nodes) /\ T.due \in [Nodes -> Int]
  BY DEF Queues
<1>2. Len(T.line) \in Nat /\ DOMAIN T.line = 1..Len(T.line) /\ \A k \in 1..Len(T.line) : T.line[k] \in Nodes
  BY <1>1, LenProperties
<1>3. \A a \in ToSet(T.line) : \E i \in 1..Len(T.line) : T.line[i] = a
  BY <1>2 DEF ToSet
<1>4. \A i, j \in 1..Len(T.line) : T.line[i] \in Before(T)[T.line[j]] <=>
             \/ T.due[T.line[i]] < T.due[T.line[j]]
             \/ T.due[T.line[i]] = T.due[T.line[j]] /\ i < j
  BY BeforeIs
<1>5. \A i \in 1..Len(T.line) : T.due[T.line[i]] \in Int
  BY <1>1, <1>2
<1>6. ASSUME NEW a \in ToSet(T.line), NEW b \in ToSet(T.line), a \in Before(T)[b] PROVE b \notin Before(T)[a]
  <2>1. PICK i \in 1..Len(T.line), j \in 1..Len(T.line) : T.line[i] = a /\ T.line[j] = b
    BY <1>3
  <2> QED
    BY <1>2, <1>4, <1>5, <1>6, <2>1
<1>7. ASSUME NEW a \in ToSet(T.line), NEW b \in ToSet(T.line), NEW c \in ToSet(T.line),
             a \notin Before(T)[b], b \notin Before(T)[c]
      PROVE  a \notin Before(T)[c]
  <2>1. PICK i \in 1..Len(T.line), j \in 1..Len(T.line), k \in 1..Len(T.line) :
          T.line[i] = a /\ T.line[j] = b /\ T.line[k] = c
    BY <1>3
  <2>2. T.due[b] <= T.due[a] /\ T.due[c] <= T.due[b]
    BY <1>4, <1>5, <1>7, <2>1
  <2>3. T.due[b] = T.due[a] => j <= i
    BY <1>2, <1>4, <1>5, <1>7, <2>1
  <2>4. T.due[c] = T.due[b] => k <= j
    BY <1>2, <1>4, <1>5, <1>7, <2>1
  <2>5. T.due[a] \in Int /\ T.due[b] \in Int /\ T.due[c] \in Int /\ i \in Nat /\ j \in Nat /\ k \in Nat
    BY <1>2, <1>5, <2>1
  <2>6. ~ (T.due[a] < T.due[c]) /\ (T.due[a] = T.due[c] => ~ (i < k))
    BY <2>2, <2>3, <2>4, <2>5
  <2> QED
    BY <1>4, <2>1, <2>6
<1> QED
  BY <1>6, <1>7 DEF Ordering

\* Taking a timer out keeps the order of the others.
LEMMA LineRemoved ==
    ASSUME NEW l \in Seq(Nodes), IsInjective(l), NEW t
    PROVE  /\ RemoveFirst(l, t) \in Seq(Nodes) /\ IsInjective(RemoveFirst(l, t))
           /\ ToSet(RemoveFirst(l, t)) = ToSet(l) \ {t}
           /\ t \notin ToSet(l) => RemoveFirst(l, t) = l
           /\ \A i, j \in 1..Len(RemoveFirst(l, t)) : i < j =>
                \E h, k \in 1..Len(l) : h < k /\ l[h] = RemoveFirst(l, t)[i] /\ l[k] = RemoveFirst(l, t)[j]
<1> DEFINE r == RemoveFirst(l, t)
<1>1. Len(l) \in Nat /\ DOMAIN l = 1..Len(l) /\ \A i \in 1..Len(l) : l[i] \in Nodes
  BY LenProperties
<1>2. CASE t \notin ToSet(l) /\ r = l
  BY <1>1, <1>2
<1>3. ASSUME NEW k \in 1..Len(l), l[k] = t, r \in Seq(Nodes), Len(r) = Len(l) - 1,
             \A i \in 1..Len(l) - 1 : r[i] = l[Behind(k, i)]
      PROVE  /\ r \in Seq(Nodes) /\ IsInjective(r) /\ ToSet(r) = ToSet(l) \ {t} /\ t \in ToSet(l)
             /\ \A i, j \in 1..Len(r) : i < j =>
                  \E h, m \in 1..Len(l) : h < m /\ l[h] = r[i] /\ l[m] = r[j]
  <2> HIDE DEF r
  <2>1. /\ \A i \in 1..Len(r) : i \in 1..Len(l) - 1 /\ Behind(k, i) \in 1..Len(l) /\ Behind(k, i) # k
        /\ \A i, j \in 1..Len(r) : i < j <=> Behind(k, i) < Behind(k, j)
        /\ \A i, j \in 1..Len(r) : Behind(k, i) = Behind(k, j) => i = j
    BY <1>1, <1>3 DEF Behind
  <2>2. DOMAIN r = 1..Len(r)
    BY <1>3, LenProperties
  <2>3. IsInjective(r)
    <3> SUFFICES ASSUME NEW i \in 1..Len(r), NEW j \in 1..Len(r), r[i] = r[j] PROVE i = j
      BY <2>2 DEF IsInjective
    <3>1. l[Behind(k, i)] = l[Behind(k, j)]
      BY <1>3, <2>1
    <3>2. Behind(k, i) = Behind(k, j)
      BY <1>1, <2>1, <3>1 DEF IsInjective
    <3> QED
      BY <2>1, <3>2
  <2>4. ASSUME NEW x \in ToSet(r) PROVE x \in ToSet(l) \ {t}
    <3>1. PICK i \in 1..Len(r) : r[i] = x
      BY <2>2 DEF ToSet
    <3>2. x = l[Behind(k, i)] /\ x # l[k]
      BY <1>1, <1>3, <2>1, <3>1 DEF IsInjective
    <3> QED
      BY <1>1, <1>3, <2>1, <3>2 DEF ToSet
  <2>5. ASSUME NEW x \in ToSet(l) \ {t} PROVE x \in ToSet(r)
    <3>1. PICK i \in 1..Len(l) : l[i] = x /\ i # k
      BY <1>1, <1>3 DEF ToSet
    <3>2. \E j \in 1..Len(r) : Behind(k, j) = i
      <4>1. CASE i < k
        <5>1. i \in 1..Len(r) /\ Behind(k, i) = i
          BY <1>1, <1>3, <4>1 DEF Behind
        <5> QED
          BY <5>1
      <4>2. CASE i > k
        <5>1. i - 1 \in 1..Len(r) /\ Behind(k, i - 1) = i
          BY <1>1, <1>3, <4>2 DEF Behind
        <5> QED
          BY <5>1
      <4> QED
        BY <1>1, <3>1, <4>1, <4>2
    <3>3. PICK j \in 1..Len(r) : Behind(k, j) = i
      BY <3>2
    <3>4. r[j] = x
      BY <1>3, <2>1, <3>1, <3>3
    <3> QED
      BY <2>2, <3>4 DEF ToSet
  <2>6. t \in ToSet(l)
    BY <1>1, <1>3 DEF ToSet
  <2>7. ASSUME NEW i \in 1..Len(r), NEW j \in 1..Len(r), i < j
        PROVE  \E h, m \in 1..Len(l) : h < m /\ l[h] = r[i] /\ l[m] = r[j]
    BY <1>3, <2>1, <2>7
  <2>8. ToSet(r) = ToSet(l) \ {t}
    BY <2>4, <2>5
  <2> QED
    BY <1>3, <2>3, <2>6, <2>7, <2>8
<1>4. \/ t \notin ToSet(l) /\ r = l
      \/ \E k \in 1..Len(l) :
           /\ l[k] = t /\ r \in Seq(Nodes) /\ Len(r) = Len(l) - 1
           /\ \A i \in 1..Len(l) - 1 : r[i] = l[Behind(k, i)]
  BY RemoveFirstIs
<1>5. CASE \E k \in 1..Len(l) :
           /\ l[k] = t /\ r \in Seq(Nodes) /\ Len(r) = Len(l) - 1
           /\ \A i \in 1..Len(l) - 1 : r[i] = l[Behind(k, i)]
  <2> HIDE DEF r
  <2>1. PICK k \in 1..Len(l) :
           /\ l[k] = t /\ r \in Seq(Nodes) /\ Len(r) = Len(l) - 1
           /\ \A i \in 1..Len(l) - 1 : r[i] = l[Behind(k, i)]
    BY <1>5
  <2>2. /\ r \in Seq(Nodes) /\ IsInjective(r) /\ ToSet(r) = ToSet(l) \ {t} /\ t \in ToSet(l)
        /\ \A i, j \in 1..Len(r) : i < j =>
             \E h, m \in 1..Len(l) : h < m /\ l[h] = r[i] /\ l[m] = r[j]
    BY <1>3, <2>1
  <2> QED
    BY <2>2 DEF r
<1>6. CASE t \notin ToSet(l) /\ r = l
  <2>1. ToSet(l) = ToSet(l) \ {t}
    BY <1>6
  <2>2. \A i, j \in 1..Len(l) : i < j =>
                \E h, k \in 1..Len(l) : h < k /\ l[h] = l[i] /\ l[k] = l[j]
    OBVIOUS
  <2> QED
    BY <1>6, <2>1, <2>2
<1> QED
  BY <1>4, <1>5, <1>6

\* A timer put at the end comes after those in the line.
LEMMA LineAppended ==
    ASSUME NEW l \in Seq(Nodes), IsInjective(l), NEW t \in Nodes, t \notin ToSet(l)
    PROVE  /\ Append(l, t) \in Seq(Nodes) /\ IsInjective(Append(l, t))
           /\ ToSet(Append(l, t)) = ToSet(l) \cup {t}
           /\ Len(Append(l, t)) = Len(l) + 1
           /\ \A i \in 1..Len(l) : Append(l, t)[i] = l[i]
           /\ Append(l, t)[Len(l) + 1] = t
<1> DEFINE r == Append(l, t)
<1>1. Len(l) \in Nat /\ DOMAIN l = 1..Len(l) /\ \A i \in 1..Len(l) : l[i] \in Nodes
  BY LenProperties
<1>2. r \in Seq(Nodes) /\ Len(r) = Len(l) + 1 /\ (\A i \in 1..Len(l) : r[i] = l[i]) /\ r[Len(l) + 1] = t
  BY AppendProperties
<1> HIDE DEF r
<1>3. DOMAIN r = 1..Len(l) + 1 /\ 1..Len(l) + 1 = 1..Len(l) \cup {Len(l) + 1}
  BY <1>1, <1>2, LenProperties
<1>4. \A i \in 1..Len(l) : l[i] # t
  BY <1>1 DEF ToSet
<1>5. IsInjective(r)
  BY <1>1, <1>2, <1>3, <1>4 DEF IsInjective
<1>6. ToSet(r) = ToSet(l) \cup {t}
  BY <1>1, <1>2, <1>3 DEF ToSet
<1> QED
  BY <1>2, <1>5, <1>6 DEF r

-----------------------------------------------------------------------------
(* uv_timer_start, uv_timer_stop and uv_timer_again on a queue *)

\* A queue of timers: the line, the time left of those in it, and the heap of them.
QueueOK(T) ==
    /\ T \in Queues /\ IsInjective(T.line)
    /\ \A t \in Nodes \ ToSet(T.line) : T.due[t] = 0
    /\ HeapAs(T.heap, Before(T), ToSet(T.line))

\* The order of the timers in line is the one they had in another line, when they have
\* the same times and do not stand the other way round.
LEMMA SameOrder ==
    ASSUME NEW T \in Queues, NEW U \in Queues, IsInjective(T.line), IsInjective(U.line),
           \A t \in ToSet(U.line) : U.due[t] = T.due[t],
           \A i, j \in 1..Len(U.line) : i < j =>
             \E h, k \in 1..Len(T.line) : h < k /\ T.line[h] = U.line[i] /\ T.line[k] = U.line[j]
    PROVE  \A a, b \in ToSet(U.line) \cap ToSet(T.line) : a \in Before(U)[b] => a \in Before(T)[b]
<1>1. T.line \in Seq(Nodes) /\ U.line \in Seq(Nodes)
  BY DEF Queues
<1>2. DOMAIN U.line = 1..Len(U.line) /\ DOMAIN T.line = 1..Len(T.line)
  BY <1>1, LenProperties
<1> SUFFICES ASSUME NEW a \in ToSet(U.line) \cap ToSet(T.line), NEW b \in ToSet(U.line) \cap ToSet(T.line),
                    a \in Before(U)[b]
             PROVE  a \in Before(T)[b]
  OBVIOUS
<1>3. PICK i \in 1..Len(U.line), j \in 1..Len(U.line) : U.line[i] = a /\ U.line[j] = b
  BY <1>2 DEF ToSet
<1>4. PICK h \in 1..Len(T.line), k \in 1..Len(T.line) : T.line[h] = a /\ T.line[k] = b
  BY <1>2 DEF ToSet
<1>5. U.due[a] < U.due[b] \/ (U.due[a] = U.due[b] /\ i < j)
  BY <1>3, BeforeIs
<1>6. a \in Before(T)[b] <=> T.due[a] < T.due[b] \/ (T.due[a] = T.due[b] /\ h < k)
  BY <1>4, BeforeIs
<1>7. i < j => h < k
  <2>1. ASSUME i < j PROVE h < k
    <3>0. \E f, g \in 1..Len(T.line) : f < g /\ T.line[f] = U.line[i] /\ T.line[g] = U.line[j]
      BY <2>1, Zenon
    <3>1. PICK f \in 1..Len(T.line), g \in 1..Len(T.line) : f < g /\ T.line[f] = a /\ T.line[g] = b
      BY <1>3, <3>0, Zenon
    <3>2. \A x, y \in 1..Len(T.line) : T.line[x] = T.line[y] => x = y
      BY <1>2, Zenon DEF IsInjective
    <3>3. f = h /\ g = k
      BY <1>4, <3>1, <3>2, Zenon
    <3> QED
      BY <3>1, <3>3, Zenon
  <2> QED
    BY <2>1
<1> QED
  BY <1>5, <1>6, <1>7

\* uv_timer_stop takes the timer out of heap and line.
LEMMA StopIs ==
    ASSUME NEW T, QueueOK(T), NEW t \in Nodes
    PROVE  /\ QueueOK(UvTimerStop(T, t))
           /\ UvTimerStop(T, t).line = RemoveFirst(T.line, t)
           /\ UvTimerStop(T, t).due = [T.due EXCEPT ![t] = 0]
           /\ ToSet(UvTimerStop(T, t).line) = ToSet(T.line) \ {t}
<1> DEFINE U == UvTimerStop(T, t)
<1>1. /\ T \in Queues /\ IsInjective(T.line) /\ T.line \in Seq(Nodes) /\ T.due \in [Nodes -> Int]
      /\ \A u \in Nodes \ ToSet(T.line) : T.due[u] = 0
      /\ HeapAs(T.heap, Before(T), ToSet(T.line))
  BY DEF QueueOK, Queues
<1>2. /\ RemoveFirst(T.line, t) \in Seq(Nodes) /\ IsInjective(RemoveFirst(T.line, t))
      /\ ToSet(RemoveFirst(T.line, t)) = ToSet(T.line) \ {t}
      /\ t \notin ToSet(T.line) => RemoveFirst(T.line, t) = T.line
      /\ \A i, j \in 1..Len(RemoveFirst(T.line, t)) : i < j =>
           \E h, k \in 1..Len(T.line) :
             h < k /\ T.line[h] = RemoveFirst(T.line, t)[i] /\ T.line[k] = RemoveFirst(T.line, t)[j]
  BY <1>1, LineRemoved
<1>3. CASE t \notin ToSet(T.line)
  <2>1. U = T
    BY <1>3 DEF UvTimerStop
  <2>2. T.due[t] = 0
    BY <1>1, <1>3
  <2>3. T.due = [T.due EXCEPT ![t] = 0]
    BY <1>1, <2>2
  <2> QED
    BY <1>2, <1>3, <2>1, <2>3
<1>4. CASE t \in ToSet(T.line)
  <2>1. U = [heap |-> HeapRemove(T.heap, Before(T), t), due |-> [T.due EXCEPT ![t] = 0],
             line |-> RemoveFirst(T.line, t)]
    BY <1>4 DEF UvTimerStop
  <2> HIDE DEF U
  <2>2. HeapAs(U.heap, Before(T), ToSet(T.line) \ {t})
    BY <1>1, <1>4, <2>1, BeforeOrders, RemoveKeepsHeap
  <2>3. U.heap \in Heaps
    BY <2>2 DEF HeapAs
  <2>4. /\ U \in Queues /\ IsInjective(U.line) /\ ToSet(U.line) = ToSet(T.line) \ {t}
        /\ U.line = RemoveFirst(T.line, t) /\ U.due = [T.due EXCEPT ![t] = 0]
    BY <1>1, <1>2, <2>1, <2>3 DEF Queues
  <2>5. /\ \A u \in ToSet(U.line) : U.due[u] = T.due[u]
        /\ \A u \in Nodes \ ToSet(U.line) : U.due[u] = 0
    <3>1. ToSet(T.line) \subseteq Nodes
      BY <1>1, LenProperties DEF ToSet
    <3> QED
      BY <1>1, <2>4, <3>1
  <2>6. \A a, b \in ToSet(U.line) \cap ToSet(T.line) : a \in Before(U)[b] => a \in Before(T)[b]
    <3>0. U.line = RemoveFirst(T.line, t)
      BY <2>4
    <3>1. \A i, j \in 1..Len(U.line) : i < j =>
             \E h, k \in 1..Len(T.line) : h < k /\ T.line[h] = U.line[i] /\ T.line[k] = U.line[j]
      BY <1>2, <3>0
    <3>2. T \in Queues /\ U \in Queues /\ IsInjective(T.line) /\ IsInjective(U.line)
      BY <1>1, <2>4
    <3>3. \A u \in ToSet(U.line) : U.due[u] = T.due[u]
      BY <2>5
    <3> QED
      BY <3>1, <3>2, <3>3, SameOrder, Zenon
  <2>7. HeapAs(U.heap, Before(U), ToSet(U.line))
    BY <2>2, <2>4, <2>6, HeapReordered
  <2> QED
    BY <2>4, <2>5, <2>7 DEF QueueOK, U
<1> QED
  BY <1>3, <1>4

\* uv_timer_start puts it in, once, wherever it was.
LEMMA StartIs ==
    ASSUME NEW T, QueueOK(T), NEW t \in Nodes, NEW span \in Int
    PROVE  /\ QueueOK(UvTimerStart(T, t, span))
           /\ UvTimerStart(T, t, span).line = Append(RemoveFirst(T.line, t), t)
           /\ UvTimerStart(T, t, span).due = [T.due EXCEPT ![t] = span]
           /\ ToSet(UvTimerStart(T, t, span).line) = ToSet(T.line) \cup {t}
<1> DEFINE S == UvTimerStop(T, t)
           Q == [S EXCEPT !.due[t] = span, !.line = Append(@, t)]
           U == UvTimerStart(T, t, span)
<1>1. /\ QueueOK(S) /\ S.line = RemoveFirst(T.line, t) /\ S.due = [T.due EXCEPT ![t] = 0]
      /\ ToSet(S.line) = ToSet(T.line) \ {t}
  BY StopIs
<1>2. U = [Q EXCEPT !.heap = HeapInsert(@, Before(Q), t)]
  BY DEF UvTimerStart
<1>3. T.due \in [Nodes -> Int] /\ T.line \in Seq(Nodes)
  BY DEF QueueOK, Queues
<1> HIDE DEF U, S
<1>4. /\ S \in Queues /\ IsInjective(S.line) /\ S.line \in Seq(Nodes) /\ S.due \in [Nodes -> Int]
      /\ HeapAs(S.heap, Before(S), ToSet(S.line)) /\ t \notin ToSet(S.line)
      /\ \A u \in Nodes \ ToSet(S.line) : S.due[u] = 0
  BY <1>1 DEF QueueOK, Queues
<1>5. /\ Append(S.line, t) \in Seq(Nodes) /\ IsInjective(Append(S.line, t))
      /\ ToSet(Append(S.line, t)) = ToSet(S.line) \cup {t}
      /\ Len(Append(S.line, t)) = Len(S.line) + 1
      /\ \A i \in 1..Len(S.line) : Append(S.line, t)[i] = S.line[i]
      /\ Append(S.line, t)[Len(S.line) + 1] = t
  BY <1>4, LineAppended
<1>6. /\ Q \in Queues /\ Q.heap = S.heap /\ Q.line = Append(S.line, t) /\ Q.due = [S.due EXCEPT ![t] = span]
  BY <1>4, <1>5 DEF Queues
<1> HIDE DEF Q
<1>7. \A a, b \in ToSet(S.line) : a \in Before(Q)[b] => a \in Before(S)[b]
  <2> SUFFICES ASSUME NEW a \in ToSet(S.line), NEW b \in ToSet(S.line), a \in Before(Q)[b]
               PROVE  a \in Before(S)[b]
    OBVIOUS
  <2>0. DOMAIN S.line = 1..Len(S.line) /\ Len(S.line) \in Nat
    BY <1>4, LenProperties
  <2>1. PICK i \in 1..Len(S.line), j \in 1..Len(S.line) : S.line[i] = a /\ S.line[j] = b
    BY <2>0 DEF ToSet
  <2>2. i \in 1..Len(Q.line) /\ j \in 1..Len(Q.line) /\ Q.line[i] = a /\ Q.line[j] = b
    BY <1>5, <1>6, <2>0, <2>1
  <2>3. Q.due[a] < Q.due[b] \/ (Q.due[a] = Q.due[b] /\ i < j)
    <3>1. Q \in Queues /\ IsInjective(Q.line) /\ Q.line[i] \in Before(Q)[Q.line[j]]
      BY <1>5, <1>6, <2>2
    <3>2. Q.line[i] \in Before(Q)[Q.line[j]] <=>
             \/ Q.due[Q.line[i]] < Q.due[Q.line[j]]
             \/ Q.due[Q.line[i]] = Q.due[Q.line[j]] /\ i < j
      BY <2>2, <3>1, BeforeIs, Zenon
    <3> QED
      BY <2>2, <3>1, <3>2
  <2>4. Q.due[a] = S.due[a] /\ Q.due[b] = S.due[b]
    BY <1>4, <1>6
  <2> QED
    BY <1>4, <2>1, <2>3, <2>4, BeforeIs
<1>8. HeapAs(S.heap, Before(Q), ToSet(S.line))
  BY <1>4, <1>7, HeapReordered
<1>9. Ordering(Before(Q), ToSet(S.line) \cup {t})
  BY <1>5, <1>6, BeforeOrders
<1>10. HeapAs(HeapInsert(S.heap, Before(Q), t), Before(Q), ToSet(S.line) \cup {t})
  BY <1>4, <1>8, <1>9, InsertKeepsHeap
<1>11. HeapInsert(S.heap, Before(Q), t) \in Heaps
  BY <1>10 DEF HeapAs
<1>12. U.heap = HeapInsert(S.heap, Before(Q), t) /\ U.line = Q.line /\ U.due = Q.due /\ U \in Queues
  BY <1>2, <1>6, <1>11 DEF Queues
<1>13. Before(U) = Before(Q)
  BY <1>12 DEF Before
<1>14. U.due = [T.due EXCEPT ![t] = span]
  BY <1>1, <1>3, <1>6, <1>12
<1>15. \A u \in Nodes \ ToSet(U.line) : U.due[u] = 0
  BY <1>4, <1>5, <1>6, <1>12
<1>16. ToSet(U.line) = ToSet(T.line) \cup {t}
  BY <1>1, <1>5, <1>6, <1>12
<1> QED
  BY <1>1, <1>5, <1>6, <1>10, <1>12, <1>13, <1>14, <1>15, <1>16 DEF QueueOK, U

-----------------------------------------------------------------------------
(* Steps that change the queue *)

\* What a step that starts, or stops, timer t does to the queue.
Armed(t, d) ==
    /\ QueueOK(Queue)' /\ line' = Append(RemoveFirst(line, t), t) /\ due' = [due EXCEPT ![t] = d]
    /\ Active' = Active \cup {t}
Disarmed(t) ==
    /\ QueueOK(Queue)' /\ line' = RemoveFirst(line, t) /\ due' = [due EXCEPT ![t] = 0]
    /\ Active' = Active \ {t}

LEMMA QueueStep ==
    ASSUME NEW T, QueueOK(T), QueueIs(T)
    PROVE  /\ QueueOK(Queue)' /\ line' = T.line /\ due' = T.due /\ Active' = ToSet(T.line)
<1>1. heap' = T.heap /\ line' = T.line /\ due' = T.due
  BY DEF QueueIs
<1>2. T = [heap |-> T.heap, due |-> T.due, line |-> T.line]
  BY DEF QueueOK, Queues
<1>3. Queue' = T
  BY <1>1, <1>2 DEF Queue
<1>4. QueueOK(Queue')
  BY <1>3
<1>5. Active' = ToSet(line')
  BY DEF Active
<1> QED
  BY <1>1, <1>4, <1>5

LEMMA Starts ==
    ASSUME QueueOK(Queue), NEW t \in Nodes, NEW d \in Int, QueueIs(UvTimerStart(Queue, t, d))
    PROVE  Armed(t, d)
<1>1. /\ QueueOK(UvTimerStart(Queue, t, d))
      /\ UvTimerStart(Queue, t, d).line = Append(RemoveFirst(Queue.line, t), t)
      /\ UvTimerStart(Queue, t, d).due = [Queue.due EXCEPT ![t] = d]
      /\ ToSet(UvTimerStart(Queue, t, d).line) = ToSet(Queue.line) \cup {t}
  BY StartIs
<1>2. /\ QueueOK(Queue)' /\ line' = UvTimerStart(Queue, t, d).line
      /\ due' = UvTimerStart(Queue, t, d).due /\ Active' = ToSet(UvTimerStart(Queue, t, d).line)
  BY <1>1, QueueStep
<1>3. Queue.line = line /\ Queue.due = due
  BY DEF Queue
<1> QED
  BY <1>1, <1>2, <1>3 DEF Armed, Active

LEMMA Stops ==
    ASSUME QueueOK(Queue), NEW t \in Nodes, QueueIs(UvTimerStop(Queue, t))
    PROVE  Disarmed(t)
<1>1. /\ QueueOK(UvTimerStop(Queue, t))
      /\ UvTimerStop(Queue, t).line = RemoveFirst(Queue.line, t)
      /\ UvTimerStop(Queue, t).due = [Queue.due EXCEPT ![t] = 0]
      /\ ToSet(UvTimerStop(Queue, t).line) = ToSet(Queue.line) \ {t}
  BY StopIs
<1>2. /\ QueueOK(Queue)' /\ line' = UvTimerStop(Queue, t).line
      /\ due' = UvTimerStop(Queue, t).due /\ Active' = ToSet(UvTimerStop(Queue, t).line)
  BY <1>1, QueueStep
<1>3. Queue.line = line /\ Queue.due = due
  BY DEF Queue
<1> QED
  BY <1>1, <1>2, <1>3 DEF Disarmed, Active

\* A second stop, as in UvTimerAgain and UvTimerStart, changes nothing.
LEMMA StopTwice ==
    ASSUME NEW T, QueueOK(T), NEW t \in Nodes
    PROVE  UvTimerStop(UvTimerStop(T, t), t) = UvTimerStop(T, t)
<1>1. t \notin ToSet(UvTimerStop(T, t).line)
  BY StopIs
<1> QED
  BY <1>1 DEF UvTimerStop

LEMMA StartStopped ==
    ASSUME NEW T, QueueOK(T), NEW t \in Nodes, NEW d
    PROVE  UvTimerStart(UvTimerStop(T, t), t, d) = UvTimerStart(T, t, d)
  BY StopTwice DEF UvTimerStart

LEMMA StartsAgain ==
    ASSUME QueueOK(Queue), NEW t \in Nodes, NEW d \in Int, QueueIs(UvTimerAgain(Queue, t, d))
    PROVE  IF callback[t] /\ d # 0 THEN Armed(t, d) ELSE UNCHANGED <<heap, due, line>>
<1>1. CASE callback[t] /\ d # 0
  <2>1. UvTimerAgain(Queue, t, d) = UvTimerStart(Queue, t, d)
    BY <1>1, StartStopped DEF UvTimerAgain
  <2> QED
    BY <1>1, <2>1, Starts
<1>2. CASE ~ (callback[t] /\ d # 0)
  <2>1. UvTimerAgain(Queue, t, d) = Queue
    BY <1>2, Zenon DEF UvTimerAgain
  <2>2. QueueIs(Queue)
    BY <2>1
  <2> QED
    BY <1>2, <2>2 DEF QueueIs, Queue
<1> QED
  BY <1>1, <1>2

LEMMA StopsAndStartsAgain ==
    ASSUME QueueOK(Queue), NEW t \in Nodes, NEW d \in Int,
           QueueIs(UvTimerAgain(UvTimerStop(Queue, t), t, d))
    PROVE  IF callback[t] /\ d # 0 THEN Armed(t, d) ELSE Disarmed(t)
<1>1. CASE callback[t] /\ d # 0
  <2>1. UvTimerAgain(UvTimerStop(Queue, t), t, d) = UvTimerStart(Queue, t, d)
    BY <1>1, StopTwice, StartStopped DEF UvTimerAgain
  <2> QED
    BY <1>1, <2>1, Starts
<1>2. CASE ~ (callback[t] /\ d # 0)
  <2>1. UvTimerAgain(UvTimerStop(Queue, t), t, d) = UvTimerStop(Queue, t)
    BY <1>2, Zenon DEF UvTimerAgain
  <2>2. QueueIs(UvTimerStop(Queue, t))
    BY <2>1
  <2>3. Disarmed(t)
    BY <2>2, Stops
  <2> QED
    BY <1>2, <2>3
<1> QED
  BY <1>1, <1>2

\* When the loop reads the clock all timers move alike.
LEMMA TimeMovesOn ==
    ASSUME QueueOK(Queue), NEW ms \in Int, lag \in Int, UpdateTime(ms), UNCHANGED <<heap, line>>
    PROVE  QueueOK(Queue)' /\ Active' = Active
<1> DEFINE Q == Queue
           R == [heap |-> heap, due |-> due', line |-> line]
<1>1. /\ Q \in Queues /\ IsInjective(line) /\ line \in Seq(Nodes) /\ due \in [Nodes -> Int] /\ heap \in Heaps
      /\ HeapAs(heap, Before(Q), Active) /\ Q.line = line /\ Q.due = due /\ Q.heap = heap
  BY DEF QueueOK, Queues, Queue, Active
<1>2. /\ due' = [t \in Nodes |-> IF t \in Active THEN due[t] - lag - ms ELSE 0]
  BY DEF UpdateTime
<1>3. due' \in [Nodes -> Int]
  BY <1>1, <1>2
<1>4. R \in Queues /\ R.line = line /\ R.due = due' /\ R.heap = heap
  BY <1>1, <1>3 DEF Queues
<1>5. DOMAIN line = 1..Len(line) /\ \A i \in 1..Len(line) : line[i] \in Nodes /\ line[i] \in Active
  BY <1>1, LenProperties DEF ToSet, Active
<1> HIDE DEF Q, R
<1>6. \A a, b \in Active : a \in Before(R)[b] => a \in Before(Q)[b]
  <2> SUFFICES ASSUME NEW a \in Active, NEW b \in Active, a \in Before(R)[b]
               PROVE  a \in Before(Q)[b]
    OBVIOUS
  <2>1. PICK i \in 1..Len(line), j \in 1..Len(line) : line[i] = a /\ line[j] = b
    BY <1>5 DEF ToSet, Active
  <2>2. R.due[a] < R.due[b] \/ (R.due[a] = R.due[b] /\ i < j)
    BY <1>1, <1>4, <2>1, BeforeIs
  <2>3. a \in Before(Q)[b] <=> Q.due[a] < Q.due[b] \/ (Q.due[a] = Q.due[b] /\ i < j)
    BY <1>1, <2>1, BeforeIs
  <2>4. /\ due'[a] = due[a] - lag - ms /\ due'[b] = due[b] - lag - ms
        /\ due[a] \in Int /\ due[b] \in Int
    BY <1>1, <1>2, <1>5, <2>1
  <2> QED
    BY <1>1, <1>4, <2>2, <2>3, <2>4
<1>7. HeapAs(heap, Before(R), Active)
  BY <1>1, <1>6, HeapReordered
<1>8. \A t \in Nodes \ Active : due'[t] = 0
  BY <1>2
<1>9. QueueOK(R)
  BY <1>1, <1>4, <1>7, <1>8 DEF QueueOK, Active
<1>10. Queue' = R
  BY DEF Queue, R
<1>11. Active' = Active
  BY DEF Active
<1> QED
  BY <1>9, <1>10, <1>11

-----------------------------------------------------------------------------
(* The inductive invariant *)

\* TypeOK but for the heap, the line and the times, of which QueueOK speaks.
ScriptOK ==
    /\ repeat \in [Nodes -> Intervals \cup {0}] /\ callback \in [Nodes -> BOOLEAN]
    /\ made \subseteq Nodes /\ Active \subseteq made
    /\ StartedHaveCallbacks
ClockOK ==
    /\ pc \in {"script", "timers", "callback", "pending", "poll", "handler", "closing", "onclose", "next"}
    /\ cur \in Nodes \cup {Null} /\ (cur # Null <=> pc = "callback")
    /\ lag \in 0..MaxLag /\ timeout \in -1..IntMax
    /\ served \in BOOLEAN /\ closing \in BOOLEAN

\* A timer that has fired in this pass is due later.
FiredWait ==
    /\ fired \subseteq Nodes
    /\ pc \notin {"timers", "callback"} => fired = {}
    /\ \A t \in fired : t \in Active => due[t] > 0

\* None is due after the pass, which is what the poll's timeout is computed from.
NoneDue == pc = "pending" => \A t \in Active : due[t] > 0

TimersInv == QueueOK(Queue) /\ ScriptOK /\ ClockOK /\ FiredWait /\ NoneDue /\ PollEndsInTime

LEMMA InitInv == Init => TimersInv
<1> SUFFICES ASSUME Init PROVE TimersInv
  OBVIOUS
<1>1. /\ heap = EmptyHeap /\ due = [t \in Nodes |-> 0] /\ line = <<>>
      /\ repeat = [t \in Nodes |-> 0] /\ callback = [t \in Nodes |-> FALSE] /\ made = {}
      /\ pc = "script" /\ cur = Null /\ lag = 0 /\ timeout = 0
      /\ served = FALSE /\ closing = FALSE /\ fired = {}
  BY DEF Init
<1>2. line \in Seq(Nodes) /\ ToSet(line) = {} /\ IsInjective(line)
  BY <1>1 DEF ToSet, IsInjective
<1>3. HeapAs(heap, Before(Queue), {}) /\ heap \in Heaps
  BY <1>1, EmptyIsHeap DEF HeapAs
<1>4. QueueOK(Queue)
  <2>1. Queue.line = line /\ Queue.due = due /\ Queue.heap = heap /\ Queue \in Queues
    BY <1>1, <1>2, <1>3 DEF Queue, Queues
  <2>2. \A t \in Nodes \ ToSet(Queue.line) : Queue.due[t] = 0
    BY <1>1, <2>1
  <2> QED
    BY <1>2, <1>3, <2>1, <2>2 DEF QueueOK
<1>5. ScriptOK
  BY <1>1, <1>2 DEF ScriptOK, StartedHaveCallbacks, Active
<1>6. ClockOK
  <2>1. 0 \in 0..MaxLag /\ 0 \in -1..IntMax
    BY TimesAssumption
  <2> QED
    BY <1>1, <2>1, Zenon DEF ClockOK
<1>7. FiredWait /\ NoneDue /\ PollEndsInTime
  BY <1>1 DEF FiredWait, NoneDue, PollEndsInTime
<1> QED
  BY <1>4, <1>5, <1>6, <1>7 DEF TimersInv

\* What the queue invariant says about the variables.
LEMMA QueueFacts ==
    ASSUME QueueOK(Queue)
    PROVE  /\ due \in [Nodes -> Int] /\ line \in Seq(Nodes) /\ IsInjective(line)
           /\ Active \subseteq Nodes /\ HeapAs(heap, Before(Queue), Active)
           /\ \A t \in Nodes \ Active : due[t] = 0
           /\ (line = <<>> <=> Active = {})
<1>1. /\ due \in [Nodes -> Int] /\ line \in Seq(Nodes) /\ IsInjective(line)
      /\ HeapAs(heap, Before(Queue), Active) /\ \A t \in Nodes \ Active : due[t] = 0
  BY DEF QueueOK, Queues, Queue, Active
<1>2. DOMAIN line = 1..Len(line) /\ Len(line) \in Nat /\ \A i \in 1..Len(line) : line[i] \in Nodes
  BY <1>1, LenProperties
<1>3. Active \subseteq Nodes
  BY <1>2 DEF Active, ToSet
<1>4. line = <<>> => Active = {}
  BY DEF Active, ToSet
<1>5. line # <<>> => Len(line) \in Nat \ {0}
  BY <1>1, EmptySeq
<1>6. line # <<>> => Active # {}
  BY <1>2, <1>5 DEF Active, ToSet
<1> QED
  BY <1>1, <1>3, <1>4, <1>6

\* The first node of the heap has the least time left, and is longest in line of those.
LEMMA FirstTimer ==
    ASSUME QueueOK(Queue)
    PROVE  /\ heap.min = Null <=> Active = {}
           /\ heap.min # Null => heap.min \in Active
           /\ \A u \in Active : due[heap.min] <= due[u] /\ u \notin Before(Queue)[heap.min]
<1>1. Ordering(Before(Queue), Active)
  BY BeforeOrders DEF QueueOK, Queue, Active
<1>2. /\ due \in [Nodes -> Int] /\ Active \subseteq Nodes /\ HeapAs(heap, Before(Queue), Active)
  BY QueueFacts
<1>3. /\ Active # {} => heap.min \in Active
      /\ Active = {} <=> heap.min = Null
      /\ \A u \in Active : u \notin Before(Queue)[heap.min]
  BY <1>1, <1>2, MinIsFirst
<1>4. ASSUME NEW u \in Active PROVE due[heap.min] <= due[u]
  <2>1. heap.min \in Nodes /\ u \in Nodes
    BY <1>2, <1>3
  <2>2. ~ (due[u] < due[heap.min])
    BY <1>3, <1>4, <2>1 DEF Before, Queue, Active
  <2> QED
    BY <1>2, <2>1, <2>2
<1> QED
  BY <1>3, <1>4

-----------------------------------------------------------------------------
(* Steps that start or stop a timer: the parts of the invariant they disturb *)

\* A timer that is started keeps the invariant, if what starts it is right.
LEMMA ArmedKeeps ==
    ASSUME TimersInv, NEW t \in Nodes, NEW d \in Int, Armed(t, d), d > 0,
           callback' \in [Nodes -> BOOLEAN], callback'[t],
           repeat' \in [Nodes -> Intervals \cup {0}], made' \subseteq Nodes, t \in made', made \subseteq made',
           \A u \in Nodes : (callback[u] /\ u \in made => callback'[u]) /\ (callback'[u] => repeat'[u] > 0)
    PROVE  ScriptOK' /\ \A u \in fired : u \in Active' => due'[u] > 0
<1>1. Active' = Active \cup {t} /\ due' = [due EXCEPT ![t] = d]
  BY DEF Armed
<1>2. due \in [Nodes -> Int] /\ Active \subseteq made /\ fired \subseteq Nodes /\ Active \subseteq Nodes
  BY QueueFacts DEF TimersInv, ScriptOK, FiredWait
<1>3. \A u \in Nodes : u \in Active => callback[u]
  BY DEF TimersInv, ScriptOK, StartedHaveCallbacks
<1>4. Active' \subseteq made' /\ \A u \in Nodes : u \in Active' => callback'[u]
  BY <1>1, <1>2, <1>3
<1>5. ScriptOK'
  BY <1>4 DEF ScriptOK, StartedHaveCallbacks
<1>6. ASSUME NEW u \in fired, u \in Active' PROVE due'[u] > 0
  <2>1. CASE u = t
    BY <1>1, <1>2, <2>1
  <2>2. CASE u # t
    <3>1. u \in Active /\ u \in Nodes
      BY <1>1, <1>2, <1>6, <2>2
    <3>2. due[u] > 0
      BY <1>6, <3>1 DEF TimersInv, FiredWait
    <3> QED
      BY <1>1, <1>2, <2>2, <3>1, <3>2
  <2> QED
    BY <2>1, <2>2
<1> QED
  BY <1>5, <1>6

\* So does a timer that is stopped.
LEMMA DisarmedKeeps ==
    ASSUME TimersInv, NEW t \in Nodes, Disarmed(t),
           callback' \in [Nodes -> BOOLEAN],
           repeat' \in [Nodes -> Intervals \cup {0}], made' \subseteq Nodes, made \subseteq made',
           \A u \in Nodes : (callback[u] /\ u \in made => callback'[u]) /\ (callback'[u] => repeat'[u] > 0)
    PROVE  ScriptOK' /\ \A u \in fired : u \in Active' => due'[u] > 0
<1>1. Active' = Active \ {t} /\ due' = [due EXCEPT ![t] = 0]
  BY DEF Disarmed
<1>2. due \in [Nodes -> Int] /\ Active \subseteq made /\ fired \subseteq Nodes /\ Active \subseteq Nodes
  BY QueueFacts DEF TimersInv, ScriptOK, FiredWait
<1>3. \A u \in Nodes : u \in Active => callback[u]
  BY DEF TimersInv, ScriptOK, StartedHaveCallbacks
<1>4. Active' \subseteq made' /\ \A u \in Nodes : u \in Active' => callback'[u]
  BY <1>1, <1>2, <1>3
<1>5. ScriptOK'
  BY <1>4 DEF ScriptOK, StartedHaveCallbacks
<1>6. ASSUME NEW u \in fired, u \in Active' PROVE due'[u] > 0
  <2>1. u \in Active /\ u \in Nodes /\ u # t
    BY <1>1, <1>2, <1>6
  <2>2. due[u] > 0
    BY <1>6, <2>1 DEF TimersInv, FiredWait
  <2> QED
    BY <1>1, <1>2, <2>1, <2>2
<1> QED
  BY <1>5, <1>6

-----------------------------------------------------------------------------
(* Steps of the script *)

LuaVars == <<pc, cur, fired, lag, timeout, served, closing>>

\* What a function called from Lua leaves of the invariant alone.
LEMMA LuaLeaves ==
    ASSUME TimersInv, InLua, UNCHANGED LuaVars, QueueOK(Queue)', ScriptOK',
           \A u \in fired : u \in Active' => due'[u] > 0
    PROVE  TimersInv'
<1>1. ClockOK'
  BY DEF TimersInv, ClockOK, LuaVars
<1>2. FiredWait'
  BY DEF TimersInv, FiredWait, LuaVars
<1>3. NoneDue' /\ PollEndsInTime'
  BY DEF InLua, NoneDue, PollEndsInTime, LuaVars
<1> QED
  BY <1>1, <1>2, <1>3 DEF TimersInv

LEMMA Unchanged ==
    ASSUME TimersInv, UNCHANGED <<heap, due, line>>
    PROVE  /\ QueueOK(Queue)' /\ Active' = Active
           /\ \A u \in fired : u \in Active' => due'[u] > 0
<1>1. Queue' = Queue /\ Active' = Active
  BY DEF Queue, Active
<1>2. QueueOK(Queue')
  BY <1>1 DEF TimersInv
<1> QED
  BY <1>1, <1>2 DEF TimersInv, FiredWait

LEMMA ScriptKept ==
    ASSUME TimersInv, UNCHANGED <<repeat, callback, made>>, Active' \subseteq Active
    PROVE  ScriptOK'
  BY DEF TimersInv, ScriptOK, StartedHaveCallbacks

\* What uv_timer_again does with a repeating timer.
LEMMA RepeatIs ==
    ASSUME TimersInv, NEW t \in Nodes
    PROVE  /\ repeat[t] \in Int /\ (callback[t] => repeat[t] > 0 /\ repeat[t] \in Intervals)
           /\ t \in Active => callback[t]
<1>1. repeat[t] \in Intervals \cup {0} /\ (callback[t] => repeat[t] > 0) /\ (t \in Active => callback[t])
  BY DEF TimersInv, ScriptOK, StartedHaveCallbacks
<1>2. repeat[t] \in Int /\ (repeat[t] > 0 => repeat[t] \in Intervals)
  <2>1. repeat[t] \in Intervals \/ repeat[t] = 0
    BY <1>1
  <2>2. Intervals \subseteq Nat
    BY TimesAssumption
  <2>3. CASE repeat[t] \in Intervals
    <3>1. repeat[t] \in Nat
      BY <2>2, <2>3, Zenon
    <3>2. repeat[t] \in Int
      BY <3>1, SMT
    <3> QED
      BY <2>3, <3>2, Zenon
  <2>4. CASE repeat[t] = 0
    BY <2>4, SMT
  <2> QED
    BY <2>1, <2>3, <2>4
<1> QED
  BY <1>1, <1>2, Zenon

LEMMA CreateTimerInv ==
    ASSUME TimersInv, NEW t \in Nodes, NEW interval \in Intervals \cup {0}, CreateTimer(t, interval)
    PROVE  TimersInv'
<1>1. /\ InLua /\ t \notin made /\ made' = made \cup {t}
      /\ repeat' = [repeat EXCEPT ![t] = interval] /\ callback' = [callback EXCEPT ![t] = interval > 0]
      /\ QueueIs(IF interval > 0 THEN UvTimerStart(Queue, t, interval) ELSE Queue)
      /\ UNCHANGED LuaVars
  BY DEF CreateTimer, LuaVars, LoopState
<1>2. /\ QueueOK(Queue) /\ made \subseteq Nodes /\ Active \subseteq made
      /\ repeat \in [Nodes -> Intervals \cup {0}] /\ callback \in [Nodes -> BOOLEAN]
      /\ \A u \in Nodes : (u \in Active => callback[u]) /\ (callback[u] => repeat[u] > 0)
  BY DEF TimersInv, ScriptOK, StartedHaveCallbacks
<1>3. interval \in Int /\ (interval > 0 \/ interval = 0)
  BY TimesAssumption
<1>4. /\ repeat' \in [Nodes -> Intervals \cup {0}]
      /\ made' \subseteq Nodes /\ made \subseteq made' /\ t \in made'
      /\ \A u \in Nodes \ {t} : callback'[u] = callback[u] /\ repeat'[u] = repeat[u]
      /\ repeat'[t] = interval
  BY <1>1, <1>2
<1>5. callback' \in [Nodes -> BOOLEAN] /\ callback'[t] = (interval > 0)
  <2>1. (interval > 0) \in BOOLEAN
    BY <1>3
  <2> QED
    BY <1>1, <1>2, <2>1, Zenon
<1>6. \A u \in Nodes : (callback[u] /\ u \in made => callback'[u]) /\ (callback'[u] => repeat'[u] > 0)
  BY <1>1, <1>2, <1>4, <1>5
<1>7. CASE interval > 0
  <2>1. Armed(t, interval)
    BY <1>1, <1>2, <1>3, <1>7, Starts
  <2>2. callback'[t]
    BY <1>5, <1>7
  <2>3. ScriptOK' /\ \A u \in fired : u \in Active' => due'[u] > 0
    BY <1>3, <1>4, <1>5, <1>6, <1>7, <2>1, <2>2, ArmedKeeps
  <2> QED
    BY <1>1, <2>1, <2>3, LuaLeaves DEF Armed
<1>8. CASE interval = 0
  <2>1. UNCHANGED <<heap, due, line>>
    <3>1. QueueIs(Queue)
      BY <1>1, <1>8
    <3> QED
      BY <3>1 DEF QueueIs, Queue
  <2>2. /\ QueueOK(Queue)' /\ Active' = Active
        /\ \A u \in fired : u \in Active' => due'[u] > 0
    BY <2>1, Unchanged
  <2>3. \A u \in Nodes : u \in Active' => callback'[u]
    BY <1>1, <1>2, <1>4, <2>2
  <2>4. ScriptOK'
    BY <1>2, <1>4, <1>5, <1>6, <2>2, <2>3 DEF ScriptOK, StartedHaveCallbacks
  <2> QED
    BY <1>1, <2>2, <2>4, LuaLeaves
<1> QED
  BY <1>3, <1>7, <1>8

LEMMA TimerStopInv ==
    ASSUME TimersInv, NEW t \in Nodes, TimerStop(t)
    PROVE  TimersInv'
<1>1. /\ InLua /\ QueueIs(UvTimerStop(Queue, t)) /\ UNCHANGED <<repeat, callback, made>> /\ UNCHANGED LuaVars
  BY DEF TimerStop, LuaVars, LoopState
<1>2. Disarmed(t)
  BY <1>1, Stops DEF TimersInv
<1>3. ScriptOK' /\ \A u \in fired : u \in Active' => due'[u] > 0
  BY <1>1, <1>2, DisarmedKeeps DEF TimersInv, ScriptOK, StartedHaveCallbacks
<1> QED
  BY <1>1, <1>2, <1>3, LuaLeaves DEF Disarmed

LEMMA TimerStartInv ==
    ASSUME TimersInv, NEW t \in Nodes, TimerStart(t)
    PROVE  TimersInv'
<1>1. /\ InLua /\ t \in made /\ QueueIs(UvTimerAgain(Queue, t, repeat[t]))
      /\ UNCHANGED <<repeat, callback, made>> /\ UNCHANGED LuaVars
  BY DEF TimerStart, LuaVars, LoopState
<1>2. repeat[t] \in Int /\ (callback[t] => repeat[t] > 0 /\ repeat[t] # 0)
  BY RepeatIs, TimesAssumption
<1>3. IF callback[t] /\ repeat[t] # 0 THEN Armed(t, repeat[t]) ELSE UNCHANGED <<heap, due, line>>
  BY <1>1, <1>2, StartsAgain DEF TimersInv
<1>4. CASE callback[t]
  <2>1. Armed(t, repeat[t])
    BY <1>2, <1>3, <1>4
  <2>2. ScriptOK' /\ \A u \in fired : u \in Active' => due'[u] > 0
    BY <1>1, <1>2, <1>4, <2>1, ArmedKeeps DEF TimersInv, ScriptOK, StartedHaveCallbacks
  <2> QED
    BY <1>1, <2>1, <2>2, LuaLeaves DEF Armed
<1>5. CASE ~ callback[t]
  <2>1. /\ QueueOK(Queue)' /\ Active' = Active
        /\ \A u \in fired : u \in Active' => due'[u] > 0
    BY <1>3, <1>5, Unchanged
  <2> QED
    BY <1>1, <2>1, ScriptKept, LuaLeaves
<1> QED
  BY <1>4, <1>5

LEMMA TimerIntervalInv ==
    ASSUME TimersInv, NEW t \in Nodes, NEW interval \in Intervals, TimerInterval(t, interval)
    PROVE  TimersInv'
<1>1. /\ InLua /\ t \in made /\ repeat' = [repeat EXCEPT ![t] = interval]
      /\ QueueIs(IF t \in Active THEN UvTimerAgain(UvTimerStop(Queue, t), t, interval) ELSE Queue)
      /\ UNCHANGED <<callback, made>> /\ UNCHANGED LuaVars
  BY DEF TimerInterval, LuaVars, LoopState
<1>2. /\ QueueOK(Queue) /\ made \subseteq Nodes /\ Active \subseteq made
      /\ repeat \in [Nodes -> Intervals \cup {0}] /\ callback \in [Nodes -> BOOLEAN]
      /\ \A u \in Nodes : (u \in Active => callback[u]) /\ (callback[u] => repeat[u] > 0)
  BY DEF TimersInv, ScriptOK, StartedHaveCallbacks
<1>3. interval \in Int /\ interval > 0 /\ interval # 0
  BY TimesAssumption
<1>4. /\ repeat' \in [Nodes -> Intervals \cup {0}]
      /\ \A u \in Nodes : (callback[u] /\ u \in made => callback'[u]) /\ (callback'[u] => repeat'[u] > 0)
  BY <1>1, <1>2, <1>3
<1>5. CASE t \in Active
  <2>1. Armed(t, interval)
    BY <1>1, <1>2, <1>3, <1>5, StopsAndStartsAgain
  <2>2. ScriptOK' /\ \A u \in fired : u \in Active' => due'[u] > 0
    BY <1>1, <1>2, <1>3, <1>4, <1>5, <2>1, ArmedKeeps
  <2> QED
    BY <1>1, <2>1, <2>2, LuaLeaves DEF Armed
<1>6. CASE t \notin Active
  <2>1. UNCHANGED <<heap, due, line>>
    <3>1. QueueIs(Queue)
      BY <1>1, <1>6
    <3> QED
      BY <3>1 DEF QueueIs, Queue
  <2>2. /\ QueueOK(Queue)' /\ Active' = Active
        /\ \A u \in fired : u \in Active' => due'[u] > 0
    BY <2>1, Unchanged
  <2>3. ScriptOK'
    BY <1>1, <1>2, <1>4, <2>2 DEF ScriptOK, StartedHaveCallbacks
  <2> QED
    BY <1>1, <2>2, <2>3, LuaLeaves
<1> QED
  BY <1>5, <1>6

LEMMA WorkInv ==
    ASSUME TimersInv, Work
    PROVE  TimersInv'
<1>1. /\ InLua /\ lag < MaxLag /\ lag' = lag + 1
      /\ UNCHANGED <<heap, due, line, repeat, callback, made, pc, cur, timeout, served, closing, fired>>
  BY DEF Work
<1>2. /\ QueueOK(Queue)' /\ Active' = Active
      /\ \A u \in fired : u \in Active' => due'[u] > 0
  BY <1>1, Unchanged
<1>3. ScriptOK'
  BY <1>1, <1>2, ScriptKept
<1>4. ClockOK'
  BY <1>1, TimesAssumption DEF TimersInv, ClockOK
<1>5. FiredWait' /\ NoneDue' /\ PollEndsInTime'
  BY <1>1, <1>2 DEF TimersInv, FiredWait, InLua, NoneDue, PollEndsInTime
<1> QED
  BY <1>2, <1>3, <1>4, <1>5 DEF TimersInv

LEMMA CreateServerInv ==
    ASSUME TimersInv, NEW listens \in BOOLEAN, CreateServer(listens)
    PROVE  TimersInv'
<1>1. /\ InLua /\ served' = (served \/ listens) /\ closing' = (closing \/ ~listens)
      /\ UNCHANGED <<heap, due, line, repeat, callback, made, pc, cur, lag, timeout, fired>>
  BY DEF CreateServer
<1>2. /\ QueueOK(Queue)' /\ Active' = Active
      /\ \A u \in fired : u \in Active' => due'[u] > 0
  BY <1>1, Unchanged
<1>3. ScriptOK'
  BY <1>1, <1>2, ScriptKept
<1>4. ClockOK'
  BY <1>1 DEF TimersInv, ClockOK
<1>5. FiredWait' /\ NoneDue' /\ PollEndsInTime'
  BY <1>1, <1>2 DEF TimersInv, FiredWait, InLua, NoneDue, PollEndsInTime
<1> QED
  BY <1>2, <1>3, <1>4, <1>5 DEF TimersInv

-----------------------------------------------------------------------------
(* Steps of the loop *)

\* The loop reads the clock when no timer has fired in this pass.
LEMMA ClockRead ==
    ASSUME TimersInv, NEW ms \in Int, UpdateTime(ms), fired = {} \/ fired' = {}, UNCHANGED <<heap, line>>,
           UNCHANGED <<repeat, callback, made>>
    PROVE  QueueOK(Queue)' /\ ScriptOK' /\ lag' = 0 /\ Active' = Active
<1>1. QueueOK(Queue)' /\ Active' = Active
  BY TimeMovesOn DEF TimersInv, ClockOK
<1> QED
  BY <1>1, ScriptKept DEF UpdateTime

LEMMA IterateInv ==
    ASSUME TimersInv, Iterate
    PROVE  TimersInv'
<1>1. /\ pc \in {"script", "next"} /\ pc' \in {"timers", "script"} /\ fired' = {}
      /\ UNCHANGED <<heap, line, repeat, callback, made, cur, timeout, served, closing>>
      /\ UpdateTime(0) \/ UNCHANGED <<due, lag>>
  BY DEF Iterate
<1>2. QueueOK(Queue)' /\ ScriptOK' /\ lag' \in 0..MaxLag
  <2>1. CASE UpdateTime(0)
    BY <1>1, <2>1, ClockRead, TimesAssumption
  <2>2. CASE UNCHANGED <<due, lag>>
    BY <1>1, <2>2, Unchanged, ScriptKept DEF TimersInv, ClockOK
  <2> QED
    BY <1>1, <2>1, <2>2
<1>3. ClockOK'
  BY <1>1, <1>2 DEF TimersInv, ClockOK
<1>4. FiredWait' /\ NoneDue' /\ PollEndsInTime'
  BY <1>1 DEF FiredWait, NoneDue, PollEndsInTime
<1> QED
  BY <1>2, <1>3, <1>4 DEF TimersInv

LEMMA RunTimerInv ==
    ASSUME TimersInv, RunTimer
    PROVE  TimersInv' /\ heap.min \in Active /\ Armed(heap.min, repeat[heap.min])
<1> DEFINE m == heap.min
<1>1. /\ pc = "timers" /\ m # Null /\ due[m] <= 0 /\ cur' = m
      /\ QueueIs(UvTimerAgain(UvTimerStop(Queue, m), m, repeat[m]))
      /\ pc' = "callback" /\ fired' = fired \cup {m}
      /\ UNCHANGED <<repeat, callback, made, lag, timeout, served, closing>>
  BY DEF RunTimer, LoopState
<1>2. m \in Active /\ m \in Nodes
  BY <1>1, FirstTimer, QueueFacts DEF TimersInv
<1>3. repeat[m] \in Int /\ callback[m] /\ repeat[m] > 0 /\ repeat[m] # 0
  BY <1>2, RepeatIs, TimesAssumption
<1> HIDE DEF m
<1>4. Armed(m, repeat[m])
  BY <1>1, <1>2, <1>3, StopsAndStartsAgain DEF TimersInv
<1>5. ScriptOK' /\ \A u \in fired : u \in Active' => due'[u] > 0
  BY <1>1, <1>2, <1>3, <1>4, ArmedKeeps DEF TimersInv, ScriptOK, StartedHaveCallbacks
<1>6. due'[m] > 0
  BY <1>2, <1>3, <1>4, QueueFacts DEF TimersInv, Armed
<1>7. FiredWait'
  BY <1>1, <1>2, <1>5, <1>6 DEF TimersInv, FiredWait
<1>8. ClockOK'
  BY <1>1, <1>2 DEF TimersInv, ClockOK
<1>9. NoneDue' /\ PollEndsInTime'
  BY <1>1 DEF NoneDue, PollEndsInTime
<1> QED
  BY <1>2, <1>4, <1>5, <1>7, <1>8, <1>9 DEF TimersInv, Armed, m

LEMMA CallbackReturnsInv ==
    ASSUME TimersInv, CallbackReturns
    PROVE  TimersInv'
<1>1. /\ pc = "callback" /\ pc' = "timers" /\ cur' = Null
      /\ UNCHANGED <<heap, due, line, repeat, callback, made, fired, lag, timeout, served, closing>>
  BY DEF CallbackReturns, LoopState
<1>2. /\ QueueOK(Queue)' /\ Active' = Active
      /\ \A u \in fired : u \in Active' => due'[u] > 0
  BY <1>1, Unchanged
<1>3. ScriptOK'
  BY <1>1, <1>2, ScriptKept
<1>4. ClockOK' /\ FiredWait' /\ NoneDue' /\ PollEndsInTime'
  BY <1>1, <1>2 DEF TimersInv, ClockOK, FiredWait, NoneDue, PollEndsInTime
<1> QED
  BY <1>2, <1>3, <1>4 DEF TimersInv

LEMMA HandlerReturnsInv ==
    ASSUME TimersInv, HandlerReturns
    PROVE  TimersInv'
<1>1. /\ pc \in {"handler", "onclose"} /\ pc' \in {"closing", "next"}
      /\ UNCHANGED <<heap, due, line, repeat, callback, made, cur, fired, lag, timeout, served, closing>>
  BY DEF HandlerReturns, LoopState
<1>2. /\ QueueOK(Queue)' /\ Active' = Active
      /\ \A u \in fired : u \in Active' => due'[u] > 0
  BY <1>1, Unchanged
<1>3. ScriptOK'
  BY <1>1, <1>2, ScriptKept
<1>4. ClockOK' /\ FiredWait' /\ NoneDue' /\ PollEndsInTime'
  BY <1>1, <1>2 DEF TimersInv, ClockOK, FiredWait, NoneDue, PollEndsInTime
<1> QED
  BY <1>2, <1>3, <1>4 DEF TimersInv

LEMMA TimersRunInv ==
    ASSUME TimersInv, TimersRun
    PROVE  TimersInv' /\ \A t \in Active : due[t] > 0
<1>1. /\ pc = "timers" /\ (heap.min # Null => due[heap.min] > 0) /\ pc' = "pending" /\ fired' = {}
      /\ UNCHANGED <<heap, due, line, repeat, callback, made, cur, lag, timeout, served, closing>>
  BY DEF TimersRun, LoopState
<1>2. QueueOK(Queue)' /\ Active' = Active
  BY <1>1, Unchanged
<1>3. ScriptOK'
  BY <1>1, <1>2, ScriptKept
<1>4. \A t \in Active : due[t] > 0
  <2>1. /\ heap.min = Null <=> Active = {}
        /\ heap.min # Null => heap.min \in Active
        /\ \A u \in Active : due[heap.min] <= due[u]
        /\ due \in [Nodes -> Int] /\ Active \subseteq Nodes
    BY FirstTimer, QueueFacts DEF TimersInv
  <2> QED
    BY <1>1, <2>1
<1>5. ClockOK' /\ FiredWait' /\ NoneDue' /\ PollEndsInTime'
  BY <1>1, <1>2, <1>4 DEF TimersInv, ClockOK, FiredWait, NoneDue, PollEndsInTime
<1> QED
  BY <1>2, <1>3, <1>4, <1>5 DEF TimersInv

LEMMA RunPendingInv ==
    ASSUME TimersInv, NEW closes \in BOOLEAN, NEW own \in {-1} \cup 1..IntMax, RunPending(closes, own)
    PROVE  TimersInv'
<1> DEFINE m == heap.min
<1>1. /\ pc = "pending" /\ ((closes \/ own # -1) => served)
      /\ closing' = (closing \/ closes) /\ timeout' = UvBackendTimeout(own, closing')
      /\ pc' = "poll"
      /\ UNCHANGED <<heap, due, line, repeat, callback, made, cur, lag, served, fired>>
  BY DEF RunPending
<1>2. QueueOK(Queue)' /\ Active' = Active
  BY <1>1, Unchanged
<1>3. ScriptOK'
  BY <1>1, <1>2, ScriptKept
<1>4. /\ m = Null <=> Active = {}
      /\ m # Null => m \in Active
      /\ \A u \in Active : due[m] <= due[u]
  BY FirstTimer DEF TimersInv
<1>5. due \in [Nodes -> Int] /\ Active \subseteq Nodes /\ (line = <<>> <=> Active = {})
  BY QueueFacts DEF TimersInv
<1>6. UvNextTimeout = IF m = Null THEN -1 ELSE IF due[m] <= 0 THEN 0
                      ELSE IF due[m] > IntMax THEN IntMax ELSE due[m]
  BY Zenon DEF UvNextTimeout
<1>7. IntMax \in Nat /\ IntMax > 0 /\ closing' \in BOOLEAN
  BY <1>1, TimesAssumption DEF TimersInv, ClockOK
<1>8. timeout' = IF (line # <<>> \/ served) /\ ~closing' THEN Sooner(UvNextTimeout, own) ELSE 0
  BY <1>1 DEF UvBackendTimeout, Busy
<1> HIDE DEF m
<1>9. \A t \in Active : due[t] > 0 /\ due[t] \in Int
  BY <1>1, <1>5 DEF TimersInv, NoneDue
<1>10. own \in Int /\ (own = -1 \/ (own > 0 /\ own <= IntMax))
  BY <1>7
<1>11. FiredWait' /\ NoneDue'
  BY <1>1 DEF TimersInv, FiredWait, NoneDue
<1>12. timeout' \in -1..IntMax /\ PollEndsInTime'
  <2>1. CASE closing' \/ (line = <<>> /\ ~served)
    <3>1. timeout' = 0
      BY <1>8, <2>1
    <3>2. \A t \in Active : timeout' <= due[t]
      BY <1>9, <3>1
    <3> QED
      BY <1>1, <1>2, <1>7, <2>1, <3>1, <3>2 DEF PollEndsInTime
  <2>2. CASE ~closing' /\ line = <<>> /\ served
    <3>1. UvNextTimeout = -1
      BY <1>4, <1>5, <1>6, <2>2
    <3>2. timeout' = own
      BY <1>8, <1>10, <2>2, <3>1 DEF Sooner
    <3> QED
      BY <1>1, <1>7, <1>10, <2>2, <3>2 DEF PollEndsInTime
  <2>3. CASE ~closing' /\ line # <<>>
    <3>1. m \in Active /\ due[m] > 0 /\ due[m] \in Int /\ m # Null
      BY <1>4, <1>5, <1>9, <2>3
    <3>2. /\ UvNextTimeout \in Int /\ UvNextTimeout > 0 /\ UvNextTimeout <= IntMax /\ UvNextTimeout <= due[m]
          /\ UvNextTimeout < IntMax => UvNextTimeout = due[m]
      BY <1>6, <1>7, <3>1
    <3>3. timeout' = Sooner(UvNextTimeout, own)
      BY <1>8, <2>3
    <3>4. /\ timeout' \in Int /\ timeout' > 0 /\ timeout' <= UvNextTimeout
          /\ own = -1 => timeout' = UvNextTimeout
      BY <1>10, <3>2, <3>3 DEF Sooner
    <3>5. \A t \in Active : timeout' <= due[t]
      BY <1>4, <1>9, <3>1, <3>2, <3>4
    <3>6. ~served /\ timeout' < IntMax => timeout' = due[m]
      BY <1>1, <3>2, <3>4
    <3>7. timeout' \in -1..IntMax /\ timeout' # -1
      BY <1>7, <3>2, <3>4
    <3> QED
      BY <1>1, <1>2, <2>3, <3>1, <3>4, <3>5, <3>6, <3>7 DEF PollEndsInTime
  <2> QED
    BY <1>7, <2>1, <2>2, <2>3
<1>13. ClockOK'
  BY <1>1, <1>7, <1>12 DEF TimersInv, ClockOK
<1> QED
  BY <1>2, <1>3, <1>11, <1>12, <1>13 DEF TimersInv

LEMMA RunClosingInv ==
    ASSUME TimersInv, NEW runs \in BOOLEAN, RunClosing(runs)
    PROVE  TimersInv'
<1>1. /\ pc = "closing" /\ closing' = FALSE /\ pc' \in {"onclose", "next"}
      /\ UNCHANGED <<heap, due, line, repeat, callback, made, cur, lag, timeout, served, fired>>
  BY DEF RunClosing
<1>2. QueueOK(Queue)' /\ Active' = Active
  BY <1>1, Unchanged
<1>3. ScriptOK'
  BY <1>1, <1>2, ScriptKept
<1>4. ClockOK' /\ FiredWait' /\ NoneDue' /\ PollEndsInTime'
  BY <1>1, <1>2 DEF TimersInv, ClockOK, FiredWait, NoneDue, PollEndsInTime
<1> QED
  BY <1>2, <1>3, <1>4 DEF TimersInv

LEMMA PollInv ==
    ASSUME TimersInv, NEW ms \in Polls, PollReturns(ms)
    PROVE  TimersInv'
<1>1. /\ pc = "poll" /\ UpdateTime(ms) /\ pc' \in {"closing", "handler"} /\ timeout' = 0
      /\ UNCHANGED <<heap, line, repeat, callback, made, cur, served, fired>>
      /\ closing' = closing \/ \E closes \in BOOLEAN : closing' = (closing \/ closes)
  BY DEF PollReturns, PollTimesOut, PollHasEvent
<1>2. ms \in Int /\ 0 \in 0..MaxLag /\ 0 \in -1..IntMax
  BY TimesAssumption DEF Polls
<1>3. fired = {}
  BY <1>1 DEF TimersInv, FiredWait
<1>4. QueueOK(Queue)' /\ ScriptOK' /\ lag' = 0
  BY <1>1, <1>2, <1>3, ClockRead
<1>5. ClockOK'
  BY <1>1, <1>2, <1>4 DEF TimersInv, ClockOK
<1>6. FiredWait' /\ NoneDue' /\ PollEndsInTime'
  BY <1>1, <1>3 DEF FiredWait, NoneDue, PollEndsInTime
<1> QED
  BY <1>4, <1>5, <1>6 DEF TimersInv

-----------------------------------------------------------------------------
(* The theorems *)

\* Each step keeps the invariant.
LEMMA NextInv == TimersInv /\ [Next]_tmVars => TimersInv'
<1> SUFFICES ASSUME TimersInv, [Next]_tmVars PROVE TimersInv'
  OBVIOUS
<1>1. CASE ScriptStep
  BY <1>1, WorkInv, CreateServerInv, TimerStopInv, TimerStartInv, CreateTimerInv, TimerIntervalInv DEF ScriptStep
<1>2. CASE LoopStep
  BY <1>2, IterateInv, RunTimerInv, CallbackReturnsInv, TimersRunInv, RunPendingInv, PollInv, HandlerReturnsInv,
     RunClosingInv DEF LoopStep
<1>3. CASE UNCHANGED tmVars
  <2>1. UNCHANGED <<heap, due, line>> /\ UNCHANGED <<repeat, callback, made>>
        /\ UNCHANGED <<pc, cur, lag, timeout, served, closing, fired>>
    BY <1>3 DEF tmVars
  <2>2. QueueOK(Queue)' /\ Active' = Active
    BY <2>1, Unchanged
  <2>3. ScriptOK'
    BY <2>1, <2>2, ScriptKept
  <2>4. ClockOK' /\ FiredWait' /\ NoneDue' /\ PollEndsInTime'
    BY <2>1, <2>2 DEF TimersInv, ClockOK, FiredWait, NoneDue, PollEndsInTime
  <2> QED
    BY <2>2, <2>3, <2>4 DEF TimersInv
<1> QED
  BY <1>1, <1>2, <1>3 DEF Next

\* The invariant holds for ever.
LEMMA SpecInv == TimersSpec => []TimersInv
  BY InitInv, NextInv, PTL DEF TimersSpec

\* Handles, clock and heap keep their types: the poll timeout is an int of at least -1,
\* the heap counts no more nodes than there are, and a timer not in it has no time left.
THEOREM TimersAreTyped == TimersSpec => []TypeOK
<1>1. TimersInv => TypeOK
  <2> SUFFICES ASSUME TimersInv PROVE TypeOK
    OBVIOUS
  <2>1. /\ due \in [Nodes -> Int] /\ line \in Seq(Nodes) /\ IsInjective(line)
        /\ HeapAs(heap, Before(Queue), Active)
        /\ \A t \in Nodes \ Active : due[t] = 0
    BY QueueFacts DEF TimersInv
  <2>2. heap.nelts \in 0..Cardinality(Nodes)
    BY <2>1, HeapFits, NodesAssumption
  <2>3. /\ heap.min \in Nodes \cup {Null}
        /\ \A f \in {heap.left, heap.right, heap.parent} : f \in [Nodes -> Nodes \cup {Null}]
    BY <2>1 DEF HeapAs, Heaps, Pointers, Links
  <2>4. ScriptOK /\ ClockOK /\ fired \subseteq Nodes
    BY DEF TimersInv, FiredWait
  <2> QED
    BY <2>1, <2>2, <2>3, <2>4 DEF TypeOK, ScriptOK, ClockOK
<1> QED
  BY <1>1, SpecInv, PTL

\* Through all starts, stops, restarts and passes the tree of the loop's timers stays a
\* heap of just the active ones, in the order of timer_less_than.
THEOREM TimerTreeIsHeap == TimersSpec => []TreeIsHeap
<1>1. TimersInv => TreeIsHeap
  BY QueueFacts, HeapIsHeap DEF TimersInv, TreeIsHeap
<1> QED
  BY <1>1, SpecInv, PTL

\* create_timer leaves timer_cb unset only where the timer is not started, and
\* uv_timer_again starts none without it: uv__run_timers never calls a null pointer.
THEOREM StartedTimersHaveCallbacks == TimersSpec => []StartedHaveCallbacks
<1>1. TimersInv => StartedHaveCallbacks
  BY DEF TimersInv, ScriptOK
<1> QED
  BY <1>1, SpecInv, PTL

\* uv_backend_timeout: a poll with handles to close does not wait; while timers are active
\* none waits, by the loop's clock, past the first or for ever, and, with nothing to close,
\* none returns at once; without a server its timeout is the first timer's time or INT_MAX.
THEOREM PollNeverOversleeps == TimersSpec => []PollEndsInTime
<1>1. TimersInv => PollEndsInTime
  BY DEF TimersInv
<1> QED
  BY <1>1, SpecInv, PTL

-----------------------------------------------------------------------------
(* The refinement: each step starts a timer, stops one, lets time pass, fires the  *)
(* first, ends a pass, or changes nothing TimerQueue knows of                      *)

\* The helpers of TimerQueue are those of Timers.
LEMMA QueueHelpers ==
    /\ \A s : Queued!ToSet(s) = ToSet(s)
    /\ \A s, t : Queued!RemoveFirst(s, t) = RemoveFirst(s, t)
<1>1. \A s : Queued!ToSet(s) = ToSet(s)
  BY DEF ToSet, Queued!ToSet
<1>2. \A s, t : Queued!RemoveFirst(s, t) = RemoveFirst(s, t)
  BY DEF RemoveFirst, RemoveAt, SelectInSeq, Min, Queued!RemoveFirst, Queued!RemoveAt, Queued!SelectInSeq, Queued!Min
<1> QED
  BY <1>1, <1>2

InPass == pc \in {"timers", "callback"}

LEMMA ArmedIsArm ==
    ASSUME NEW t \in Nodes, NEW d \in Intervals, Armed(t, d), UNCHANGED LuaVars
    PROVE  Queued!QNext
<1>1. Queued!Arm(t, d)
  <2>1. line' = Append(Queued!RemoveFirst(line, t), t) /\ due' = [due EXCEPT ![t] = d]
    BY QueueHelpers DEF Armed
  <2>2. (pc \in {"timers", "callback"})' = (pc \in {"timers", "callback"}) /\ fired' = fired
    BY DEF LuaVars
  <2> QED
    BY <2>1, <2>2 DEF Queued!Arm
<1> QED
  BY <1>1 DEF Queued!QNext

LEMMA DisarmedIsDisarm ==
    ASSUME NEW t \in Nodes, Disarmed(t), UNCHANGED LuaVars
    PROVE  Queued!QNext
<1>1. Queued!Disarm(t)
  <2>1. line' = Queued!RemoveFirst(line, t) /\ due' = [due EXCEPT ![t] = 0]
    BY QueueHelpers DEF Disarmed
  <2>2. (pc \in {"timers", "callback"})' = (pc \in {"timers", "callback"}) /\ fired' = fired
    BY DEF LuaVars
  <2> QED
    BY <2>1, <2>2 DEF Queued!Disarm
<1> QED
  BY <1>1 DEF Queued!QNext

\* A step that leaves the queue alone is a stutter of TimerQueue.
LEMMA QueueStutters ==
    ASSUME UNCHANGED <<line, due, fired>>, InPass' = InPass
    PROVE  UNCHANGED Queued!queueVars
  BY DEF InPass, Queued!queueVars

LEMMA ClockReadIsTime ==
    ASSUME TimersInv, NEW ms \in Nat, UpdateTime(ms), ~ InPass, fired' = {}, UNCHANGED line
    PROVE  Queued!QNext
<1>1. due \in [Nodes -> Int] /\ Active \subseteq Nodes /\ lag \in Nat /\ ms \in Int
  BY QueueFacts, TimesAssumption DEF TimersInv, ClockOK
<1>2. due' = [t \in Nodes |-> IF t \in Active THEN due[t] - lag - ms ELSE 0]
  BY DEF UpdateTime
<1>3. \A t \in Active : due'[t] = due[t] - lag - ms /\ due[t] \in Int
  BY <1>1, <1>2
<1>4. \A t \in Active : due'[t] <= due[t]
  BY <1>1, <1>3
<1>5. \A t, u \in Active : due[t] - due'[t] = due[u] - due'[u]
  BY <1>1, <1>3
<1>6. \A t \in Nodes \ Active : due'[t] = 0
  BY <1>2
<1>7. Active = Queued!ToSet(line)
  BY QueueHelpers DEF Active
<1>8. (pc \in {"timers", "callback"})' \in BOOLEAN
  OBVIOUS
<1>9. Queued!TimePasses
  BY <1>4, <1>5, <1>6, <1>7, <1>8 DEF Queued!TimePasses, InPass
<1> QED
  BY <1>9 DEF Queued!QNext

LEMMA IterateIsTime ==
    ASSUME TimersInv, Iterate
    PROVE  Queued!QNext
<1>1. /\ pc \in {"script", "next"} /\ fired' = {} /\ line' = line
      /\ UpdateTime(0) \/ UNCHANGED <<due, lag>>
  BY DEF Iterate
<1>2. ~ InPass
  BY <1>1 DEF InPass
<1>3. CASE UpdateTime(0)
  BY <1>1, <1>2, <1>3, ClockReadIsTime
<1>4. CASE UNCHANGED <<due, lag>>
  <2>1. due \in [Nodes -> Int] /\ Active \subseteq Nodes /\ \A t \in Nodes \ Active : due[t] = 0
    BY QueueFacts DEF TimersInv
  <2>2. /\ \A t \in Active : due'[t] <= due[t]
        /\ \A t, u \in Active : due[t] - due'[t] = due[u] - due'[u]
        /\ \A t \in Nodes \ Active : due'[t] = 0
    BY <1>4, <2>1
  <2>3. Active = Queued!ToSet(line)
    BY QueueHelpers DEF Active
  <2>4. (pc \in {"timers", "callback"})' \in BOOLEAN
    OBVIOUS
  <2>5. Queued!TimePasses
    BY <1>1, <1>2, <2>2, <2>3, <2>4 DEF Queued!TimePasses, InPass
  <2> QED
    BY <2>5 DEF Queued!QNext
<1> QED
  BY <1>1, <1>3, <1>4

LEMMA RunTimerIsFire ==
    ASSUME TimersInv, RunTimer
    PROVE  Queued!QNext
<1> DEFINE m == heap.min
<1>1. /\ pc = "timers" /\ m # Null /\ due[m] <= 0 /\ pc' = "callback" /\ fired' = fired \cup {m}
  BY DEF RunTimer
<1>2. m \in Active /\ Armed(m, repeat[m])
  BY RunTimerInv
<1>3. /\ \A u \in Active : due[m] <= due[u] /\ u \notin Before(Queue)[m]
  BY FirstTimer DEF TimersInv
<1>4. /\ due \in [Nodes -> Int] /\ line \in Seq(Nodes) /\ IsInjective(line) /\ Active \subseteq Nodes
  BY QueueFacts DEF TimersInv
<1>5. repeat[m] \in Intervals
  BY <1>2, <1>4, RepeatIs
<1>6. m \notin fired
  BY <1>1, <1>2, <1>4 DEF TimersInv, FiredWait
<1> HIDE DEF m
<1>7. Active = Queued!ToSet(line)
  BY QueueHelpers DEF Active
<1> DEFINE pos(x) == CHOOSE i \in DOMAIN line : line[i] = x
<1>8. ASSUME NEW u \in Active PROVE Queued!InFront(m, u)
  <2>1. DOMAIN line = 1..Len(line) /\ Len(line) \in Nat
    BY <1>4, LenProperties
  <2>2. PICK i \in 1..Len(line), j \in 1..Len(line) : line[i] = m /\ line[j] = u
    BY <1>2, <1>8, <2>1 DEF Active, ToSet
  <2>3. pos(m) = i /\ pos(u) = j
    BY <1>4, <2>1, <2>2 DEF IsInjective
  <2> HIDE DEF pos
  <2>4. Queue \in Queues /\ Queue.line = line /\ Queue.due = due
    BY DEF TimersInv, QueueOK, Queue
  <2>5. u \in Before(Queue)[m] <=> due[u] < due[m] \/ (due[u] = due[m] /\ j < i)
    BY <1>4, <2>2, <2>4, BeforeIs
  <2>6. due[m] <= due[u] /\ ~ (due[u] = due[m] /\ j < i) /\ due[m] \in Int /\ due[u] \in Int
    BY <1>2, <1>3, <1>4, <1>8, <2>5
  <2>7. due[m] < due[u] \/ (due[m] = due[u] /\ pos(m) <= pos(u))
    BY <2>1, <2>3, <2>6
  <2> QED
    BY <2>7 DEF Queued!InFront, pos
<1> HIDE DEF pos
<1>9. line' = Append(Queued!RemoveFirst(line, m), m) /\ due' = [due EXCEPT ![m] = repeat[m]]
  BY <1>2, QueueHelpers DEF Armed
<1>10. Queued!Fire(m)
  <2>1. m \in Queued!ToSet(line) \ fired /\ \A u \in Queued!ToSet(line) : Queued!InFront(m, u)
    BY <1>2, <1>6, <1>7, <1>8
  <2>2. \E d \in Intervals : due' = [due EXCEPT ![m] = d]
    BY <1>5, <1>9
  <2>3. pc \in {"timers", "callback"} /\ (pc \in {"timers", "callback"})' = (pc \in {"timers", "callback"})
    BY <1>1
  <2> QED
    BY <1>1, <1>9, <2>1, <2>2, <2>3, Zenon DEF Queued!Fire
<1> QED
  BY <1>2, <1>4, <1>10 DEF Queued!QNext

LEMMA TimersRunIsEnd ==
    ASSUME TimersInv, TimersRun
    PROVE  Queued!QNext
<1>1. pc = "timers" /\ pc' = "pending" /\ fired' = {} /\ UNCHANGED <<line, due>>
  BY DEF TimersRun
<1>2. \A t \in Active : due[t] > 0
  BY TimersRunInv
<1>3. Active = Queued!ToSet(line)
  BY QueueHelpers DEF Active
<1>4. Queued!EndPass
  BY <1>1, <1>2, <1>3 DEF Queued!EndPass
<1> QED
  BY <1>4 DEF Queued!QNext

LEMMA ScriptStepQueues ==
    ASSUME TimersInv, ScriptStep
    PROVE  Queued!QNext \/ UNCHANGED Queued!queueVars
<1>1. CASE Work
  <2>1. UNCHANGED <<line, due, fired>> /\ pc' = pc
    BY <1>1 DEF Work
  <2> QED
    BY <2>1, QueueStutters DEF InPass
<1>2. ASSUME NEW t \in Nodes, TimerStop(t) PROVE Queued!QNext
  <2>1. QueueIs(UvTimerStop(Queue, t)) /\ UNCHANGED LuaVars
    BY <1>2 DEF TimerStop, LuaVars, LoopState
  <2> QED
    BY <2>1, Stops, DisarmedIsDisarm DEF TimersInv
<1>3. ASSUME NEW t \in Nodes, TimerStart(t) PROVE Queued!QNext \/ UNCHANGED Queued!queueVars
  <2>1. QueueIs(UvTimerAgain(Queue, t, repeat[t])) /\ UNCHANGED LuaVars
    BY <1>3 DEF TimerStart, LuaVars, LoopState
  <2>2. repeat[t] \in Int /\ (callback[t] => repeat[t] \in Intervals)
    BY RepeatIs
  <2>3. IF callback[t] /\ repeat[t] # 0 THEN Armed(t, repeat[t]) ELSE UNCHANGED <<heap, due, line>>
    BY <2>1, <2>2, StartsAgain DEF TimersInv
  <2>4. CASE callback[t] /\ repeat[t] # 0
    BY <2>1, <2>2, <2>3, <2>4, ArmedIsArm
  <2>5. CASE ~ (callback[t] /\ repeat[t] # 0)
    BY <2>1, <2>3, <2>5, QueueStutters DEF InPass, LuaVars
  <2> QED
    BY <2>4, <2>5
<1>4. ASSUME NEW t \in Nodes, NEW interval \in Intervals \cup {0}, CreateTimer(t, interval)
      PROVE  Queued!QNext \/ UNCHANGED Queued!queueVars
  <2>1. /\ QueueIs(IF interval > 0 THEN UvTimerStart(Queue, t, interval) ELSE Queue)
        /\ UNCHANGED LuaVars
    BY <1>4 DEF CreateTimer, LuaVars, LoopState
  <2>2. interval \in Int /\ ((interval \in Intervals /\ interval > 0) \/ interval = 0)
    BY TimesAssumption
  <2>3. CASE interval \in Intervals /\ interval > 0
    BY <2>1, <2>2, <2>3, Starts, ArmedIsArm DEF TimersInv
  <2>4. CASE interval = 0
    <3>1. QueueIs(Queue)
      BY <2>1, <2>4
    <3>2. UNCHANGED <<line, due, fired>> /\ pc' = pc
      BY <2>1, <3>1 DEF QueueIs, Queue, LuaVars
    <3> QED
      BY <3>2, QueueStutters DEF InPass
  <2> QED
    BY <2>2, <2>3, <2>4
<1>5. ASSUME NEW t \in Nodes, NEW interval \in Intervals, TimerInterval(t, interval)
      PROVE  Queued!QNext \/ UNCHANGED Queued!queueVars
  <2>1. /\ QueueIs(IF t \in Active THEN UvTimerAgain(UvTimerStop(Queue, t), t, interval) ELSE Queue)
        /\ UNCHANGED LuaVars
    BY <1>5 DEF TimerInterval, LuaVars, LoopState
  <2>2. interval \in Int
    BY TimesAssumption
  <2>3. CASE t \in Active
    <3>1. IF callback[t] /\ interval # 0 THEN Armed(t, interval) ELSE Disarmed(t)
      BY <2>1, <2>2, <2>3, StopsAndStartsAgain DEF TimersInv
    <3> QED
      BY <2>1, <3>1, ArmedIsArm, DisarmedIsDisarm
  <2>4. CASE t \notin Active
    <3>1. QueueIs(Queue)
      BY <2>1, <2>4
    <3>2. UNCHANGED <<line, due, fired>> /\ pc' = pc
      BY <2>1, <3>1 DEF QueueIs, Queue, LuaVars
    <3> QED
      BY <3>2, QueueStutters DEF InPass
  <2> QED
    BY <2>3, <2>4
<1>6. ASSUME NEW listens \in BOOLEAN, CreateServer(listens) PROVE UNCHANGED Queued!queueVars
  <2>1. UNCHANGED <<line, due, fired>> /\ pc' = pc
    BY <1>6 DEF CreateServer
  <2> QED
    BY <2>1, QueueStutters DEF InPass
<1> QED
  BY <1>1, <1>2, <1>3, <1>4, <1>5, <1>6 DEF ScriptStep

LEMMA LoopStepQueues ==
    ASSUME TimersInv, LoopStep
    PROVE  Queued!QNext \/ UNCHANGED Queued!queueVars
<1>1. CASE CallbackReturns
  <2>1. UNCHANGED <<line, due, fired>> /\ pc = "callback" /\ pc' = "timers"
    BY <1>1 DEF CallbackReturns
  <2> QED
    BY <2>1, QueueStutters DEF InPass
<1>2. CASE HandlerReturns
  <2>1. UNCHANGED <<line, due, fired>> /\ pc \in {"handler", "onclose"} /\ pc' \in {"closing", "next"}
    BY <1>2 DEF HandlerReturns
  <2> QED
    BY <2>1, QueueStutters DEF InPass
<1>3. ASSUME NEW ms \in Polls, PollReturns(ms) PROVE Queued!QNext
  <2>1. /\ pc = "poll" /\ UpdateTime(ms) /\ UNCHANGED <<line, fired>>
    BY <1>3 DEF PollReturns, PollTimesOut, PollHasEvent
  <2>2. fired' = {} /\ ~ InPass /\ ms \in Nat
    BY <2>1, TimesAssumption DEF TimersInv, FiredWait, InPass, Polls
  <2> QED
    BY <2>1, <2>2, ClockReadIsTime
<1>4. ASSUME NEW closes \in BOOLEAN, NEW own \in {-1} \cup 1..IntMax, RunPending(closes, own)
      PROVE  UNCHANGED Queued!queueVars
  <2>1. UNCHANGED <<line, due, fired>> /\ pc = "pending" /\ pc' = "poll"
    BY <1>4 DEF RunPending
  <2> QED
    BY <2>1, QueueStutters DEF InPass
<1>5. ASSUME NEW runs \in BOOLEAN, RunClosing(runs) PROVE UNCHANGED Queued!queueVars
  <2>1. UNCHANGED <<line, due, fired>> /\ pc = "closing" /\ pc' \in {"onclose", "next"}
    BY <1>5 DEF RunClosing
  <2> QED
    BY <2>1, QueueStutters DEF InPass
<1> QED
  BY <1>1, <1>2, <1>3, <1>4, <1>5, IterateIsTime, RunTimerIsFire, TimersRunIsEnd DEF LoopStep

\* uv__run_timers on the heap is TimerQueue: in a pass the due timers fire, the longest
\* due first and those due alike in the order of start_id, none twice, none left.
THEOREM TimersImplementQueue == TimersSpec => TimersFireInOrder
<1>1. Init => Queued!QInit
  BY DEF Init, Queued!QInit
<1>2. TimersInv /\ [Next]_tmVars => [Queued!QNext]_(Queued!queueVars)
  <2>1. ASSUME TimersInv, UNCHANGED tmVars PROVE UNCHANGED Queued!queueVars
    BY <2>1 DEF tmVars, Queued!queueVars
  <2> QED
    BY <2>1, ScriptStepQueues, LoopStepQueues DEF Next
<1> QED
  BY <1>1, <1>2, SpecInv, PTL DEF TimersSpec, TimersFireInOrder, Queued!QueueSpec
=============================================================================
