---------------------------- MODULE MinHeapProofs ----------------------------
(* Theorems about MinHeap: its pointers and its order, for any nodes, times *)
(* and first allocation, and that it implements IdleSet.                    *)
EXTENDS MinHeap, TLAPS, WellFoundedInduction

\* The parent of a slot is the slot both its children name.
LEMMA ParentOf ==
    \A i \in Nat \ {0} :
        /\ Parent(i) \in Nat /\ Parent(i) < i
        /\ \A h \in Nat : Parent(i) = h <=> i = 2 * h + 1 \/ i = 2 * h + 2
<1> SUFFICES ASSUME NEW i \in Nat, i # 0
             PROVE  /\ Parent(i) \in Nat /\ Parent(i) < i
                    /\ \A h \in Nat : Parent(i) = h <=> i = 2 * h + 1 \/ i = 2 * h + 2
  OBVIOUS
<1> QED
  BY SMTT(20) DEF Parent

\* Every non-empty set of naturals has a least element.
LEMMA MinimalOf ==
    ASSUME NEW R, IsWellFoundedOn(R, Nat), NEW S, S \subseteq Nat, S # {}
    PROVE  \E m \in S : \A k \in S : ~ (<<k, m>> \in R)
  BY WFMin, Zenon

LEMMA LeastOf ==
    ASSUME NEW R, IsWellFoundedOn(R, Nat),
           \A k, m \in Nat : k < m => <<k, m>> \in R,
           NEW S, S \subseteq Nat, S # {}
    PROVE  \E m \in S : \A k \in S : m <= k
<1>1. PICK m \in S : \A k \in S : ~ (<<k, m>> \in R)
  BY MinimalOf, Zenon
<1>2. ASSUME NEW k \in S PROVE m <= k
  <2>1. m \in Nat /\ k \in Nat /\ ~ (k < m)
    BY <1>1, <1>2, Zenon
  <2> QED
    BY <2>1, SMT
<1> QED
  BY <1>2, Zenon

LEMMA LeastNat == ASSUME NEW S, S \subseteq Nat, S # {}
                  PROVE  \E m \in S : \A k \in S : m <= k
<1>1. \A k, m \in Nat : k < m => <<k, m>> \in OpToRel(<, Nat)
  BY DEF OpToRel
<1> QED
  BY <1>1, NatLessThanWellFounded, LeastOf, Zenon
-----------------------------------------------------------------------------
(* One lemma per action: it preserves the inductive invariant. *)

LEMMA PushKeeps ==
    ASSUME HeapInv, NEW x \in Nodes, NEW t \in Times, Push(x, t)
    PROVE  HeapInv'
<1> USE DEF HeapInv
<1>t. HeapTypeOK'
  BY HeapAssumption, ParentOf DEF Push, Reserve, Doubled, HeapTypeOK, PointerInv, OrderInv, PlaceInv, Filled
<1>p. PointerInv'
  BY HeapAssumption, ParentOf DEF Push, Reserve, Doubled, HeapTypeOK, PointerInv, OrderInv, PlaceInv, Filled
<1>o. OrderInv'
  BY HeapAssumption, ParentOf DEF Push, Reserve, Doubled, HeapTypeOK, PointerInv, OrderInv, PlaceInv, Filled
<1>l. PlaceInv'
  BY HeapAssumption, ParentOf DEF Push, Reserve, Doubled, HeapTypeOK, PointerInv, OrderInv, PlaceInv, Filled
<1> QED
  BY <1>t, <1>p, <1>o, <1>l

LEMMA AdjustKeeps ==
    ASSUME HeapInv, NEW x \in Nodes, NEW t \in Times, Adjust(x, t)
    PROVE  HeapInv'
<1> DEFINE h == idx[x]
<1>1. /\ h \in 0..n - 1 /\ p[h] = x /\ pc = "rest" /\ n \in Nat
      /\ \A i \in 0..n - 1 : p[i] \in Nodes /\ idx[p[i]] = i
  BY HeapAssumption DEF HeapInv, HeapTypeOK, PointerInv, PlaceInv, Filled, Adjust
<1>2. /\ ev' = [ev EXCEPT ![x] = t] /\ pc' = Way(h, t) /\ hole' = h /\ e' = x
      /\ out' = NoNode /\ got' = NoNode /\ UNCHANGED <<p, n, a, idx>>
  BY DEF Adjust
<1>3. /\ \A i \in 0..n - 1 : i # h => ev'[p[i]] = ev[p[i]]
      /\ ev'[x] = t /\ t \in Int
      /\ \A i \in 0..n - 1 : ev[p[i]] \in Int
  BY <1>1, <1>2, HeapAssumption DEF HeapInv, HeapTypeOK
<1>t. HeapTypeOK'
  BY <1>1, <1>2, HeapAssumption DEF HeapInv, HeapTypeOK, Way
<1>p. PointerInv'
  BY <1>1, <1>2 DEF HeapInv, HeapTypeOK, PointerInv, Filled, PlaceInv, Way
<1> HIDE DEF h
<1>o. OrderInv'
  <2>0. \A i \in 1..n - 1 : /\ Parent(i) \in 0..n - 1 /\ Parent(i) < i
                            /\ ev[p[Parent(i)]] <= ev[p[i]]
    BY <1>1, ParentOf DEF HeapInv, OrderInv, Filled
  <2>1. \A i \in 1..n - 1 : i # h /\ Parent(i) # h => ev'[p[Parent(i)]] <= ev'[p[i]]
    BY <1>3, <2>0
  <2>2. ASSUME NEW i \in 1..n - 1, Parent(i) = h
        PROVE  /\ h # 0 => ev'[p[Parent(h)]] <= ev'[p[i]]
               /\ pc' = "lift" => ev'[x] <= ev'[p[i]]
    <3>1. i # h /\ ev[p[h]] <= ev[p[i]] /\ ev'[p[i]] = ev[p[i]] /\ ev[p[h]] \in Int /\ ev[p[i]] \in Int
      BY <2>2, <2>0, <1>1, <1>3
    <3>2. ASSUME h # 0
          PROVE  /\ ev'[p[Parent(h)]] = ev[p[Parent(h)]] /\ ev[p[Parent(h)]] <= ev[p[h]]
                 /\ ev[p[Parent(h)]] \in Int
      BY <3>2, <2>0, <1>1, <1>3
    <3>3. pc' = "lift" => h # 0 /\ ev[p[Parent(h)]] > t
      BY <1>1, <1>2 DEF Way
    <3> QED
      BY <3>1, <3>2, <3>3, <1>3
  <2>3. pc' = "down" /\ h # 0 => ev'[p[Parent(h)]] <= ev'[x]
    BY <1>1, <1>2, <1>3, <2>0 DEF Way
  <2>4. pc' = "lift" => h # 0 /\ ev'[p[Parent(h)]] > ev'[x]
    BY <1>1, <1>2, <1>3, <2>0 DEF Way
  <2>5. pc' \in {"down", "lift"}
    BY <1>2 DEF Way
  <2> QED
    BY <1>1, <1>2, <2>1, <2>2, <2>3, <2>4, <2>5 DEF OrderInv, Filled, Parent
<1>l. PlaceInv'
  BY <1>1, <1>2, HeapAssumption DEF HeapInv, PlaceInv, Way
<1> QED
  BY <1>t, <1>p, <1>o, <1>l DEF HeapInv

LEMMA PopKeeps ==
    ASSUME HeapInv, Pop
    PROVE  HeapInv'
<1> USE DEF HeapInv
<1>t. HeapTypeOK'
  BY HeapAssumption, ParentOf DEF Pop, TakeOut, HeapTypeOK, PointerInv, OrderInv, PlaceInv, Filled
<1>p. PointerInv'
  BY HeapAssumption, ParentOf DEF Pop, TakeOut, HeapTypeOK, PointerInv, OrderInv, PlaceInv, Filled
<1>o. OrderInv'
  BY HeapAssumption, ParentOf DEF Pop, TakeOut, HeapTypeOK, PointerInv, OrderInv, PlaceInv, Filled
<1>l. PlaceInv'
  BY HeapAssumption, ParentOf DEF Pop, TakeOut, HeapTypeOK, PointerInv, OrderInv, PlaceInv, Filled
<1> QED
  BY <1>t, <1>p, <1>o, <1>l

LEMMA EraseKeeps ==
    ASSUME HeapInv, NEW x \in Nodes, Erase(x)
    PROVE  HeapInv'
<1> DEFINE h == idx[x]
           last == p[n - 1]
<1>1. /\ h \in 0..n - 1 /\ p[h] = x /\ pc = "rest" /\ n \in Nat /\ last \in Nodes
      /\ \A i \in 0..n - 1 : p[i] \in Nodes /\ idx[p[i]] = i
      /\ \A y \in Nodes : idx[y] # -1 => idx[y] \in 0..n - 1 /\ p[idx[y]] = y
  BY HeapAssumption DEF HeapInv, HeapTypeOK, PointerInv, PlaceInv, Filled, Erase
<1>2. /\ n' = n - 1 /\ p' = [i \in 0..n - 2 |-> p[i]] /\ pc' = Way(h, ev[last])
      /\ hole' = h /\ e' = last /\ out' = p[h] /\ got' = NoNode /\ UNCHANGED <<a, idx, ev>>
  BY DEF Erase, TakeOut
<1>3. \A i \in 0..n - 1 : ev[p[i]] \in Int
  BY <1>1, HeapAssumption DEF HeapInv, HeapTypeOK
<1>t. HeapTypeOK'
  BY <1>1, <1>2, HeapAssumption DEF HeapInv, HeapTypeOK, Way
<1>4. ev[last] \in Int
  BY <1>1, <1>3
<1>5. last = p[h] <=> h = n - 1
  BY <1>1
<1> HIDE DEF h, last
<1>6. idx[last] = n - 1 /\ p[n - 1] = last /\ h = idx[x]
  BY <1>1 DEF last, h
<1>p. PointerInv'
  <2>1. ASSUME NEW i \in 0..n - 2, i # h
        PROVE  idx[p'[i]] = i /\ p'[i] # last /\ p'[i] # p[h]
    BY <1>1, <1>2, <1>6, <2>1
  <2>2. ASSUME NEW y \in Nodes, idx[y] # -1, y # last, y # p[h]
        PROVE  idx[y] \in 0..n - 2 /\ idx[y] # h /\ p'[idx[y]] = y
    BY <1>1, <1>2, <1>6, <2>2
  <2> QED
    BY <1>1, <1>2, <2>1, <2>2 DEF PointerInv, Filled, Way
<1>o. OrderInv'
  <2>0. \A i \in 1..n - 1 : /\ Parent(i) \in 0..n - 1 /\ Parent(i) < i
                            /\ ev[p[Parent(i)]] <= ev[p[i]]
    BY <1>1, ParentOf DEF HeapInv, OrderInv, Filled
  <2>1. \A i \in 1..n - 2 : /\ p'[i] = p[i] /\ p'[Parent(i)] = p[Parent(i)]
                            /\ ev[p[Parent(i)]] <= ev[p[i]]
    BY <1>1, <1>2, <2>0
  <2>2. h # 0 => p'[Parent(h)] = p[Parent(h)] /\ ev[p[Parent(h)]] <= ev[p[h]]
    BY <1>1, <1>2, <2>0
  <2>3. ASSUME NEW i \in 1..n - 2, Parent(i) = h
        PROVE  /\ h # 0 => ev[p'[Parent(h)]] <= ev[p'[i]]
               /\ pc' = "lift" => ev[last] <= ev[p'[i]]
    <3>1. p'[i] = p[i] /\ ev[p[h]] <= ev[p[i]] /\ ev[p[h]] \in Int /\ ev[p[i]] \in Int
      BY <2>1, <2>3, <1>1, <1>3
    <3>2. h # 0 => p'[Parent(h)] = p[Parent(h)] /\ ev[p[Parent(h)]] <= ev[p[h]] /\ ev[p[Parent(h)]] \in Int
      BY <2>0, <2>2, <1>1, <1>3
    <3>3. pc' = "lift" => h # 0 /\ ev[p[Parent(h)]] > ev[last]
      BY <1>1, <1>2 DEF Way
    <3> QED
      BY <3>1, <3>2, <3>3, <1>4
  <2>4. h # 0 => ev[p[Parent(h)]] \in Int
    BY <1>1, <1>3, <2>0
  <2>5. pc' = "down" /\ h # 0 => ev[p'[Parent(h)]] <= ev[last]
    BY <1>1, <1>2, <1>4, <2>2, <2>4 DEF Way
  <2>6. pc' = "lift" => h # 0 /\ ev[p'[Parent(h)]] > ev[last]
    BY <1>1, <1>2, <2>2 DEF Way
  <2>7. pc' = "lift" => h < n - 1
    BY <1>1, <1>4, <1>5, <2>2, <2>4, <2>6
  <2>8. pc' \in {"down", "lift"}
    BY <1>2 DEF Way
  <2>9. n' - 1 = n - 2 /\ hole' = h /\ e' = last /\ ev' = ev /\ n' = n - 1
    BY <1>1, <1>2
  <2>a. (\A i \in 1..n - 1 : Filled(i) /\ Filled(Parent(i)) => ev[p[Parent(i)]] <= ev[p[i]])'
    BY <1>1, <2>1, <2>9 DEF Filled, Parent
  <2>b. (\A i \in 1..n - 1 : Parent(i) = hole =>
              /\ hole # 0 => ev[p[Parent(hole)]] <= ev[p[i]]
              /\ pc # "down" => ev[e] <= ev[p[i]])'
    BY <1>1, <2>3, <2>8, <2>9 DEF Parent
  <2> QED
    BY <2>5, <2>6, <2>7, <2>8, <2>9, <2>a, <2>b, <1>1 DEF OrderInv, Parent
<1>l. PlaceInv'
  BY <1>1, <1>2, <1>5, HeapAssumption DEF HeapInv, PlaceInv, Way
<1> QED
  BY <1>t, <1>p, <1>o, <1>l DEF HeapInv

LEMMA ShiftUpKeeps ==
    ASSUME HeapInv, ShiftUp
    PROVE  HeapInv'
<1> DEFINE m == Parent(hole)
<1>1. /\ pc \in {"up", "lift"} /\ hole \in 1..n - 1 /\ n \in Nat /\ a \in Nat
      /\ m \in 0..n - 1 /\ m < hole
  BY ParentOf DEF HeapInv, HeapTypeOK, OrderInv, ShiftUp, Rises
<1>2. p[m] \in Nodes /\ idx[p[m]] = m /\ p[m] # e /\ p[m] # out
  BY <1>1 DEF HeapInv, HeapTypeOK, PointerInv, Filled
<1>3. /\ p' = [p EXCEPT ![hole] = p[m]] /\ idx' = [idx EXCEPT ![p[m]] = hole] /\ hole' = m
      /\ pc' = "up" /\ UNCHANGED <<n, a, ev, e, out, got>>
  BY DEF ShiftUp, Move
<1>4. e \in Nodes /\ ev[p[m]] > ev[e] /\ \A x \in Nodes : ev[x] \in Int
  BY <1>1, HeapAssumption DEF HeapInv, HeapTypeOK, OrderInv, ShiftUp, Rises, Later
<1> HIDE DEF m
<1>5. /\ \A i \in 0..n - 1 : i # hole => p'[i] = p[i]
      /\ p'[hole] = p[m]
      /\ \A i \in 0..n - 1 : p[i] \in Nodes
      /\ \A i \in 0..n - 1 : p'[i] \in Nodes
  BY <1>1, <1>2, <1>3 DEF HeapInv, HeapTypeOK
<1>t. HeapTypeOK'
  BY <1>1, <1>2, <1>3, HeapAssumption DEF HeapInv, HeapTypeOK
<1>p. PointerInv'
  BY <1>1, <1>2, <1>3, <1>5 DEF HeapInv, HeapTypeOK, PointerInv, Filled
<1>o. OrderInv'
  <2>0. \A i \in 1..n - 1 : Parent(i) \in 0..n - 1 /\ Parent(i) < i
    BY <1>1, ParentOf
  <2>1. ASSUME NEW i \in 1..n - 1, i # m, Parent(i) # m
        PROVE  ev[p'[Parent(i)]] <= ev[p'[i]]
    <3>1. i # hole
      BY <2>1 DEF m
    <3>2. CASE Parent(i) = hole
      BY <1>1, <1>5, <2>1, <3>1, <3>2 DEF HeapInv, OrderInv, m
    <3>3. CASE Parent(i) # hole
      BY <1>1, <1>5, <2>0, <2>1, <3>1, <3>3 DEF HeapInv, OrderInv, Filled
    <3> QED
      BY <3>2, <3>3
  <2>2. ASSUME NEW i \in 1..n - 1, Parent(i) = m
        PROVE  ev[p[m]] <= ev[p'[i]]
    <3>1. CASE i = hole
      BY <1>1, <1>2, <1>4, <1>5, <3>1
    <3>2. CASE i # hole
      BY <1>1, <1>5, <2>2, <3>2 DEF HeapInv, OrderInv, Filled
    <3> QED
      BY <3>1, <3>2
  <2>3. ASSUME m # 0 PROVE Parent(m) \in 0..n - 1 /\ Parent(m) # hole /\ ev[p[Parent(m)]] <= ev[p[m]]
    BY <1>1, <2>0, <2>3 DEF HeapInv, OrderInv, Filled
  <2>4. ASSUME NEW i \in 1..n - 1, Parent(i) = m
        PROVE  /\ m # 0 => ev[p'[Parent(m)]] <= ev[p'[i]]
               /\ ev[e] <= ev[p'[i]]
    <3>1. ev[p[m]] <= ev[p'[i]] /\ p'[i] \in Nodes
      BY <2>2, <2>4, <1>5
    <3>2. ev[e] <= ev[p'[i]]
      BY <3>1, <1>2, <1>4
    <3>3. ASSUME m # 0 PROVE ev[p'[Parent(m)]] <= ev[p'[i]]
      <4>1. p'[Parent(m)] = p[Parent(m)] /\ p[Parent(m)] \in Nodes /\ ev[p[Parent(m)]] <= ev[p[m]]
        BY <2>3, <3>3, <1>5
      <4> QED
        BY <4>1, <3>1, <1>2, <1>4
    <3> QED
      BY <3>2, <3>3
  <2> QED
    BY <1>1, <1>3, <2>1, <2>4 DEF OrderInv, Filled, Parent
<1>l. PlaceInv'
  BY <1>1, <1>3 DEF HeapInv, PlaceInv
<1> QED
  BY <1>t, <1>p, <1>o, <1>l DEF HeapInv

\* MinChild names a child that is not later than any child.
LEMMA MinChildIs ==
    ASSUME HeapInv, NEW h \in Nat, 2 * h + 2 <= n
    PROVE  /\ MinChild(h) \in 1..n - 1 /\ MinChild(h) > h /\ Parent(MinChild(h)) = h
           /\ \A i \in 1..n - 1 : Parent(i) = h => ev[p[MinChild(h)]] <= ev[p[i]]
<1>1. n \in Nat /\ \A i \in 0..n - 1 : ev[p[i]] \in Int
  BY HeapAssumption DEF HeapInv, HeapTypeOK
<1>2. MinChild(h) = 2 * h + 1 \/ (MinChild(h) = 2 * h + 2 /\ 2 * h + 2 # n)
  BY DEF MinChild
<1>3. MinChild(h) \in 1..n - 1 /\ MinChild(h) > h
  BY <1>1, <1>2
<1>4. \A i \in 1..n - 1 : Parent(i) = h <=> i = 2 * h + 1 \/ i = 2 * h + 2
  BY <1>1, ParentOf
<1>5. ASSUME NEW i \in 1..n - 1, Parent(i) = h
      PROVE  ev[p[MinChild(h)]] <= ev[p[i]]
  <2>1. CASE 2 * h + 2 = n
    BY <2>1, <1>1, <1>4, <1>5 DEF MinChild
  <2>2. CASE 2 * h + 2 # n
    <3>1. 2 * h + 1 \in 0..n - 1 /\ 2 * h + 2 \in 0..n - 1
      BY <2>2, <1>1
    <3>2. CASE ev[p[2 * h + 2]] > ev[p[2 * h + 1]]
      BY <3>1, <3>2, <1>1, <1>4, <1>5 DEF MinChild, Later
    <3>3. CASE ~ (ev[p[2 * h + 2]] > ev[p[2 * h + 1]])
      BY <2>2, <3>1, <3>3, <1>1, <1>4, <1>5 DEF MinChild, Later
    <3> QED
      BY <3>2, <3>3
  <2> QED
    BY <2>1, <2>2
<1> QED
  BY <1>2, <1>3, <1>4, <1>5

LEMMA ShiftDownKeeps ==
    ASSUME HeapInv, ShiftDown
    PROVE  HeapInv'
<1> DEFINE m == MinChild(hole)
<1>1. /\ pc = "down" /\ hole \in 0..n - 1 /\ n \in Nat /\ a \in Nat /\ e \in Nodes
      /\ 2 * hole + 2 <= n
  BY DEF HeapInv, HeapTypeOK, ShiftDown, Sinks
<1>2. /\ m \in 1..n - 1 /\ m > hole /\ Parent(m) = hole
      /\ \A i \in 1..n - 1 : Parent(i) = hole => ev[p[m]] <= ev[p[i]]
  BY <1>1, MinChildIs
<1>3. p[m] \in Nodes /\ idx[p[m]] = m /\ p[m] # e /\ p[m] # out
  BY <1>1, <1>2 DEF HeapInv, HeapTypeOK, PointerInv, Filled
<1>4. /\ p' = [p EXCEPT ![hole] = p[m]] /\ idx' = [idx EXCEPT ![p[m]] = hole] /\ hole' = m
      /\ UNCHANGED <<n, a, ev, pc, e, out, got>>
  BY DEF ShiftDown, Move
<1>5. ev[p[m]] < ev[e] /\ \A x \in Nodes : ev[x] \in Int
  BY <1>1, HeapAssumption DEF HeapInv, HeapTypeOK, ShiftDown, Sinks, Later
<1> HIDE DEF m
<1>6. /\ \A i \in 0..n - 1 : i # hole => p'[i] = p[i]
      /\ p'[hole] = p[m]
      /\ \A i \in 0..n - 1 : p[i] \in Nodes
  BY <1>1, <1>3, <1>4 DEF HeapInv, HeapTypeOK
<1>t. HeapTypeOK'
  BY <1>1, <1>2, <1>3, <1>4, HeapAssumption DEF HeapInv, HeapTypeOK, PlaceInv
<1>p. PointerInv'
  BY <1>1, <1>2, <1>3, <1>4, <1>6 DEF HeapInv, HeapTypeOK, PointerInv, Filled
<1>o. OrderInv'
  <2>0. \A i \in 1..n - 1 : Parent(i) \in 0..n - 1 /\ Parent(i) < i
    BY <1>1, ParentOf
  <2>1. ASSUME NEW i \in 1..n - 1, i # m, Parent(i) # m
        PROVE  ev[p'[Parent(i)]] <= ev[p'[i]]
    <3>1. CASE i = hole
      BY <1>1, <1>2, <1>6, <2>0, <3>1 DEF HeapInv, OrderInv
    <3>2. CASE Parent(i) = hole
      BY <1>1, <1>2, <1>6, <2>0, <3>2
    <3>3. CASE i # hole /\ Parent(i) # hole
      BY <1>1, <1>6, <2>0, <3>3 DEF HeapInv, OrderInv, Filled
    <3> QED
      BY <3>1, <3>2, <3>3
  <2>2. ASSUME NEW i \in 1..n - 1, Parent(i) = m
        PROVE  ev[p[m]] <= ev[p'[i]]
    BY <1>1, <1>2, <1>6, <2>0, <2>2 DEF HeapInv, OrderInv, Filled
  <2>3. ev[p[m]] <= ev[e]
    BY <1>3, <1>1, <1>5
  <2> QED
    BY <1>1, <1>2, <1>4, <1>6, <2>1, <2>2, <2>3 DEF OrderInv, Filled, Parent
<1>l. PlaceInv'
  BY <1>1, <1>2, <1>4 DEF HeapInv, PlaceInv
<1> QED
  BY <1>t, <1>p, <1>o, <1>l DEF HeapInv

LEMMA PlaceKeeps ==
    ASSUME HeapInv, Place
    PROVE  HeapInv'
<1>1. /\ pc # "rest" /\ pc # "lift" /\ pc \in {"up", "down"} /\ ~Rises /\ ~Sinks
      /\ n \in Nat /\ hole \in 0..n /\ e \in Nodes
  BY DEF HeapInv, HeapTypeOK, Place, Rises
<1>2. /\ p' = [i \in 0..n - 1 |-> IF i = hole THEN e ELSE p[i]]
      /\ idx' = [x \in Nodes |-> IF x = out THEN -1 ELSE IF x = e THEN hole ELSE idx[x]]
      /\ pc' = "rest" /\ hole' = 0 /\ e' = NoNode /\ out' = NoNode
      /\ UNCHANGED <<n, a, ev, got>>
  BY DEF Place
<1>3. \A x \in Nodes : ev[x] \in Int
  BY HeapAssumption DEF HeapInv, HeapTypeOK
<1>4. \A i \in 0..n - 1 : p[i] \in Nodes
  BY DEF HeapInv, HeapTypeOK
<1>t. HeapTypeOK'
  BY <1>1, <1>2, HeapAssumption DEF HeapInv, HeapTypeOK
<1>p. PointerInv'
  BY <1>1, <1>2, HeapAssumption DEF HeapInv, HeapTypeOK, PointerInv, PlaceInv, Filled
<1>o. OrderInv'
  <2>0. \A i \in 1..n - 1 : Parent(i) \in 0..n - 1 /\ Parent(i) < i
    BY <1>1, ParentOf
  <2>1. ASSUME NEW i \in 1..n - 1
        PROVE  ev[p'[Parent(i)]] <= ev[p'[i]]
    <3>1. CASE i = hole
      <4>1. ev[p[Parent(hole)]] <= ev[e]
        <5>1. CASE pc = "up"
          BY <1>1, <1>3, <1>4, <2>0, <3>1, <5>1 DEF Rises, Later
        <5>2. CASE pc = "down"
          BY <1>1, <3>1, <5>2 DEF HeapInv, OrderInv
        <5> QED
          BY <1>1, <5>1, <5>2
      <4> QED
        BY <1>1, <1>2, <2>0, <3>1, <4>1
    <3>2. CASE Parent(i) = hole
      <4>1. ev[e] <= ev[p[i]]
        <5>1. CASE pc = "up"
          BY <1>1, <3>2, <5>1 DEF HeapInv, OrderInv
        <5>2. CASE pc = "down"
          <6>1. hole \in Nat /\ 2 * hole + 2 <= n
            BY <1>1, <3>2, ParentOf
          <6>2. MinChild(hole) \in 1..n - 1 /\ ev[p[MinChild(hole)]] <= ev[p[i]]
            BY <3>2, <6>1, MinChildIs
          <6>3. ~ (ev[e] > ev[p[MinChild(hole)]])
            BY <1>1, <5>2, <6>1 DEF Sinks, Later
          <6> QED
            BY <1>1, <1>3, <1>4, <6>2, <6>3
        <5> QED
          BY <1>1, <5>1, <5>2
      <4> QED
        BY <1>1, <1>2, <2>0, <3>2, <4>1
    <3>3. CASE i # hole /\ Parent(i) # hole
      BY <1>1, <1>2, <2>0, <3>3 DEF HeapInv, OrderInv, Filled
    <3> QED
      BY <3>1, <3>2, <3>3
  <2> QED
    BY <1>2, <2>1 DEF OrderInv, Filled, Parent
<1>l. PlaceInv'
  BY <1>2, HeapAssumption DEF PlaceInv
<1> QED
  BY <1>t, <1>p, <1>o, <1>l DEF HeapInv

-----------------------------------------------------------------------------
LEMMA InitHolds == HeapInit => HeapInv
<1> SUFFICES ASSUME HeapInit PROVE HeapInv
  OBVIOUS
<1>1. HeapTypeOK
  BY HeapAssumption DEF HeapInit, HeapTypeOK
<1>2. PointerInv /\ OrderInv /\ PlaceInv
  BY DEF HeapInit, PointerInv, OrderInv, PlaceInv, Filled
<1> QED
  BY <1>1, <1>2 DEF HeapInv

\* minheap.c keeps its invariant: types and bounds, the nodes' own indices, the
\* order outside the hole.
THEOREM HeapInvariance == HeapSpec => []HeapInv
<1>1. HeapInv /\ [HeapNext]_heapVars => HeapInv'
  <2> SUFFICES ASSUME HeapInv, [HeapNext]_heapVars PROVE HeapInv'
    OBVIOUS
  <2>1. CASE UNCHANGED heapVars
    BY <2>1 DEF heapVars, HeapInv, HeapTypeOK, PointerInv, OrderInv, PlaceInv, Filled, Parent
  <2> QED
    BY <2>1, PushKeeps, AdjustKeeps, PopKeeps, EraseKeeps, ShiftUpKeeps, ShiftDownKeeps, PlaceKeeps
       DEF HeapNext, HeapStep
<1> QED
  BY InitHolds, <1>1, PTL DEF HeapSpec

\* The loops of shift_up and shift_down end: each iteration takes the hole strictly
\* nearer to an end of the array.
THEOREM LoopsEnd == HeapSpec => LoopsMoveOn
<1> DEFINE MovesOn ==
      pc # "rest" =>
          \/ pc' = "rest"
          \/ pc # "down" /\ pc' = "up" /\ hole' < hole
          \/ pc = "down" /\ pc' = "down" /\ hole < hole' /\ hole' < n
<1>1. HeapInv /\ [HeapNext]_heapVars => [MovesOn]_heapVars
  <2> SUFFICES ASSUME HeapInv, HeapNext, pc # "rest" PROVE MovesOn
    OBVIOUS
  <2>1. HeapStep
    BY DEF HeapNext, Push, Adjust, Erase, Pop
  <2>2. CASE ShiftUp
    <3>1. Parent(hole) < hole
      BY <2>2, ParentOf DEF ShiftUp, Rises, HeapInv, HeapTypeOK, OrderInv
    <3>2. pc \in {"lift", "up"} /\ pc' = "up" /\ hole' = Parent(hole)
      BY <2>2 DEF ShiftUp, Rises, Move
    <3> QED
      BY <3>1, <3>2
  <2>3. CASE ShiftDown
    <3>1. hole \in Nat /\ n \in Nat /\ 2 * hole + 2 <= n
      BY <2>3 DEF ShiftDown, Sinks, HeapInv, HeapTypeOK
    <3>2. pc = "down" /\ pc' = "down" /\ hole' = MinChild(hole)
      BY <2>3 DEF ShiftDown, Sinks, Move
    <3> QED
      BY <3>1, <3>2, MinChildIs
  <2>4. CASE Place
    BY <2>4 DEF Place
  <2> QED
    BY <2>1, <2>2, <2>3, <2>4 DEF HeapStep
<1> QED
  BY <1>1, HeapInvariance, PTL DEF HeapSpec, LoopsMoveOn

\* minheap_elm_inheap, erase and adjust find every node where it is.
THEOREM PointersAgree == HeapSpec => []BackPointers
<1>1. HeapInv => BackPointers
  BY HeapAssumption DEF HeapInv, HeapTypeOK, PointerInv, PlaceInv, Filled, BackPointers
<1> QED
  BY HeapInvariance, <1>1, PTL

\* Every operation leaves the array in heap order.
THEOREM OrderKept == HeapSpec => []HeapOrder
<1>1. HeapInv => HeapOrder
  <2> SUFFICES ASSUME HeapInv, pc = "rest", NEW i \in 1..n - 1
               PROVE  ev[p[Parent(i)]] <= ev[p[i]]
    BY DEF HeapOrder
  <2>1. Parent(i) \in 0..n - 1
    BY ParentOf DEF HeapInv, HeapTypeOK
  <2> QED
    BY <2>1 DEF HeapInv, HeapTypeOK, OrderInv, Filled
<1> QED
  BY HeapInvariance, <1>1, PTL

\* The node the timer looks at has waited longest.  If some slot held an earlier
\* one, the first such slot would have an earlier parent before it.
THEOREM FirstIsOldest == HeapSpec => []TopIsOldest
<1>1. HeapInv => TopIsOldest
  <2> SUFFICES ASSUME HeapInv, pc = "rest" PROVE \A i \in 0..n - 1 : ev[p[0]] <= ev[p[i]]
    BY DEF TopIsOldest
  <2> DEFINE S == {i \in 0..n - 1 : ev[p[i]] < ev[p[0]]}
  <2>1. n \in Nat /\ \A i \in 0..n - 1 : ev[p[i]] \in Int
    BY HeapAssumption DEF HeapInv, HeapTypeOK
  <2>2. S \subseteq Nat
    BY <2>1
  <2>3. ASSUME S # {} PROVE FALSE
    <3>1. PICK m \in S : \A k \in S : m <= k
      BY <2>2, <2>3, LeastNat
    <3>2. m \in 1..n - 1 /\ ev[p[m]] < ev[p[0]]
      BY <2>1, <3>1
    <3>3. Parent(m) \in 0..n - 1 /\ Parent(m) < m
      BY <2>1, <3>2, ParentOf
    <3>4. ev[p[Parent(m)]] <= ev[p[m]]
      BY <3>2, <3>3 DEF HeapInv, OrderInv, Filled
    <3>5. Parent(m) \in S
      BY <2>1, <3>2, <3>3, <3>4
    <3> QED
      BY <2>1, <3>1, <3>2, <3>3, <3>5
  <2> QED
    BY <2>1, <2>3
<1> QED
  BY HeapInvariance, <1>1, PTL

-----------------------------------------------------------------------------
(* The heap implements IdleSet. *)

\* The members, read off the nodes instead of the slots.
LEMMA MembersAre == HeapInv => Members = {x \in Nodes : x # out /\ (x = e \/ idx[x] # -1)}
<1> SUFFICES ASSUME HeapInv
             PROVE  Members = {x \in Nodes : x # out /\ (x = e \/ idx[x] # -1)}
  OBVIOUS
<1>1. n \in Nat /\ (\A i \in 0..n - 1 : p[i] \in Nodes) /\ \A i \in Nat : i # -1
  BY DEF HeapInv, HeapTypeOK
<1>2. CASE pc = "rest"
  <2>1. e = NoNode /\ out = NoNode /\ NoNode \notin Nodes
    BY <1>2, HeapAssumption DEF HeapInv, PlaceInv
  <2>2. \A i \in 0..n - 1 : idx[p[i]] = i
    BY <1>2 DEF HeapInv, PointerInv, Filled
  <2>3. \A x \in Nodes : idx[x] # -1 => idx[x] \in 0..n - 1 /\ p[idx[x]] = x
    BY <1>2, <2>1 DEF HeapInv, PointerInv, Filled
  <2> QED
    BY <1>1, <1>2, <2>1, <2>2, <2>3 DEF Members
<1>3. CASE pc # "rest"
  <2>1. e \in Nodes /\ \A i \in (0..n - 1) \ {hole} : idx[p[i]] = i /\ p[i] # e /\ p[i] # out
    BY <1>3 DEF HeapInv, HeapTypeOK, PointerInv, Filled
  <2>2. \A x \in Nodes : idx[x] # -1 /\ x # e /\ x # out =>
           idx[x] \in (0..n - 1) \ {hole} /\ p[idx[x]] = x
    BY <1>3 DEF HeapInv, PointerInv, Filled
  <2> QED
    BY <1>1, <1>3, <2>1, <2>2 DEF Members
<1> QED
  BY <1>2, <1>3

\* Nothing is lost or doubled by the moves, and a pop takes a member that has
\* waited longest: every step of the heap is a step of IdleSet or none.
THEOREM HeapImplementsIdleSet == HeapSpec => IdleSetKept
<1>1. HeapInit => Idle!IdleInit
  BY DEF HeapInit, Idle!IdleInit, Members
<1>2. HeapInv /\ HeapInv' /\ TopIsOldest /\ [HeapNext]_heapVars => [Idle!IdleNext]_(Idle!idleVars)
  <2> SUFFICES ASSUME HeapInv, HeapInv', TopIsOldest, [HeapNext]_heapVars
               PROVE  [Idle!IdleNext]_(Idle!idleVars)
    OBVIOUS
  <2>1. Members = {x \in Nodes : x # out /\ (x = e \/ idx[x] # -1)}
    BY MembersAre
  <2>2. Members' = {x \in Nodes : x # out' /\ (x = e' \/ idx'[x] # -1)}
    <3>1. (HeapInv => Members = {x \in Nodes : x # out /\ (x = e \/ idx[x] # -1)})'
      BY MembersAre, PTL
    <3> QED
      BY <3>1
  <2>3. pc = "rest" => e = NoNode /\ out = NoNode /\ NoNode \notin Nodes
    BY HeapAssumption DEF HeapInv, PlaceInv
  <2>4. ASSUME NEW x \in Nodes, NEW t \in Times, Push(x, t) \/ Adjust(x, t)
        PROVE  Idle!Touch(x, t)
    BY <2>1, <2>2, <2>3, <2>4 DEF Push, Adjust, Idle!Touch
  <2>5. ASSUME pc = "rest", NEW h \in 0..n - 1, NEW way, TakeOut(h, way)
        PROVE  Members' = Members \ {p[h]} /\ p[h] \in Members
    <3>1. p[h] \in Nodes /\ p[n - 1] \in Nodes /\ idx[p[h]] # -1 /\ idx[p[n - 1]] # -1
      BY <2>5 DEF HeapInv, HeapTypeOK, PointerInv, Filled
    <3>2. e' = p[n - 1] /\ out' = p[h] /\ idx' = idx
      BY <2>5 DEF TakeOut
    <3> QED
      BY <2>1, <2>2, <2>3, <2>5, <3>1, <3>2
  <2>6. ASSUME Pop PROVE Idle!TakeOldest
    <3>1. pc = "rest" /\ 0 \in 0..n - 1 /\ TakeOut(0, "down") /\ got' = p[0] /\ UNCHANGED ev
      BY <2>6 DEF Pop, TakeOut, HeapInv, HeapTypeOK
    <3>2. Members' = Members \ {p[0]} /\ p[0] \in Members
      BY <2>5, <3>1
    <3>3. \A y \in Members : ev[p[0]] <= ev[y]
      BY <3>1 DEF TopIsOldest, Members
    <3> QED
      BY <3>1, <3>2, <3>3 DEF Idle!TakeOldest
  <2>7. ASSUME NEW x \in Nodes, Erase(x) PROVE Idle!Drop(x)
    <3>1. /\ pc = "rest" /\ idx[x] \in 0..n - 1 /\ p[idx[x]] = x
          /\ TakeOut(idx[x], Way(idx[x], ev[p[n - 1]])) /\ got' = NoNode /\ UNCHANGED ev
      BY <2>3, <2>7 DEF Erase, TakeOut, HeapInv, PointerInv, Filled
    <3>2. Members' = Members \ {p[idx[x]]} /\ p[idx[x]] \in Members
      BY <2>5, <3>1
    <3> QED
      BY <3>1, <3>2 DEF Idle!Drop
  <2>8. ASSUME NEW i \in 0..n - 1, i # hole, pc # "rest", Move(i), UNCHANGED <<e, out>>
        PROVE  Members' = Members
    <3>1. p[i] \in Nodes /\ idx[p[i]] = i /\ hole \in Nat
      BY <2>8 DEF HeapInv, HeapTypeOK, PointerInv, Filled
    <3>2. \A y \in Nodes : idx'[y] # -1 <=> idx[y] # -1
      BY <2>8, <3>1 DEF Move, HeapInv, HeapTypeOK
    <3> QED
      BY <2>1, <2>2, <2>8, <3>2
  <2>9. ASSUME ShiftUp PROVE UNCHANGED Idle!idleVars
    <3>1. pc # "rest" /\ Parent(hole) \in 0..n - 1 /\ Parent(hole) # hole
      BY <2>9, ParentOf DEF ShiftUp, Rises, HeapInv, HeapTypeOK, OrderInv
    <3> QED
      BY <2>8, <2>9, <3>1 DEF ShiftUp, Idle!idleVars
  <2>10. ASSUME ShiftDown PROVE UNCHANGED Idle!idleVars
    <3>1. pc # "rest" /\ hole \in Nat /\ 2 * hole + 2 <= n
      BY <2>10 DEF ShiftDown, Sinks, HeapInv, HeapTypeOK
    <3>2. MinChild(hole) \in 0..n - 1 /\ MinChild(hole) # hole
      BY <3>1, MinChildIs
    <3> QED
      BY <2>8, <2>10, <3>1, <3>2 DEF ShiftDown, Idle!idleVars
  <2>11. ASSUME Place PROVE UNCHANGED Idle!idleVars
    <3>1. /\ idx' = [x \in Nodes |-> IF x = out THEN -1 ELSE IF x = e THEN hole ELSE idx[x]]
          /\ e' = NoNode /\ out' = NoNode /\ hole \in Nat /\ e \in Nodes /\ NoNode \notin Nodes
          /\ UNCHANGED <<ev, got>>
      BY <2>11, HeapAssumption DEF Place, HeapInv, HeapTypeOK
    <3>2. \A y \in Nodes : idx'[y] # -1 <=> y # out /\ (y = e \/ idx[y] # -1)
      BY <3>1
    <3>3. Members' = Members
      BY <2>1, <2>2, <3>1, <3>2
    <3> QED
      BY <3>1, <3>3 DEF Idle!idleVars
  <2>12. ASSUME UNCHANGED heapVars PROVE UNCHANGED Idle!idleVars
    BY <2>1, <2>2, <2>12 DEF heapVars, Idle!idleVars
  <2> QED
    BY <2>4, <2>6, <2>7, <2>9, <2>10, <2>11, <2>12 DEF HeapNext, HeapStep, Idle!IdleNext
<1> QED
  BY <1>1, <1>2, HeapInvariance, FirstIsOldest, PTL DEF HeapSpec, IdleSetKept, Idle!IdleSpec
=============================================================================
