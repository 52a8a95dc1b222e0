---------------------------- MODULE TimerHeapProofs ----------------------------
(***************************************************************************)
(* Proofs about libuv's heap of pointers, for every set of nodes and every *)
(* order: heap_insert and heap_remove leave a heap of the nodes they       *)
(* should leave, and its first node is the earliest.                       *)
(***************************************************************************)
EXTENDS TimerHeap, TLAPS, WellFoundedInduction, FiniteSetTheorems

-----------------------------------------------------------------------------
(* Induction over sets of naturals, of which each has a least element *)

\* Every non-empty set of naturals has a least element.
LEMMA MinimalOf ==
    ASSUME NEW R, IsWellFoundedOn(R, Nat), NEW S, S \subseteq Nat, S # {}
    PROVE  \E m \in S : \A k \in S : ~ (<<k, m>> \in R)
  BY WFMin, Zenon

\* The same for a relation that numbers below each other are in.
LEMMA LeastOf ==
    ASSUME NEW R, IsWellFoundedOn(R, Nat),
           \A k, m \in Nat : k < m => <<k, m>> \in R,
           NEW S, S \subseteq Nat, S # {}
    PROVE  \E m \in S : \A k \in S : m <= k
<1>1. PICK m \in S : \A k \in S : ~ (<<k, m>> \in R)
  BY MinimalOf, Zenon
<1>2. ASSUME NEW k \in S PROVE m <= k
  <2>1. m \in Nat /\ k \in Nat /\ ~ (k < m)
    BY <1>1, <1>2, Zenon
  <2> QED
    BY <2>1, SMT
<1> QED
  BY <1>2, Zenon

\* The same for the order of the numbers.
LEMMA LeastNat == ASSUME NEW S, S \subseteq Nat, S # {}
                  PROVE  \E m \in S : \A k \in S : m <= k
<1>1. \A k, m \in Nat : k < m => <<k, m>> \in OpToRel(<, Nat)
  BY DEF OpToRel
<1> QED
  BY <1>1, NatLessThanWellFounded, LeastOf, Zenon

\* A set of naturals up to n that holds with each number the next one, and 0.
LEMMA UpToAll ==
    ASSUME NEW n \in Nat, NEW S, 0 \in S, \A k \in 0..n - 1 : k \in S => k + 1 \in S
    PROVE  \A k \in 0..n : k \in S
<1> DEFINE bad == {k \in 0..n : k \notin S}
<1>1. bad \subseteq Nat
  OBVIOUS
<1>2. ASSUME bad # {} PROVE FALSE
  <2>1. PICK m \in bad : \A k \in bad : m <= k
    BY <1>1, <1>2, LeastNat, Zenon
  <2>2. m # 0 /\ m \in 0..n
    BY <2>1
  <2>3. m - 1 \in 0..n - 1 /\ m - 1 \notin bad
    BY <2>1, <2>2
  <2>4. m \in S
    BY <2>2, <2>3
  <2> QED
    BY <2>1, <2>4
<1> QED
  BY <1>2

-----------------------------------------------------------------------------
(* Layouts: a tree of pointers as the array of its positions *)

Links == Nodes \cup {Null}
Pointers == [Nodes -> Links]
Heaps == [min : Links, nelts : Nat, left : Pointers, right : Pointers, parent : Pointers]

Up(i) == i \div 2

\* A layout: the node at each position of a tree of n nodes, Null at all others.
IsLayout(p, n) ==
    /\ p \in [Nat -> Links]
    /\ \A i \in Nat : p[i] # Null <=> i \in 1..n
    /\ \A i, j \in 1..n : p[i] = p[j] => i = j

\* The pointers of H lay its nodes out as p does.
LaidOut(H, p) ==
    /\ IsLayout(p, H.nelts)
    /\ H.min = p[1]
    /\ \A i \in 1..H.nelts : /\ H.left[p[i]] = p[2 * i]
                             /\ H.right[p[i]] = p[2 * i + 1]
                             /\ H.parent[p[i]] = p[Up(i)]

Swapped(p, q, c) == [p EXCEPT ![q] = p[c], ![c] = p[q]]

\* The positions of a node and its parent.
LEMMA UpIs ==
    \A i \in Nat : /\ Up(i) \in Nat
                   /\ i = 2 * Up(i) \/ i = 2 * Up(i) + 1
                   /\ \A q \in Nat : i = 2 * q \/ i = 2 * q + 1 => Up(i) = q
<1> SUFFICES ASSUME NEW i \in Nat
             PROVE  /\ Up(i) \in Nat
                    /\ i = 2 * Up(i) \/ i = 2 * Up(i) + 1
                    /\ \A q \in Nat : i = 2 * q \/ i = 2 * q + 1 => Up(i) = q
  OBVIOUS
<1> QED
  BY SMTT(20) DEF Up

\* What writing through a pointer changes.
LEMMA SetIs ==
    \A f \in Pointers, x, v \in Links :
        /\ Set(f, x, v) \in Pointers
        /\ \A y \in Nodes : Set(f, x, v)[y] = IF y = x THEN v ELSE f[y]
  BY NullAssumption DEF Set, Pointers, Links

\* What is at a position of a layout.
LEMMA NodesOfLayout ==
    ASSUME NEW n \in Nat, NEW p, IsLayout(p, n)
    PROVE  /\ \A i \in Nat : p[i] \in Links
           /\ \A i \in 1..n : p[i] \in Nodes
           /\ \A i \in Nat : i \notin 1..n => p[i] = Null
           /\ \A i \in 1..n : \A j \in Nat : p[i] = p[j] => i = j
  BY NullAssumption DEF IsLayout, Links

\* A layout with two of its nodes exchanged is one.
LEMMA SwappedIs ==
    ASSUME NEW n \in Nat, NEW p, IsLayout(p, n), NEW q \in 1..n, NEW c \in 1..n, q # c
    PROVE  /\ IsLayout(Swapped(p, q, c), n)
           /\ \A i \in Nat : Swapped(p, q, c)[i] = IF i = q THEN p[c] ELSE IF i = c THEN p[q] ELSE p[i]
<1>1. p \in [Nat -> Links] /\ q \in Nat /\ c \in Nat
  BY DEF IsLayout
<1>2. \A i \in Nat : Swapped(p, q, c)[i] = IF i = q THEN p[c] ELSE IF i = c THEN p[q] ELSE p[i]
  BY <1>1 DEF Swapped
<1>3. Swapped(p, q, c) \in [Nat -> Links]
  BY <1>1 DEF Swapped
<1> HIDE DEF Swapped
<1>4. \A i \in Nat : Swapped(p, q, c)[i] # Null <=> i \in 1..n
  BY <1>1, <1>2 DEF IsLayout
<1>5. \A i, j \in 1..n : Swapped(p, q, c)[i] = Swapped(p, q, c)[j] => i = j
  BY <1>1, <1>2 DEF IsLayout
<1> QED
  BY <1>2, <1>3, <1>4, <1>5 DEF IsLayout

-----------------------------------------------------------------------------
(* heap_node_swap *)

\* The fields of the heap it leaves.
Sibling(H, P, C) == IF H.left[P] = C THEN H.right[P] ELSE H.left[P]

\* The pointers of every node after heap_node_swap of the child at c with its parent.
LEMMA SwapFields ==
    ASSUME NEW H \in Heaps, NEW P \in Nodes, NEW C \in Nodes, P # C,
           NEW G, G = HeapSwap(H, P, C), NEW s, s = Sibling(H, P, C), NEW g, g = H.parent[P]
    PROVE  /\ G \in Heaps /\ G.nelts = H.nelts
           /\ G.min = IF g = Null THEN C ELSE H.min
           /\ \A x \in Nodes :
                /\ G.parent[x] = IF x = H.right[C] \/ x = H.left[C] THEN P
                                 ELSE IF x = s THEN C ELSE IF x = C THEN g
                                 ELSE IF x = P THEN C ELSE H.parent[x]
                /\ G.left[x] = IF x = g /\ H.left[g] = P THEN C
                               ELSE IF x = C THEN (IF H.left[P] = C THEN P ELSE s)
                               ELSE IF x = P THEN H.left[C] ELSE H.left[x]
                /\ G.right[x] = IF x = g /\ H.left[g] # P THEN C
                                ELSE IF x = C THEN (IF H.left[P] = C THEN s ELSE P)
                                ELSE IF x = P THEN H.right[C] ELSE H.right[x]
<1> DEFINE wasLeft == H.left[P] = C
           gLeft == g # Null /\ H.left[g] = P
           down == [H.parent EXCEPT ![P] = C, ![C] = g]
           lefts == [H.left EXCEPT ![P] = H.left[C], ![C] = IF wasLeft THEN P ELSE s]
           rights == [H.right EXCEPT ![P] = H.right[C], ![C] = IF wasLeft THEN s ELSE P]
           intoLeft == IF gLeft THEN g ELSE Null
           intoRight == IF gLeft THEN Null ELSE g
           par == Set(Set(Set(down, s, C), H.left[C], P), H.right[C], P)
           lef == Set(lefts, intoLeft, C)
           rig == Set(rights, intoRight, C)
<1>1. /\ H.left \in Pointers /\ H.right \in Pointers /\ H.parent \in Pointers
      /\ H.min \in Links /\ H.nelts \in Nat
  BY DEF Heaps
<1>2. s \in Links /\ g \in Links /\ H.left[C] \in Links /\ H.right[C] \in Links /\ P \in Links /\ C \in Links
  BY <1>1 DEF Pointers, Links, Sibling
<1>3. /\ down \in Pointers /\ lefts \in Pointers /\ rights \in Pointers
      /\ \A x \in Nodes :
           /\ down[x] = IF x = C THEN g ELSE IF x = P THEN C ELSE H.parent[x]
           /\ lefts[x] = IF x = C THEN (IF wasLeft THEN P ELSE s) ELSE IF x = P THEN H.left[C] ELSE H.left[x]
           /\ rights[x] = IF x = C THEN (IF wasLeft THEN s ELSE P) ELSE IF x = P THEN H.right[C] ELSE H.right[x]
  <2> HIDE DEF wasLeft
  <2> QED
    BY <1>1, <1>2 DEF Pointers, Links
<1>4. G = [H EXCEPT !.parent = par, !.left = lef, !.right = rig, !.min = IF g = Null THEN C ELSE @]
  BY Zenon DEF HeapSwap, Sibling
<1> HIDE DEF down, lefts, rights
<1>5. par \in Pointers /\ \A x \in Nodes : par[x] = IF x = H.right[C] \/ x = H.left[C] THEN P
                                                     ELSE IF x = s THEN C ELSE down[x]
  <2>1. /\ Set(down, s, C) \in Pointers
        /\ \A x \in Nodes : Set(down, s, C)[x] = IF x = s THEN C ELSE down[x]
    <3>1. down \in Pointers /\ s \in Links /\ C \in Links
      BY <1>2, <1>3
    <3> QED
      BY <3>1, SetIs
  <2>2. /\ Set(Set(down, s, C), H.left[C], P) \in Pointers
        /\ \A x \in Nodes : Set(Set(down, s, C), H.left[C], P)[x] = IF x = H.left[C] THEN P ELSE Set(down, s, C)[x]
    <3>1. H.left[C] \in Links /\ P \in Links
      BY <1>2
    <3> QED
      BY <2>1, <3>1, SetIs
  <2>3. /\ par \in Pointers
        /\ \A x \in Nodes : par[x] = IF x = H.right[C] THEN P ELSE Set(Set(down, s, C), H.left[C], P)[x]
    <3>1. H.right[C] \in Links /\ P \in Links
      BY <1>2
    <3> QED
      BY <2>2, <3>1, SetIs
  <2> HIDE DEF par
  <2> QED
    BY <2>1, <2>2, <2>3
<1>6. intoLeft \in Links /\ intoRight \in Links
  BY <1>2 DEF Links
<1>7. lef \in Pointers /\ \A x \in Nodes : lef[x] = IF x = intoLeft THEN C ELSE lefts[x]
  <2>1. lefts \in Pointers /\ C \in Links
    BY <1>2, <1>3
  <2> HIDE DEF intoLeft
  <2> QED
    BY <1>6, <2>1, SetIs
<1>8. rig \in Pointers /\ \A x \in Nodes : rig[x] = IF x = intoRight THEN C ELSE rights[x]
  <2>1. rights \in Pointers /\ C \in Links
    BY <1>2, <1>3
  <2> HIDE DEF intoRight
  <2> QED
    BY <1>6, <2>1, SetIs
<1> HIDE DEF par, lef, rig
<1>9. \A x \in Nodes : /\ x = intoLeft <=> x = g /\ H.left[g] = P
                       /\ x = intoRight <=> x = g /\ H.left[g] # P
  BY NullAssumption
<1>10. /\ G.parent = par /\ G.left = lef /\ G.right = rig /\ G.nelts = H.nelts
       /\ G.min = IF g = Null THEN C ELSE H.min
       /\ G \in Heaps
  <2> QED
    BY <1>1, <1>2, <1>4, <1>5, <1>7, <1>8 DEF Heaps
<1>11. \A x \in Nodes :
         /\ G.parent[x] = IF x = H.right[C] \/ x = H.left[C] THEN P
                          ELSE IF x = s THEN C ELSE IF x = C THEN g
                          ELSE IF x = P THEN C ELSE H.parent[x]
         /\ G.left[x] = IF x = g /\ H.left[g] = P THEN C
                        ELSE IF x = C THEN (IF wasLeft THEN P ELSE s)
                        ELSE IF x = P THEN H.left[C] ELSE H.left[x]
         /\ G.right[x] = IF x = g /\ H.left[g] # P THEN C
                         ELSE IF x = C THEN (IF wasLeft THEN s ELSE P)
                         ELSE IF x = P THEN H.right[C] ELSE H.right[x]
  <2> HIDE DEF intoLeft, intoRight, wasLeft
  <2> QED
    BY <1>3, <1>5, <1>7, <1>8, <1>9, <1>10
<1> QED
  BY <1>10, <1>11

\* heap_node_swap leaves the tree whose layout has the two nodes exchanged.
LEMMA SwapKeeps ==
    ASSUME NEW H \in Heaps, NEW p, LaidOut(H, p), NEW q \in 1..H.nelts, NEW c \in 1..H.nelts,
           c = 2 * q \/ c = 2 * q + 1
    PROVE  /\ HeapSwap(H, p[q], p[c]) \in Heaps
           /\ HeapSwap(H, p[q], p[c]).nelts = H.nelts
           /\ LaidOut(HeapSwap(H, p[q], p[c]), Swapped(p, q, c))
<1> DEFINE n == H.nelts
           G == HeapSwap(H, p[q], p[c])
           r == Swapped(p, q, c)
           d == 4 * q + 1 - c
           g == Up(q)
<1>1. n \in Nat /\ IsLayout(p, n)
  BY DEF Heaps, LaidOut
<1>2. /\ q \in 1..n /\ c \in 1..n /\ q # c /\ q \in Nat /\ c \in Nat
      /\ d \in Nat /\ d # c /\ d # q /\ (d = 2 * q \/ d = 2 * q + 1)
      /\ 2 * q \in Nat /\ 2 * c \in Nat
  BY <1>1
<1>3. g \in Nat /\ g < q /\ (q = 2 * g \/ q = 2 * g + 1) /\ (g = 0 <=> q = 1)
  BY <1>2, UpIs
<1>4. \A i \in 1..n : \A j \in Nat : p[i] = p[j] <=> i = j
  BY <1>1, NodesOfLayout
<1>5. \A i \in 1..n : /\ p[i] \in Nodes /\ i \in Nat /\ H.left[p[i]] = p[2 * i]
                      /\ H.right[p[i]] = p[2 * i + 1] /\ H.parent[p[i]] = p[Up(i)]
  BY <1>1, NodesOfLayout DEF LaidOut
<1>6. H.min = p[1] /\ p[0] = Null
  BY <1>1 DEF LaidOut, IsLayout
<1>7. p[q] \in Nodes /\ p[c] \in Nodes /\ p[q] # p[c]
  BY <1>2, <1>4, <1>5
<1>8. H.left[p[q]] = p[c] <=> c = 2 * q
  BY <1>2, <1>4, <1>5
<1>9. p[d] = Sibling(H, p[q], p[c])
  BY <1>2, <1>5, <1>8 DEF Sibling
<1>10. p[g] = H.parent[p[q]] /\ H.left[p[c]] = p[2 * c] /\ H.right[p[c]] = p[2 * c + 1]
  BY <1>2, <1>5
<1>11. (p[g] = Null) <=> (q = 1)
  BY <1>1, <1>2, <1>3 DEF IsLayout
<1>12. \A i \in 1..n : i = g => (H.left[p[g]] = p[q] <=> q = 2 * g)
  BY <1>2, <1>3, <1>4, <1>5
<1> HIDE DEF d, g, G
<1>13. /\ G \in Heaps /\ G.nelts = n
       /\ G.min = IF p[g] = Null THEN p[c] ELSE H.min
       /\ \A x \in Nodes :
            /\ G.parent[x] = IF x = H.right[p[c]] \/ x = H.left[p[c]] THEN p[q]
                             ELSE IF x = p[d] THEN p[c] ELSE IF x = p[c] THEN p[g]
                             ELSE IF x = p[q] THEN p[c] ELSE H.parent[x]
            /\ G.left[x] = IF x = p[g] /\ H.left[p[g]] = p[q] THEN p[c]
                           ELSE IF x = p[c] THEN (IF H.left[p[q]] = p[c] THEN p[q] ELSE p[d])
                           ELSE IF x = p[q] THEN H.left[p[c]] ELSE H.left[x]
            /\ G.right[x] = IF x = p[g] /\ H.left[p[g]] # p[q] THEN p[c]
                            ELSE IF x = p[c] THEN (IF H.left[p[q]] = p[c] THEN p[d] ELSE p[q])
                            ELSE IF x = p[q] THEN H.right[p[c]] ELSE H.right[x]
  <2>1. G = HeapSwap(H, p[q], p[c])
    BY DEF G
  <2> QED
    BY <1>7, <1>9, <1>10, <2>1, SwapFields
<1>14. \A i \in 1..n :
         G.parent[p[i]] = IF i = 2 * c + 1 \/ i = 2 * c THEN p[q]
                          ELSE IF i = d THEN p[c] ELSE IF i = c THEN p[g]
                          ELSE IF i = q THEN p[c] ELSE p[Up(i)]
  BY <1>2, <1>4, <1>5, <1>10, <1>13
<1>15. \A i \in 1..n :
         G.left[p[i]] = IF i = g /\ q = 2 * g THEN p[c]
                        ELSE IF i = c THEN (IF c = 2 * q THEN p[q] ELSE p[d])
                        ELSE IF i = q THEN p[2 * c] ELSE p[2 * i]
  BY <1>2, <1>3, <1>4, <1>5, <1>8, <1>10, <1>12, <1>13
<1>16. \A i \in 1..n :
         G.right[p[i]] = IF i = g /\ q # 2 * g THEN p[c]
                         ELSE IF i = c THEN (IF c = 2 * q THEN p[d] ELSE p[q])
                         ELSE IF i = q THEN p[2 * c + 1] ELSE p[2 * i + 1]
  BY <1>2, <1>3, <1>4, <1>5, <1>8, <1>10, <1>12, <1>13
<1>17. IsLayout(r, n) /\ \A i \in Nat : r[i] = IF i = q THEN p[c] ELSE IF i = c THEN p[q] ELSE p[i]
  BY <1>1, <1>2, SwappedIs
<1> HIDE DEF r
<1>18. G.min = r[1]
  BY <1>2, <1>6, <1>11, <1>13, <1>17
<1>19. ASSUME NEW i \in 1..n
       PROVE  G.left[r[i]] = r[2 * i] /\ G.right[r[i]] = r[2 * i + 1] /\ G.parent[r[i]] = r[Up(i)]
  <2>0. i \in Nat /\ 2 * i \in Nat /\ 2 * i + 1 \in Nat /\ Up(i) \in Nat /\ (i = 2 * Up(i) \/ i = 2 * Up(i) + 1)
    BY UpIs
  <2>1. CASE i = q
    <3>1. r[i] = p[c] /\ r[2 * i] = (IF c = 2 * q THEN p[q] ELSE p[d])
          /\ r[2 * i + 1] = (IF c = 2 * q THEN p[d] ELSE p[q]) /\ r[Up(i)] = p[g]
      BY <1>2, <1>3, <1>17, <2>0, <2>1 DEF g
    <3> QED
      BY <1>2, <1>3, <1>14, <1>15, <1>16, <3>1
  <2>2. CASE i = c
    <3>1. r[i] = p[q] /\ r[2 * i] = p[2 * c] /\ r[2 * i + 1] = p[2 * c + 1] /\ r[Up(i)] = p[c]
      BY <1>2, <1>17, <2>0, <2>2
    <3> QED
      BY <1>2, <1>3, <1>14, <1>15, <1>16, <3>1
  <2>3. CASE i # q /\ i # c
    <3>1. r[i] = p[i]
      BY <1>17, <2>0, <2>3
    <3>2. G.left[p[i]] = r[2 * i]
      BY <1>2, <1>3, <1>15, <1>17, <2>0, <2>3
    <3>3. G.right[p[i]] = r[2 * i + 1]
      BY <1>2, <1>3, <1>16, <1>17, <2>0, <2>3
    <3>4. G.parent[p[i]] = r[Up(i)]
      BY <1>2, <1>3, <1>14, <1>17, <2>0, <2>3
    <3> QED
      BY <3>1, <3>2, <3>3, <3>4
  <2> QED
    BY <2>1, <2>2, <2>3
<1> QED
  BY <1>13, <1>17, <1>18, <1>19 DEF LaidOut, G, r

-----------------------------------------------------------------------------
(* Recursion: what NodeAt and the two walks compute *)

\* The path of bits leads to the node at a position, for every position.
LEMMA NodeAtIs ==
    ASSUME NEW H \in Heaps, NEW p, LaidOut(H, p), NEW i \in 1..H.nelts
    PROVE  NodeAt(H, i) = p[i]
<1> DEFINE Finds(f) == f = [k \in 1..i |->
                              IF k = 1 THEN H.min
                              ELSE IF k % 2 = 1 THEN H.right[f[k \div 2]] ELSE H.left[f[k \div 2]]]
           node == CHOOSE f : f = [k \in 1..i |->
                              IF k = 1 THEN H.min
                              ELSE IF k % 2 = 1 THEN H.right[f[k \div 2]] ELSE H.left[f[k \div 2]]]
<1>0. i \in Nat /\ 1..i \subseteq 1..H.nelts /\ i # 0
  BY DEF Heaps
<1>1. NodeAt(H, i) = node[i]
  BY DEF NodeAt
<1>2. ASSUME NEW k \in 1..i, k # 1
      PROVE  /\ Up(k) \in 1..i /\ Up(k) < k
             /\ k % 2 = 1 => p[k] = H.right[p[Up(k)]]
             /\ k % 2 # 1 => p[k] = H.left[p[Up(k)]]
  <2>1. /\ Up(k) \in Nat /\ (k % 2 = 1 => k = 2 * Up(k) + 1) /\ (k % 2 # 1 => k = 2 * Up(k))
    BY <1>0, SMTT(20) DEF Up
  <2>2. Up(k) \in 1..i /\ Up(k) < k
    BY <1>0, <1>2, <2>1
  <2> QED
    BY <1>0, <2>1, <2>2 DEF LaidOut
<1>3. Finds([k \in 1..i |-> p[k]])
  <2> DEFINE f == [k \in 1..i |-> p[k]]
  <2>1. ASSUME NEW k \in 1..i
        PROVE  f[k] = IF k = 1 THEN H.min
                      ELSE IF k % 2 = 1 THEN H.right[f[k \div 2]] ELSE H.left[f[k \div 2]]
    <3>1. CASE k = 1
      BY <1>0, <3>1 DEF LaidOut
    <3>2. CASE k # 1
      BY <1>0, <1>2, <3>2 DEF Up
    <3> QED
      BY <3>1, <3>2
  <2> HIDE DEF f
  <2>2. f = [k \in 1..i |-> f[k]]
    BY DEF f
  <2> QED
    BY <2>1, <2>2 DEF f
<1>4. Finds(node)
  BY <1>3
<1> HIDE DEF node
<1> DEFINE S == {m \in Nat : \A k \in 1..i : k <= m => node[k] = p[k]}
<1>5. 0 \in S
  OBVIOUS
<1>6. ASSUME NEW m \in 0..i - 1, m \in S PROVE m + 1 \in S
  <2>1. ASSUME NEW k \in 1..i, k = m + 1 PROVE node[k] = p[k]
    <3>1. CASE k = 1
      BY <1>4, <3>1 DEF LaidOut
    <3>2. CASE k # 1
      <4>1. Up(k) \in 1..i /\ Up(k) <= m
        BY <1>0, <1>2, <2>1, <3>2
      <4>2. node[Up(k)] = p[Up(k)]
        BY <1>6, <4>1
      <4>3. node[k] = IF k % 2 = 1 THEN H.right[node[Up(k)]] ELSE H.left[node[Up(k)]]
        BY <1>4, <3>2 DEF Up
      <4> QED
        BY <1>2, <3>2, <4>2, <4>3
    <3> QED
      BY <3>1, <3>2
  <2> QED
    BY <1>0, <1>6, <2>1
<1>7. i \in S
  <2> HIDE DEF S
  <2>1. \A k \in 0..i : k \in S
    BY <1>0, <1>5, <1>6, UpToAll
  <2> QED
    BY <1>0, <2>1
<1> QED
  BY <1>0, <1>1, <1>7

\* WalkUp is the last of a row of heaps, each one pass after the one before.
LEMMA WalkUpIs ==
    ASSUME NEW H, H.nelts \in Nat, NEW before, NEW x
    PROVE  \E w : /\ w[0] = H
                  /\ \A k \in 1..H.nelts : w[k] = OneUp(w[k - 1], before, x)
                  /\ WalkUp(H, before, x) = w[H.nelts]
<1> DEFINE Runs(m, f) == f = [k \in 0..m |-> IF k = 0 THEN H ELSE OneUp(f[k - 1], before, x)]
           S == {m \in Nat : \E f : Runs(m, f)}
<1>1. 0 \in S
  <2>1. Runs(0, [k \in 0..0 |-> H])
    OBVIOUS
  <2> QED
    BY <2>1, Zenon
<1>2. ASSUME NEW m \in 0..H.nelts - 1, m \in S PROVE m + 1 \in S
  <2>1. PICK f : Runs(m, f)
    BY <1>2, Zenon
  <2> DEFINE g == [k \in 0..m + 1 |-> IF k = m + 1 THEN OneUp(f[m], before, x) ELSE f[k]]
  <2>2. m \in Nat /\ m + 1 \in Nat
    OBVIOUS
  <2>3. \A k \in 0..m : g[k] = f[k]
    BY <2>2
  <2>4. f[0] = H /\ \A k \in 1..m : f[k] = OneUp(f[k - 1], before, x)
    BY <2>1, <2>2
  <2>5. ASSUME NEW k \in 0..m + 1
        PROVE  g[k] = IF k = 0 THEN H ELSE OneUp(g[k - 1], before, x)
    <3>1. CASE k = 0
      BY <2>2, <2>3, <2>4, <3>1
    <3>2. CASE k \in 1..m
      <4>1. g[k] = f[k] /\ g[k - 1] = f[k - 1] /\ k # 0
        BY <2>2, <2>3, <3>2
      <4> QED
        BY <2>4, <3>2, <4>1
    <3>3. CASE k = m + 1
      <4>1. g[k] = OneUp(f[m], before, x) /\ g[k - 1] = f[m] /\ k # 0
        BY <2>2, <2>3, <3>3
      <4> QED
        BY <4>1
    <3> QED
      BY <2>2, <3>1, <3>2, <3>3
  <2>6. g = [k \in 0..m + 1 |-> g[k]]
    OBVIOUS
  <2> HIDE DEF g
  <2>7. Runs(m + 1, g)
    BY <2>5, <2>6
  <2> QED
    BY <2>2, <2>7, Zenon
<1>3. H.nelts \in S
  <2> HIDE DEF S
  <2>1. \A k \in 0..H.nelts : k \in S
    BY <1>1, <1>2, UpToAll
  <2> QED
    BY <2>1
<1> DEFINE w == CHOOSE f : f = [k \in 0..H.nelts |-> IF k = 0 THEN H ELSE OneUp(f[k - 1], before, x)]
<1>4. Runs(H.nelts, w)
  BY <1>3
<1>5. WalkUp(H, before, x) = w[H.nelts]
  BY DEF WalkUp
<1> HIDE DEF w
<1>6. w[0] = H /\ \A k \in 1..H.nelts : w[k] = OneUp(w[k - 1], before, x)
  BY <1>4
<1> QED
  BY <1>5, <1>6, Zenon

\* The same for WalkDown.
LEMMA WalkDownIs ==
    ASSUME NEW H, H.nelts \in Nat, NEW before, NEW x
    PROVE  \E w : /\ w[0] = H
                  /\ \A k \in 1..H.nelts : w[k] = OneDown(w[k - 1], before, x)
                  /\ WalkDown(H, before, x) = w[H.nelts]
<1> DEFINE Runs(m, f) == f = [k \in 0..m |-> IF k = 0 THEN H ELSE OneDown(f[k - 1], before, x)]
           S == {m \in Nat : \E f : Runs(m, f)}
<1>1. 0 \in S
  <2>1. Runs(0, [k \in 0..0 |-> H])
    OBVIOUS
  <2> QED
    BY <2>1, Zenon
<1>2. ASSUME NEW m \in 0..H.nelts - 1, m \in S PROVE m + 1 \in S
  <2>1. PICK f : Runs(m, f)
    BY <1>2, Zenon
  <2> DEFINE g == [k \in 0..m + 1 |-> IF k = m + 1 THEN OneDown(f[m], before, x) ELSE f[k]]
  <2>2. m \in Nat /\ m + 1 \in Nat
    OBVIOUS
  <2>3. \A k \in 0..m : g[k] = f[k]
    BY <2>2
  <2>4. f[0] = H /\ \A k \in 1..m : f[k] = OneDown(f[k - 1], before, x)
    BY <2>1, <2>2
  <2>5. ASSUME NEW k \in 0..m + 1
        PROVE  g[k] = IF k = 0 THEN H ELSE OneDown(g[k - 1], before, x)
    <3>1. CASE k = 0
      BY <2>2, <2>3, <2>4, <3>1
    <3>2. CASE k \in 1..m
      <4>1. g[k] = f[k] /\ g[k - 1] = f[k - 1] /\ k # 0
        BY <2>2, <2>3, <3>2
      <4> QED
        BY <2>4, <3>2, <4>1
    <3>3. CASE k = m + 1
      <4>1. g[k] = OneDown(f[m], before, x) /\ g[k - 1] = f[m] /\ k # 0
        BY <2>2, <2>3, <3>3
      <4> QED
        BY <4>1
    <3> QED
      BY <2>2, <3>1, <3>2, <3>3
  <2>6. g = [k \in 0..m + 1 |-> g[k]]
    OBVIOUS
  <2> HIDE DEF g
  <2>7. Runs(m + 1, g)
    BY <2>5, <2>6
  <2> QED
    BY <2>2, <2>7, Zenon
<1>3. H.nelts \in S
  <2> HIDE DEF S
  <2>1. \A k \in 0..H.nelts : k \in S
    BY <1>1, <1>2, UpToAll
  <2> QED
    BY <2>1
<1> DEFINE w == CHOOSE f : f = [k \in 0..H.nelts |-> IF k = 0 THEN H ELSE OneDown(f[k - 1], before, x)]
<1>4. Runs(H.nelts, w)
  BY <1>3
<1>5. WalkDown(H, before, x) = w[H.nelts]
  BY DEF WalkDown
<1> HIDE DEF w
<1>6. w[0] = H /\ \A k \in 1..H.nelts : w[k] = OneDown(w[k - 1], before, x)
  BY <1>4
<1> QED
  BY <1>5, <1>6, Zenon

-----------------------------------------------------------------------------
(* Order: the two walks *)

\* before[b] are the nodes earlier than b; a not in before[b] reads "b is not later".
Ordering(before, S) ==
    /\ \A a, b \in S : a \in before[b] => b \notin before[a]
    /\ \A a, b, c \in S : a \notin before[b] /\ b \notin before[c] => a \notin before[c]

Members(p, n) == {p[i] : i \in 1..n}

Sorted(p, n, before) == \A i \in 2..n : p[i] \notin before[p[Up(i)]]

\* Sorted but for the node at j, whose children are not earlier than its parent.
Loose(p, n, before, j) ==
    /\ \A i \in 2..n : i # j /\ Up(i) # j => p[i] \notin before[p[Up(i)]]
    /\ \A i \in 2..n : Up(i) = j /\ j # 1 => p[i] \notin before[p[Up(j)]]

AboveChildren(p, n, before, j) == \A i \in 2..n : Up(i) = j => p[i] \notin before[p[j]]

\* A heap of the nodes in S but for x, which stands at j.
Walking(H, n, S, before, x, p, j) ==
    /\ H \in Heaps /\ H.nelts = n /\ LaidOut(H, p) /\ Members(p, n) = S
    /\ j \in 1..n /\ p[j] = x /\ Loose(p, n, before, j)

\* Exchanging two nodes keeps the members.
LEMMA SwappedMembers ==
    ASSUME NEW n \in Nat, NEW p, IsLayout(p, n), NEW q \in 1..n, NEW c \in 1..n, q # c
    PROVE  Members(Swapped(p, q, c), n) = Members(p, n)
<1> DEFINE r == Swapped(p, q, c)
<1>1. \A i \in Nat : r[i] = IF i = q THEN p[c] ELSE IF i = c THEN p[q] ELSE p[i]
  BY SwappedIs
<1> HIDE DEF r
<1>2. 1..n \subseteq Nat
  OBVIOUS
<1>3. \A i \in 1..n : \E k \in 1..n : r[i] = p[k]
  BY <1>1, <1>2
<1>4. \A i \in 1..n : \E k \in 1..n : p[i] = r[k]
  <2> SUFFICES ASSUME NEW i \in 1..n PROVE \E k \in 1..n : p[i] = r[k]
    OBVIOUS
  <2>1. p[i] = r[IF i = q THEN c ELSE IF i = c THEN q ELSE i]
    BY <1>1, <1>2
  <2> QED
    BY <2>1
<1>5. Members(r, n) = Members(p, n)
  BY <1>3, <1>4 DEF Members
<1> QED
  BY <1>5 DEF r

\* Swapping the loose node with its parent, to which it is earlier.
LEMMA LooseUp ==
    ASSUME NEW n \in Nat, NEW S, NEW before, Ordering(before, S),
           NEW p, IsLayout(p, n), Members(p, n) = S, NEW j \in 2..n,
           Loose(p, n, before, j), AboveChildren(p, n, before, j), p[j] \in before[p[Up(j)]],
           NEW r, \A i \in Nat : r[i] = IF i = Up(j) THEN p[j] ELSE IF i = j THEN p[Up(j)] ELSE p[i]
    PROVE  Loose(r, n, before, Up(j)) /\ AboveChildren(r, n, before, Up(j))
<1> DEFINE q == Up(j)
<1>1. j \in Nat /\ q \in 1..n /\ q \in Nat /\ q < j /\ 1..n \subseteq Nat /\ 2..n \subseteq 1..n
  BY UpIs
<1>2. \A i \in 2..n : Up(i) \in 1..n /\ Up(i) < i
  BY UpIs
<1>3. \A i \in 1..n : p[i] \in S
  BY DEF Members
<1>4. \A i \in 2..n : i # j /\ Up(i) # j => p[i] \notin before[p[Up(i)]]
  BY DEF Loose
<1>5. \A i \in 2..n : Up(i) = j => p[i] \notin before[p[q]]
  BY <1>1 DEF Loose
<1>6. p[q] \notin before[p[j]]
  BY <1>1, <1>3 DEF Ordering
<1>7. r[q] = p[j] /\ r[j] = p[q] /\ \A i \in 1..n : i # q /\ i # j => r[i] = p[i]
  BY <1>1
<1>8. Up(j) = q
  OBVIOUS
<1> HIDE DEF q
<1>9. ASSUME NEW i \in 2..n, Up(i) = q PROVE r[i] \notin before[r[q]]
  <2>1. CASE i = j
    BY <1>6, <1>7, <2>1
  <2>2. CASE i # j
    <3>1. i # q /\ r[i] = p[i]
      BY <1>1, <1>2, <1>7, <1>9, <2>2
    <3>2. p[i] \notin before[p[q]]
      BY <1>1, <1>4, <1>9, <2>2
    <3>3. p[i] \in S /\ p[q] \in S /\ p[j] \in S
      BY <1>1, <1>3
    <3> QED
      BY <1>6, <1>7, <3>1, <3>2, <3>3 DEF Ordering
  <2> QED
    BY <2>1, <2>2
<1>10. ASSUME NEW i \in 2..n, i # q, Up(i) # q PROVE r[i] \notin before[r[Up(i)]]
  <2>1. i # j /\ r[i] = p[i]
    BY <1>1, <1>7, <1>8, <1>10
  <2>2. CASE Up(i) = j
    BY <1>5, <1>7, <2>1, <2>2
  <2>3. CASE Up(i) # j
    BY <1>2, <1>4, <1>7, <1>10, <2>1, <2>3
  <2> QED
    BY <2>2, <2>3
<1>11. ASSUME NEW i \in 2..n, Up(i) = q, q # 1 PROVE r[i] \notin before[r[Up(q)]]
  <2>1. q \in 2..n /\ Up(q) \in 1..n /\ Up(q) < q /\ q # j
    BY <1>1, <1>2, <1>11
  <2>2. r[Up(q)] = p[Up(q)] /\ p[q] \notin before[p[Up(q)]]
    BY <1>1, <1>4, <1>7, <2>1
  <2>3. CASE i = j
    BY <1>7, <2>2, <2>3
  <2>4. CASE i # j
    <3>1. i # q /\ r[i] = p[i]
      BY <1>1, <1>2, <1>7, <1>11, <2>4
    <3>2. p[i] \notin before[p[q]]
      BY <1>1, <1>4, <1>11, <2>4
    <3>3. p[i] \in S /\ p[q] \in S /\ p[Up(q)] \in S
      BY <1>1, <1>3, <2>1
    <3> QED
      BY <2>2, <3>1, <3>2, <3>3 DEF Ordering
  <2> QED
    BY <2>3, <2>4
<1> QED
  BY <1>8, <1>9, <1>10, <1>11 DEF Loose, AboveChildren

\* One pass of the walk up: it has ended, or the node stands one row higher.
LEMMA StepUp ==
    ASSUME NEW n \in Nat, NEW S, NEW before, Ordering(before, S), NEW H, NEW x, NEW p, NEW j,
           Walking(H, n, S, before, x, p, j), AboveChildren(p, n, before, j)
    PROVE  \/ OneUp(H, before, x) = H /\ Sorted(p, n, before)
           \/ /\ ~ Sorted(p, n, before)
              /\ \E r, k : /\ Walking(OneUp(H, before, x), n, S, before, x, r, k)
                           /\ AboveChildren(r, n, before, k) /\ k < j
<1>1. /\ H \in Heaps /\ H.nelts = n /\ LaidOut(H, p) /\ IsLayout(p, n) /\ Members(p, n) = S
      /\ j \in 1..n /\ j \in Nat /\ p[j] = x /\ Loose(p, n, before, j)
  BY DEF Walking, LaidOut
<1>2. H.parent[x] = p[Up(j)] /\ (p[Up(j)] # Null <=> j # 1) /\ Up(j) \in Nat /\ (j # 1 => Up(j) \in 1..n /\ Up(j) < j)
  <2>1. Up(j) \in Nat /\ (j # 1 => Up(j) \in 1..n /\ Up(j) < j) /\ (j = 1 => Up(j) = 0)
    BY <1>1, UpIs
  <2> QED
    BY <1>1, <2>1 DEF LaidOut, IsLayout
<1>3. CASE j # 1 /\ x \in before[p[Up(j)]]
  <2> DEFINE q == Up(j)
             r == Swapped(p, q, j)
  <2>0. q \in 1..n /\ q # j /\ q < j /\ (j = 2 * q \/ j = 2 * q + 1)
    BY <1>1, <1>2, <1>3, UpIs
  <2>1. OneUp(H, before, x) = HeapSwap(H, p[q], p[j])
    BY <1>1, <1>2, <1>3 DEF OneUp
  <2> HIDE DEF q
  <2>2. HeapSwap(H, p[q], p[j]) \in Heaps /\ HeapSwap(H, p[q], p[j]).nelts = n /\ LaidOut(HeapSwap(H, p[q], p[j]), r)
    BY <1>1, <2>0, SwapKeeps
  <2>3. /\ IsLayout(r, n)
        /\ \A i \in Nat : r[i] = IF i = q THEN p[j] ELSE IF i = j THEN p[q] ELSE p[i]
    BY <1>1, <2>0, SwappedIs
  <2>4. Members(r, n) = S
    BY <1>1, <2>0, SwappedMembers
  <2> HIDE DEF r
  <2>5. Loose(r, n, before, q) /\ AboveChildren(r, n, before, q)
    <3>1. j \in 2..n
      BY <1>1, <1>3
    <3>2. \A i \in Nat : r[i] = IF i = Up(j) THEN p[j] ELSE IF i = j THEN p[Up(j)] ELSE p[i]
      BY <2>3 DEF q
    <3>3. p[j] \in before[p[Up(j)]]
      BY <1>1, <1>3
    <3>4. Loose(r, n, before, Up(j)) /\ AboveChildren(r, n, before, Up(j))
      BY <1>1, <3>1, <3>2, <3>3, LooseUp
    <3> QED
      BY <3>4 DEF q
  <2>6. r[q] = x
    BY <1>1, <2>0, <2>3
  <2>7. Walking(OneUp(H, before, x), n, S, before, x, r, q)
    BY <2>0, <2>1, <2>2, <2>4, <2>5, <2>6 DEF Walking
  <2>8. ~ Sorted(p, n, before)
    BY <1>1, <1>3 DEF Sorted
  <2> QED
    BY <2>0, <2>5, <2>7, <2>8
<1>4. CASE ~ (j # 1 /\ x \in before[p[Up(j)]])
  <2>1. OneUp(H, before, x) = H
    BY <1>2, <1>4 DEF OneUp
  <2>2. Sorted(p, n, before)
    BY <1>1, <1>4 DEF Loose, AboveChildren, Sorted
  <2> QED
    BY <2>1, <2>2
<1> QED
  BY <1>3, <1>4

\* The walk up ends, with a heap.
LEMMA WalkUpSorts ==
    ASSUME NEW n \in Nat, NEW S, NEW before, Ordering(before, S), NEW H, NEW x, NEW p, NEW j,
           Walking(H, n, S, before, x, p, j), AboveChildren(p, n, before, j)
    PROVE  /\ WalkUp(H, before, x) \in Heaps /\ WalkUp(H, before, x).nelts = n
           /\ \E r : /\ LaidOut(WalkUp(H, before, x), r) /\ Members(r, n) = S
                     /\ Sorted(r, n, before)
<1> DEFINE Walked(G, r, k, m) == /\ Walking(G, n, S, before, x, r, k) /\ AboveChildren(r, n, before, k)
                                 /\ Sorted(r, n, before) \/ k + m <= n
<1>1. H.nelts = n /\ j \in 1..n
  BY DEF Walking
<1>2. PICK w : /\ w[0] = H
               /\ \A k \in 1..n : w[k] = OneUp(w[k - 1], before, x)
               /\ WalkUp(H, before, x) = w[n]
  BY <1>1, WalkUpIs
<1> DEFINE T == {m \in Nat : \E r, k : Walked(w[m], r, k, m)}
<1>3. 0 \in T
  <2>1. Walked(w[0], p, j, 0)
    BY <1>1, <1>2
  <2> QED
    BY <2>1, Zenon
<1>4. ASSUME NEW m \in 0..n - 1, m \in T PROVE m + 1 \in T
  <2>1. PICK r, k : Walked(w[m], r, k, m)
    BY <1>4, Zenon
  <2>2. k \in 1..n
    BY <2>1 DEF Walking
  <2>3. w[m + 1] = OneUp(w[m], before, x) /\ m + 1 \in Nat /\ m \in Nat
    BY <1>2
  <2>4. CASE OneUp(w[m], before, x) = w[m] /\ Sorted(r, n, before)
    <3>1. Walked(w[m + 1], r, k, m + 1)
      BY <2>1, <2>3, <2>4
    <3> QED
      BY <2>3, <3>1, Zenon
  <2>5. CASE /\ ~ Sorted(r, n, before)
             /\ \E r2, k2 : /\ Walking(OneUp(w[m], before, x), n, S, before, x, r2, k2)
                            /\ AboveChildren(r2, n, before, k2) /\ k2 < k
    <3>1. PICK r2, k2 : /\ Walking(OneUp(w[m], before, x), n, S, before, x, r2, k2)
                        /\ AboveChildren(r2, n, before, k2) /\ k2 < k
      BY <2>5, Zenon
    <3>2. k2 \in 1..n
      BY <3>1 DEF Walking
    <3>3. k + m <= n
      BY <2>1, <2>5
    <3>4. k2 + (m + 1) <= n
      BY <2>2, <2>3, <3>1, <3>2, <3>3
    <3>5. Walked(w[m + 1], r2, k2, m + 1)
      BY <2>3, <3>1, <3>4
    <3> QED
      BY <2>3, <3>5, Zenon
  <2>6. Walking(w[m], n, S, before, x, r, k) /\ AboveChildren(r, n, before, k)
    BY <2>1
  <2> QED
    BY <2>4, <2>5, <2>6, StepUp
<1>5. PICK r, k : Walked(w[n], r, k, n)
  <2> HIDE DEF T
  <2>1. \A m \in 0..n : m \in T
    BY <1>3, <1>4, UpToAll
  <2>2. n \in T
    BY <2>1
  <2> QED
    BY <2>2 DEF T
<1>6. k \in 1..n
  BY <1>5 DEF Walking
<1>7. Sorted(r, n, before)
  BY <1>5, <1>6
<1> QED
  BY <1>2, <1>5, <1>7 DEF Walking

\* Swapping the loose node with the earlier of its children, which is earlier than it.
LEMMA LooseDown ==
    ASSUME NEW n \in Nat, NEW S, NEW before, Ordering(before, S),
           NEW p, IsLayout(p, n), Members(p, n) = S, NEW c \in 2..n, NEW j, j = Up(c),
           Loose(p, n, before, j), \A i \in 2..n : Up(i) = j => p[i] \notin before[p[c]],
           NEW r, \A i \in Nat : r[i] = IF i = j THEN p[c] ELSE IF i = c THEN p[j] ELSE p[i]
    PROVE  Loose(r, n, before, c)
<1>1. c \in Nat /\ j \in 1..n /\ j \in Nat /\ j < c /\ 1..n \subseteq Nat /\ 2..n \subseteq 1..n
  BY UpIs
<1>2. \A i \in 2..n : Up(i) \in 1..n /\ Up(i) < i
  BY UpIs
<1>3. \A i \in 2..n : i # j /\ Up(i) # j => p[i] \notin before[p[Up(i)]]
  BY DEF Loose
<1>4. \A i \in 2..n : Up(i) = j /\ j # 1 => p[i] \notin before[p[Up(j)]]
  BY DEF Loose
<1>5. r[j] = p[c] /\ r[c] = p[j] /\ \A i \in 1..n : i # j /\ i # c => r[i] = p[i]
  BY <1>1
<1>6. ASSUME NEW i \in 2..n, i # c, Up(i) # c PROVE r[i] \notin before[r[Up(i)]]
  <2>1. CASE i = j
    <3>1. Up(j) \in 1..n /\ Up(j) < j /\ j # 1
      BY <1>1, <1>2, <2>1
    <3>2. r[Up(j)] = p[Up(j)]
      BY <1>1, <1>5, <3>1
    <3> QED
      BY <1>4, <1>5, <2>1, <3>1, <3>2
  <2>2. CASE Up(i) = j
    <3>1. i # j /\ r[i] = p[i]
      BY <1>1, <1>2, <1>5, <1>6, <2>2
    <3> QED
      BY <1>5, <2>2, <3>1
  <2>3. CASE i # j /\ Up(i) # j
    BY <1>1, <1>2, <1>3, <1>5, <1>6, <2>3
  <2> QED
    BY <2>1, <2>2, <2>3
<1>7. ASSUME NEW i \in 2..n, Up(i) = c PROVE r[i] \notin before[r[Up(c)]]
  <2>1. i # j /\ i # c /\ c # j /\ r[i] = p[i]
    BY <1>1, <1>2, <1>5, <1>7
  <2> QED
    BY <1>3, <1>5, <1>7, <2>1
<1> QED
  BY <1>6, <1>7 DEF Loose

\* The node that the walk down exchanges with is the earliest of a node and its children.
LEMMA SmallestIs ==
    ASSUME NEW n \in Nat, NEW S, NEW before, Ordering(before, S), NEW H, NEW x, NEW p, NEW j,
           Walking(H, n, S, before, x, p, j)
    PROVE  \/ Smallest(H, before, x) = x /\ AboveChildren(p, n, before, j)
           \/ /\ ~ AboveChildren(p, n, before, j)
              /\ \E c \in 2..n : /\ Up(c) = j /\ Smallest(H, before, x) = p[c]
                                 /\ \A i \in 2..n : Up(i) = j => p[i] \notin before[p[c]]
<1>1. /\ H.nelts = n /\ IsLayout(p, n) /\ Members(p, n) = S /\ j \in 1..n /\ j \in Nat /\ p[j] = x
      /\ H.left[x] = p[2 * j] /\ H.right[x] = p[2 * j + 1]
  BY DEF Walking, LaidOut
<1> DEFINE l == p[2 * j]
           r == p[2 * j + 1]
           s == Smallest(H, before, x)
<1>2. s = LET a == IF l # Null /\ l \in before[x] THEN l ELSE x
          IN IF r # Null /\ r \in before[a] THEN r ELSE a
  BY <1>1 DEF Smallest
<1>3. /\ 2 * j \in Nat /\ 2 * j + 1 \in Nat
      /\ (l # Null <=> 2 * j \in 2..n) /\ (r # Null <=> 2 * j + 1 \in 2..n)
      /\ \A i \in 2..n : Up(i) = j <=> i = 2 * j \/ i = 2 * j + 1
  BY <1>1, UpIs DEF IsLayout
<1>4. /\ x \in S /\ (l # Null => l \in S) /\ (r # Null => r \in S)
  BY <1>1, <1>3 DEF Members
<1>5. \A i \in 2..n : Up(i) = j => (p[i] = l /\ l # Null) \/ (p[i] = r /\ r # Null)
  <2> SUFFICES ASSUME NEW i \in 2..n, Up(i) = j PROVE (p[i] = l /\ l # Null) \/ (p[i] = r /\ r # Null)
    OBVIOUS
  <2>1. i = 2 * j \/ i = 2 * j + 1
    BY <1>3
  <2> QED
    BY <1>3, <2>1
<1> DEFINE LeftOut(c) == l # Null => l \notin before[c]
           RightOut(c) == r # Null => r \notin before[c]
<1>6. ASSUME NEW c, LeftOut(c), RightOut(c)
      PROVE  \A i \in 2..n : Up(i) = j => p[i] \notin before[c]
  BY <1>5, <1>6
<1>7. CASE ~ (l # Null /\ l \in before[x]) /\ ~ (r # Null /\ r \in before[x])
  <2>1. s = x
    BY <1>2, <1>7
  <2>2. AboveChildren(p, n, before, j)
    BY <1>1, <1>6, <1>7 DEF AboveChildren
  <2> QED
    BY <2>1, <2>2
<1>8. CASE r # Null /\ s = r /\ (r \in before[x] \/ (l # Null /\ l \in before[x]))
  <2>1. LeftOut(r)
    BY <1>2, <1>4, <1>8 DEF Ordering
  <2>2. RightOut(r)
    BY <1>4 DEF Ordering
  <2>3. \A i \in 2..n : Up(i) = j => p[i] \notin before[r]
    BY <1>6, <2>1, <2>2
  <2>4. ~ AboveChildren(p, n, before, j)
    BY <1>1, <1>3, <1>8 DEF AboveChildren
  <2>5. 2 * j + 1 \in 2..n /\ Up(2 * j + 1) = j
    BY <1>3, <1>8
  <2> QED
    BY <1>8, <2>3, <2>4, <2>5
<1>9. CASE l # Null /\ s = l /\ l \in before[x]
  <2>1. RightOut(l)
    BY <1>2, <1>4, <1>9 DEF Ordering
  <2>2. LeftOut(l)
    BY <1>4 DEF Ordering
  <2>3. \A i \in 2..n : Up(i) = j => p[i] \notin before[l]
    BY <1>6, <2>1, <2>2
  <2>4. ~ AboveChildren(p, n, before, j)
    BY <1>1, <1>3, <1>9 DEF AboveChildren
  <2>5. 2 * j \in 2..n /\ Up(2 * j) = j
    BY <1>3, <1>9
  <2> QED
    BY <1>9, <2>3, <2>4, <2>5
<1>10. \/ ~ (l # Null /\ l \in before[x]) /\ ~ (r # Null /\ r \in before[x])
       \/ r # Null /\ s = r /\ (r \in before[x] \/ (l # Null /\ l \in before[x]))
       \/ l # Null /\ s = l /\ l \in before[x]
  <2> HIDE DEF s, l, r
  <2> QED
    BY <1>2
<1> QED
  BY <1>7, <1>8, <1>9, <1>10

\* One pass of the walk down: it has ended, or the node stands one row lower.
LEMMA StepDown ==
    ASSUME NEW n \in Nat, NEW S, NEW before, Ordering(before, S), NEW H, NEW x, NEW p, NEW j,
           Walking(H, n, S, before, x, p, j)
    PROVE  \/ OneDown(H, before, x) = H /\ AboveChildren(p, n, before, j)
           \/ /\ ~ AboveChildren(p, n, before, j)
              /\ \E r, k : Walking(OneDown(H, before, x), n, S, before, x, r, k) /\ j < k
<1>1. /\ H \in Heaps /\ H.nelts = n /\ LaidOut(H, p) /\ IsLayout(p, n) /\ Members(p, n) = S
      /\ j \in 1..n /\ j \in Nat /\ p[j] = x /\ Loose(p, n, before, j)
  BY DEF Walking, LaidOut
<1>2. CASE Smallest(H, before, x) = x /\ AboveChildren(p, n, before, j)
  BY <1>2 DEF OneDown
<1>3. ASSUME ~ AboveChildren(p, n, before, j),
             NEW c \in 2..n, Up(c) = j, Smallest(H, before, x) = p[c],
             \A i \in 2..n : Up(i) = j => p[i] \notin before[p[c]]
      PROVE  \E r, k : Walking(OneDown(H, before, x), n, S, before, x, r, k) /\ j < k
  <2> DEFINE r == Swapped(p, j, c)
             r2 == Swapped(p, c, j)
  <2>0. c \in 1..n /\ j # c /\ j < c /\ (c = 2 * j \/ c = 2 * j + 1) /\ p[c] # p[j]
    BY <1>1, <1>3, UpIs DEF IsLayout
  <2>1. OneDown(H, before, x) = HeapSwap(H, p[j], p[c])
    BY <1>1, <1>3, <2>0 DEF OneDown
  <2>2. HeapSwap(H, p[j], p[c]) \in Heaps /\ HeapSwap(H, p[j], p[c]).nelts = n /\ LaidOut(HeapSwap(H, p[j], p[c]), r)
    BY <1>1, <2>0, SwapKeeps
  <2>3. /\ IsLayout(r, n)
        /\ \A i \in Nat : r[i] = IF i = j THEN p[c] ELSE IF i = c THEN p[j] ELSE p[i]
    BY <1>1, <2>0, SwappedIs
  <2>4. Members(r, n) = S
    BY <1>1, <2>0, SwappedMembers
  <2> HIDE DEF r
  <2>5. Loose(r, n, before, c)
    BY <1>1, <1>3, <2>3, LooseDown
  <2>6. r[c] = x
    BY <1>1, <2>0, <2>3
  <2>7. Walking(OneDown(H, before, x), n, S, before, x, r, c)
    BY <2>0, <2>1, <2>2, <2>4, <2>5, <2>6 DEF Walking
  <2> QED
    BY <2>0, <2>7
<1> QED
  BY <1>2, <1>3, SmallestIs

\* The walk down ends, with children that are not earlier.
LEMMA WalkDownEnds ==
    ASSUME NEW n \in Nat, NEW S, NEW before, Ordering(before, S), NEW H, NEW x, NEW p, NEW j,
           Walking(H, n, S, before, x, p, j)
    PROVE  \E r, k : /\ Walking(WalkDown(H, before, x), n, S, before, x, r, k)
                     /\ AboveChildren(r, n, before, k)
<1> DEFINE Walked(G, r, k, m) == /\ Walking(G, n, S, before, x, r, k)
                                 /\ AboveChildren(r, n, before, k) \/ m < k
<1>1. H.nelts = n /\ j \in 1..n
  BY DEF Walking
<1>2. PICK w : /\ w[0] = H
               /\ \A k \in 1..n : w[k] = OneDown(w[k - 1], before, x)
               /\ WalkDown(H, before, x) = w[n]
  BY <1>1, WalkDownIs
<1> DEFINE T == {m \in Nat : \E r, k : Walked(w[m], r, k, m)}
<1>3. 0 \in T
  <2>1. Walked(w[0], p, j, 0)
    BY <1>1, <1>2
  <2> QED
    BY <2>1, Zenon
<1>4. ASSUME NEW m \in 0..n - 1, m \in T PROVE m + 1 \in T
  <2>1. PICK r, k : Walked(w[m], r, k, m)
    BY <1>4, Zenon
  <2>2. k \in 1..n
    BY <2>1 DEF Walking
  <2>3. w[m + 1] = OneDown(w[m], before, x) /\ m + 1 \in Nat /\ m \in Nat
    BY <1>2
  <2>4. CASE OneDown(w[m], before, x) = w[m] /\ AboveChildren(r, n, before, k)
    <3>1. Walked(w[m + 1], r, k, m + 1)
      BY <2>1, <2>3, <2>4
    <3> QED
      BY <2>3, <3>1, Zenon
  <2>5. CASE /\ ~ AboveChildren(r, n, before, k)
             /\ \E r2, k2 : Walking(OneDown(w[m], before, x), n, S, before, x, r2, k2) /\ k < k2
    <3>1. PICK r2, k2 : Walking(OneDown(w[m], before, x), n, S, before, x, r2, k2) /\ k < k2
      BY <2>5, Zenon
    <3>2. k2 \in 1..n
      BY <3>1 DEF Walking
    <3>3. m < k
      BY <2>1, <2>5
    <3>4. m + 1 < k2
      BY <2>2, <2>3, <3>1, <3>2, <3>3
    <3>5. Walked(w[m + 1], r2, k2, m + 1)
      BY <2>3, <3>1, <3>4
    <3> QED
      BY <2>3, <3>5, Zenon
  <2>6. Walking(w[m], n, S, before, x, r, k)
    BY <2>1
  <2> QED
    BY <2>4, <2>5, <2>6, StepDown
<1>5. PICK r, k : Walked(w[n], r, k, n)
  <2> HIDE DEF T
  <2>1. \A m \in 0..n : m \in T
    BY <1>3, <1>4, UpToAll
  <2>2. n \in T
    BY <2>1
  <2> QED
    BY <2>2 DEF T
<1>6. k \in 1..n
  BY <1>5 DEF Walking
<1> QED
  BY <1>2, <1>5, <1>6

-----------------------------------------------------------------------------
(* heap_insert and heap_remove *)

\* A heap of the nodes in S, in which none stands below a later one.
HeapAs(H, before, S) ==
    /\ H \in Heaps
    /\ \E p : LaidOut(H, p) /\ Members(p, H.nelts) = S /\ Sorted(p, H.nelts, before)

\* Linking a node writes the pointer of its parent, or the heap's.
LEMMA LinkIs ==
    ASSUME NEW H \in Heaps, NEW p, LaidOut(H, p), NEW k \in 1..H.nelts + 1, NEW v \in Links
    PROVE  /\ Link(H, k, v) \in Heaps /\ Link(H, k, v).nelts = H.nelts
           /\ Link(H, k, v).parent = H.parent
           /\ Link(H, k, v).min = IF k = 1 THEN v ELSE H.min
           /\ \A y \in Nodes :
                /\ Link(H, k, v).left[y] = IF k # 1 /\ k = 2 * Up(k) /\ y = p[Up(k)] THEN v ELSE H.left[y]
                /\ Link(H, k, v).right[y] = IF k # 1 /\ k # 2 * Up(k) /\ y = p[Up(k)] THEN v ELSE H.right[y]
<1>1. /\ H.nelts \in Nat /\ H.left \in Pointers /\ H.right \in Pointers /\ H.parent \in Pointers
      /\ H.min \in Links /\ k \in Nat
  BY DEF Heaps
<1>2. CASE k = 1
  <2>1. Link(H, k, v) = [H EXCEPT !.min = v]
    BY <1>2, Zenon DEF Link
  <2> QED
    BY <1>1, <1>2, <2>1 DEF Heaps
<1>3. CASE k # 1
  <2>1. Up(k) \in 1..H.nelts /\ (k % 2 = 1 <=> k # 2 * Up(k)) /\ k \div 2 = Up(k)
    <3>1. Up(k) \in 1..H.nelts
      BY <1>1, <1>3, UpIs
    <3>2. (k % 2 = 1 <=> k # 2 * Up(k)) /\ k \div 2 = Up(k)
      BY <1>1, SMTT(20) DEF Up
    <3> QED
      BY <3>1, <3>2
  <2>2. NodeAt(H, k \div 2) = p[Up(k)]
    BY <2>1, NodeAtIs
  <2>3. Link(H, k, v) = IF k # 2 * Up(k) THEN [H EXCEPT !.right[p[Up(k)]] = v]
                        ELSE [H EXCEPT !.left[p[Up(k)]] = v]
    BY <1>3, <2>1, <2>2, Zenon DEF Link
  <2>4. p[Up(k)] \in Nodes
    BY <1>1, <2>1, NodesOfLayout DEF LaidOut
  <2> HIDE DEF Up
  <2>5. CASE k # 2 * Up(k)
    <3>1. Link(H, k, v) = [H EXCEPT !.right = [H.right EXCEPT ![p[Up(k)]] = v]]
      BY <2>3, <2>5
    <3>2. [H.right EXCEPT ![p[Up(k)]] = v] \in Pointers
      BY <1>1, <2>4 DEF Pointers
    <3>3. Link(H, k, v).right = [H.right EXCEPT ![p[Up(k)]] = v] /\ Link(H, k, v).left = H.left
          /\ Link(H, k, v).nelts = H.nelts /\ Link(H, k, v).min = H.min /\ Link(H, k, v).parent = H.parent
          /\ Link(H, k, v) \in Heaps
      BY <1>1, <3>1, <3>2 DEF Heaps
    <3> QED
      BY <1>1, <1>3, <2>4, <2>5, <3>3 DEF Pointers
  <2>6. CASE k = 2 * Up(k)
    <3>1. Link(H, k, v) = [H EXCEPT !.left = [H.left EXCEPT ![p[Up(k)]] = v]]
      BY <2>3, <2>6
    <3>2. [H.left EXCEPT ![p[Up(k)]] = v] \in Pointers
      BY <1>1, <2>4 DEF Pointers
    <3>3. Link(H, k, v).left = [H.left EXCEPT ![p[Up(k)]] = v] /\ Link(H, k, v).right = H.right
          /\ Link(H, k, v).nelts = H.nelts /\ Link(H, k, v).min = H.min /\ Link(H, k, v).parent = H.parent
          /\ Link(H, k, v) \in Heaps
      BY <1>1, <3>1, <3>2 DEF Heaps
    <3> QED
      BY <1>1, <1>3, <2>4, <2>6, <3>3 DEF Pointers
  <2> QED
    BY <2>5, <2>6
<1> QED
  BY <1>2, <1>3

\* A node behind the last one.
Put(p, i, x) == [p EXCEPT ![i] = x]

\* A layout with one more node is one, of one more member.
LEMMA PutLast ==
    ASSUME NEW n \in Nat, NEW p, IsLayout(p, n), NEW x \in Nodes, \A i \in 1..n : p[i] # x,
           NEW r, r = Put(p, n + 1, x)
    PROVE  /\ IsLayout(r, n + 1) /\ Members(r, n + 1) = Members(p, n) \cup {x}
           /\ \A i \in Nat : r[i] = IF i = n + 1 THEN x ELSE p[i]
<1>1. p \in [Nat -> Links] /\ n + 1 \in Nat /\ x \in Links /\ x # Null
  BY NullAssumption DEF IsLayout, Links
<1>2. r \in [Nat -> Links] /\ \A i \in Nat : r[i] = IF i = n + 1 THEN x ELSE p[i]
  BY <1>1 DEF Put
<1>3. \A i \in Nat : r[i] # Null <=> i \in 1..n + 1
  BY <1>1, <1>2 DEF IsLayout
<1>4. \A i, j \in 1..n + 1 : r[i] = r[j] => i = j
  <2> SUFFICES ASSUME NEW i \in 1..n + 1, NEW j \in 1..n + 1, r[i] = r[j] PROVE i = j
    OBVIOUS
  <2>1. CASE i = n + 1 \/ j = n + 1
    BY <1>2, <2>1
  <2>2. CASE i \in 1..n /\ j \in 1..n
    BY <1>2, <2>2 DEF IsLayout
  <2> QED
    BY <2>1, <2>2
<1>5. Members(r, n + 1) = Members(p, n) \cup {x}
  <2>1. \A i \in 1..n : r[i] = p[i] /\ i \in 1..n + 1
    BY <1>2
  <2>2. r[n + 1] = x /\ n + 1 \in 1..n + 1 /\ 1..n + 1 = 1..n \cup {n + 1}
    BY <1>2
  <2> HIDE DEF IsLayout
  <2> QED
    BY <2>1, <2>2 DEF Members
<1> QED
  BY <1>2, <1>3, <1>4, <1>5 DEF IsLayout

\* heap_insert puts a new node behind the last one and walks it up: what was a heap of
\* the nodes in S is one of S and the new node.
THEOREM InsertKeepsHeap ==
    ASSUME NEW S, NEW before, NEW H, HeapAs(H, before, S), NEW x \in Nodes, x \notin S,
           Ordering(before, S \cup {x})
    PROVE  /\ HeapAs(HeapInsert(H, before, x), before, S \cup {x})
           /\ HeapInsert(H, before, x).nelts = H.nelts + 1
<1> DEFINE n == H.nelts
           i == n + 1
<1>1. PICK p : LaidOut(H, p) /\ Members(p, n) = S /\ Sorted(p, n, before)
  BY DEF HeapAs
<1>2. /\ H \in Heaps /\ n \in Nat /\ i \in Nat /\ i = n + 1 /\ IsLayout(p, n) /\ H.min = p[1]
      /\ H.left \in Pointers /\ H.right \in Pointers /\ H.parent \in Pointers /\ H.min \in Links
  BY <1>1 DEF HeapAs, Heaps, LaidOut
<1>3. /\ \A k \in 1..n : p[k] \in Nodes /\ p[k] # x /\ p[k] \in S
      /\ \A k \in Nat : p[k] \in Links /\ (k \notin 1..n => p[k] = Null)
  BY <1>1, <1>2, NodesOfLayout DEF Members
<1>4. Up(i) \in 0..n /\ (i # 1 <=> Up(i) \in 1..n) /\ (i = 2 * Up(i) \/ i = 2 * Up(i) + 1)
  BY <1>2, UpIs
<1> DEFINE new == [H EXCEPT !.left[x] = Null, !.right[x] = Null,
                            !.parent[x] = IF i = 1 THEN Null ELSE NodeAt(H, i \div 2)]
           G == [Link(new, i, x) EXCEPT !.nelts = i]
           r == Put(p, i, x)
<1>5. (IF i = 1 THEN Null ELSE NodeAt(H, i \div 2)) = p[Up(i)]
  <2>1. CASE i = 1
    BY <1>2, <1>3, <1>4, <2>1
  <2>2. CASE i # 1
    BY <1>1, <1>2, <1>4, <2>2, NodeAtIs DEF Up
  <2> QED
    BY <2>1, <2>2
<1>6. /\ new \in Heaps /\ new.nelts = n /\ new.min = p[1]
      /\ \A y \in Nodes : /\ new.left[y] = IF y = x THEN Null ELSE H.left[y]
                          /\ new.right[y] = IF y = x THEN Null ELSE H.right[y]
                          /\ new.parent[y] = IF y = x THEN p[Up(i)] ELSE H.parent[y]
  <2>1. new = [H EXCEPT !.left = [H.left EXCEPT ![x] = Null], !.right = [H.right EXCEPT ![x] = Null],
                        !.parent = [H.parent EXCEPT ![x] = p[Up(i)]]]
    BY <1>5
  <2>2. /\ [H.left EXCEPT ![x] = Null] \in Pointers /\ [H.right EXCEPT ![x] = Null] \in Pointers
        /\ [H.parent EXCEPT ![x] = p[Up(i)]] \in Pointers
    BY <1>2, <1>3, <1>4 DEF Pointers, Links
  <2> HIDE DEF new
  <2>3. /\ new.left = [H.left EXCEPT ![x] = Null] /\ new.right = [H.right EXCEPT ![x] = Null]
        /\ new.parent = [H.parent EXCEPT ![x] = p[Up(i)]] /\ new.nelts = n /\ new.min = p[1] /\ new \in Heaps
    BY <1>2, <2>1, <2>2 DEF Heaps
  <2> QED
    BY <1>2, <2>3 DEF Pointers
<1> HIDE DEF new, i
<1>7. LaidOut(new, p)
  <2>1. \A k \in 1..n : new.left[p[k]] = H.left[p[k]] /\ new.right[p[k]] = H.right[p[k]] /\ new.parent[p[k]] = H.parent[p[k]]
    BY <1>3, <1>6
  <2> QED
    BY <1>1, <1>2, <1>6, <2>1 DEF LaidOut
<1>8. x \in Links /\ i \in 1..new.nelts + 1
  BY <1>2, <1>6 DEF Links
<1>9. /\ G \in Heaps /\ G.nelts = i /\ G.parent = new.parent /\ G.min = IF i = 1 THEN x ELSE p[1]
      /\ \A y \in Nodes :
           /\ G.left[y] = IF i # 1 /\ i = 2 * Up(i) /\ y = p[Up(i)] THEN x ELSE new.left[y]
           /\ G.right[y] = IF i # 1 /\ i # 2 * Up(i) /\ y = p[Up(i)] THEN x ELSE new.right[y]
  <2> DEFINE L == Link(new, i, x)
  <2>1. /\ L \in Heaps /\ L.nelts = n /\ L.parent = new.parent /\ L.min = IF i = 1 THEN x ELSE p[1]
        /\ \A y \in Nodes :
             /\ L.left[y] = IF i # 1 /\ i = 2 * Up(i) /\ y = p[Up(i)] THEN x ELSE new.left[y]
             /\ L.right[y] = IF i # 1 /\ i # 2 * Up(i) /\ y = p[Up(i)] THEN x ELSE new.right[y]
    BY <1>6, <1>7, <1>8, LinkIs
  <2> HIDE DEF L
  <2>2. G = [L EXCEPT !.nelts = i]
    BY DEF L
  <2>3. G \in Heaps /\ G.nelts = i /\ G.parent = L.parent /\ G.min = L.min /\ G.left = L.left /\ G.right = L.right
    BY <1>2, <2>1, <2>2 DEF Heaps
  <2> QED
    BY <2>1, <2>3
<1>10. /\ IsLayout(r, i) /\ Members(r, i) = S \cup {x}
       /\ \A k \in Nat : r[k] = IF k = i THEN x ELSE p[k]
  <2>1. \A k \in 1..n : p[k] # x
    BY <1>3
  <2>2. r = Put(p, n + 1, x)
    BY <1>2
  <2> HIDE DEF r
  <2>3. /\ IsLayout(r, n + 1) /\ Members(r, n + 1) = Members(p, n) \cup {x}
        /\ \A k \in Nat : r[k] = IF k = n + 1 THEN x ELSE p[k]
    BY <1>2, <2>1, <2>2, PutLast
  <2> QED
    BY <1>1, <1>2, <2>3
<1> HIDE DEF G, r
<1>11. LaidOut(G, r)
  <2>1. ASSUME NEW k \in 1..i
        PROVE  G.left[r[k]] = r[2 * k] /\ G.right[r[k]] = r[2 * k + 1] /\ G.parent[r[k]] = r[Up(k)]
    <3>0. k \in Nat /\ Up(k) \in Nat /\ Up(k) < k /\ 2 * k \in Nat /\ 2 * k + 1 \in Nat
      BY <1>2, UpIs
    <3>1. CASE k = i
      <4>1. r[k] = x /\ r[2 * k] = Null /\ r[2 * k + 1] = Null /\ r[Up(k)] = p[Up(i)]
        BY <1>2, <1>3, <1>10, <3>0, <3>1
      <4>2. x # p[Up(i)]
        BY <1>2, <1>3, <1>4, NullAssumption
      <4>3. G.left[x] = new.left[x] /\ G.right[x] = new.right[x]
        BY <1>9, <4>2
      <4> QED
        BY <1>6, <1>9, <4>1, <4>3
    <3>2. CASE k # i
      <4>1. k \in 1..n /\ r[k] = p[k] /\ p[k] \in Nodes /\ p[k] # x
        BY <1>2, <1>3, <1>10, <3>0, <3>2
      <4>2. r[Up(k)] = p[Up(k)]
        BY <1>2, <1>10, <3>0, <4>1
      <4>3. H.left[p[k]] = p[2 * k] /\ H.right[p[k]] = p[2 * k + 1] /\ H.parent[p[k]] = p[Up(k)]
        BY <1>1, <4>1 DEF LaidOut
      <4>4. i # 1 => (p[k] = p[Up(i)] <=> k = Up(i))
        BY <1>2, <1>4, <4>1 DEF IsLayout
      <4>a. new.left[p[k]] = p[2 * k] /\ new.right[p[k]] = p[2 * k + 1] /\ new.parent[p[k]] = p[Up(k)]
        BY <1>6, <4>1, <4>3
      <4>5. G.parent[r[k]] = r[Up(k)]
        BY <1>9, <4>1, <4>2, <4>a
      <4>6. G.left[r[k]] = r[2 * k]
        <5>1. G.left[p[k]] = IF i # 1 /\ i = 2 * Up(i) /\ k = Up(i) THEN x ELSE p[2 * k]
          BY <1>9, <4>1, <4>4, <4>a
        <5>2. r[2 * k] = IF 2 * k = i THEN x ELSE p[2 * k]
          BY <1>10, <3>0
        <5>3. (i # 1 /\ i = 2 * Up(i) /\ k = Up(i)) <=> 2 * k = i
          BY <1>2, <1>4, <3>0
        <5> QED
          BY <4>1, <5>1, <5>2, <5>3
      <4>7. G.right[r[k]] = r[2 * k + 1]
        <5>1. G.right[p[k]] = IF i # 1 /\ i # 2 * Up(i) /\ k = Up(i) THEN x ELSE p[2 * k + 1]
          BY <1>9, <4>1, <4>4, <4>a
        <5>2. r[2 * k + 1] = IF 2 * k + 1 = i THEN x ELSE p[2 * k + 1]
          BY <1>10, <3>0
        <5>3. (i # 1 /\ i # 2 * Up(i) /\ k = Up(i)) <=> 2 * k + 1 = i
          BY <1>2, <1>4, <3>0
        <5> QED
          BY <4>1, <5>1, <5>2, <5>3
      <4> QED
        BY <4>5, <4>6, <4>7
    <3> QED
      BY <3>1, <3>2
  <2>2. G.min = r[1]
    BY <1>9, <1>10
  <2> QED
    BY <1>9, <1>10, <2>1, <2>2 DEF LaidOut
<1>12. Loose(r, i, before, i) /\ AboveChildren(r, i, before, i)
  <2>1. \A k \in 2..i : k \in Nat /\ Up(k) \in 1..n /\ Up(k) # i /\ Up(k) \in Nat /\ (k # i => k \in 2..n)
    BY <1>2, UpIs
  <2>2. \A k \in 2..n : p[k] \notin before[p[Up(k)]]
    BY <1>1 DEF Sorted
  <2> QED
    BY <1>10, <2>1, <2>2 DEF Loose, AboveChildren
<1>13. Walking(G, i, S \cup {x}, before, x, r, i)
  BY <1>2, <1>9, <1>10, <1>11, <1>12 DEF Walking
<1>14. HeapInsert(H, before, x) = WalkUp(G, before, x)
  BY Zenon DEF HeapInsert, G, new, i
<1>15. /\ WalkUp(G, before, x) \in Heaps /\ WalkUp(G, before, x).nelts = i
       /\ \E u : LaidOut(WalkUp(G, before, x), u) /\ Members(u, i) = S \cup {x} /\ Sorted(u, i, before)
  BY <1>2, <1>12, <1>13, WalkUpSorts
<1> QED
  BY <1>14, <1>15 DEF HeapAs, i

\* A layout without its last node.
LEMMA CutLast ==
    ASSUME NEW n \in Nat, n # 0, NEW p, IsLayout(p, n), NEW S, Members(p, n) = S,
           NEW r, r = Put(p, n, Null)
    PROVE  /\ IsLayout(r, n - 1) /\ Members(r, n - 1) = S \ {p[n]} /\ p[n] \in S
           /\ \A i \in Nat : r[i] = IF i = n THEN Null ELSE p[i]
<1>1. p \in [Nat -> Links] /\ n - 1 \in Nat /\ Null \in Links /\ 1..n = 1..n - 1 \cup {n} /\ n \notin 1..n - 1
  BY DEF IsLayout, Links
<1>2. r \in [Nat -> Links] /\ \A i \in Nat : r[i] = IF i = n THEN Null ELSE p[i]
  BY <1>1 DEF Put
<1>3. \A i \in Nat : r[i] # Null <=> i \in 1..n - 1
  BY <1>1, <1>2 DEF IsLayout
<1>4. \A i \in 1..n - 1 : r[i] = p[i] /\ p[i] # p[n]
  BY <1>1, <1>2 DEF IsLayout
<1>5. \A i, j \in 1..n - 1 : r[i] = r[j] => i = j
  BY <1>1, <1>4 DEF IsLayout
<1> HIDE DEF IsLayout
<1>6. Members(r, n - 1) = S \ {p[n]} /\ p[n] \in S
  BY <1>1, <1>4 DEF Members
<1> QED
  BY <1>2, <1>3, <1>5, <1>6 DEF IsLayout

\* Another node in the place of one.
LEMMA PutAnother ==
    ASSUME NEW n \in Nat, NEW p, IsLayout(p, n), NEW S, Members(p, n) = S, NEW j \in 1..n,
           NEW x \in Nodes, x \notin S, NEW r, r = Put(p, j, x)
    PROVE  /\ IsLayout(r, n) /\ Members(r, n) = (S \ {p[j]}) \cup {x}
           /\ \A i \in Nat : r[i] = IF i = j THEN x ELSE p[i]
<1>1. p \in [Nat -> Links] /\ j \in Nat /\ x \in Links /\ x # Null /\ 1..n \subseteq Nat
  BY NullAssumption DEF IsLayout, Links
<1>2. r \in [Nat -> Links] /\ \A i \in Nat : r[i] = IF i = j THEN x ELSE p[i]
  BY <1>1 DEF Put
<1>3. \A i \in Nat : r[i] # Null <=> i \in 1..n
  BY <1>1, <1>2 DEF IsLayout
<1>4. \A i \in 1..n : p[i] # x /\ p[i] \in S
  BY DEF Members
<1>5. \A i, k \in 1..n : r[i] = r[k] => i = k
  BY <1>1, <1>2, <1>4 DEF IsLayout
<1>6. \A i \in 1..n : i # j => r[i] = p[i] /\ p[i] # p[j]
  BY <1>1, <1>2 DEF IsLayout
<1>7. r[j] = x
  BY <1>1, <1>2
<1> HIDE DEF IsLayout
<1>8. Members(r, n) = (S \ {p[j]}) \cup {x}
  <2>1. \A i \in 1..n : r[i] \in (S \ {p[j]}) \cup {x}
    BY <1>4, <1>6, <1>7
  <2>2. ASSUME NEW y \in S, y # p[j] PROVE \E i \in 1..n : r[i] = y
    <3>1. PICK i \in 1..n : p[i] = y
      BY DEF Members
    <3> QED
      BY <1>6, <2>2, <3>1
  <2> QED
    BY <1>7, <2>1, <2>2 DEF Members
<1> QED
  BY <1>2, <1>3, <1>5, <1>8 DEF IsLayout

\* The fields of a heap in which a node has been replaced by another.
LEMMA ReplaceFields ==
    ASSUME NEW H \in Heaps, NEW x \in Nodes, NEW y \in Nodes, x # y, H.left[x] # x, H.right[x] # x,
           NEW G, G = Replace(H, x, y), NEW g, g = H.parent[x], g # x, g # y
    PROVE  /\ G \in Heaps /\ G.nelts = H.nelts
           /\ G.min = IF g = Null THEN y ELSE H.min
           /\ \A z \in Nodes : z # x =>
                /\ G.parent[z] = IF z = H.right[x] \/ z = H.left[x] THEN y
                                 ELSE IF z = y THEN g ELSE H.parent[z]
                /\ G.left[z] = IF z = g /\ H.left[g] = x THEN y
                               ELSE IF z = y THEN H.left[x] ELSE H.left[z]
                /\ G.right[z] = IF z = g /\ H.left[g] # x THEN y
                                ELSE IF z = y THEN H.right[x] ELSE H.right[z]
<1> DEFINE gLeft == g # Null /\ H.left[g] = x
           intoLeft == IF gLeft THEN g ELSE Null
           intoRight == IF gLeft THEN Null ELSE g
           lefts == [H.left EXCEPT ![y] = H.left[x]]
           rights == [H.right EXCEPT ![y] = H.right[x]]
           parents == [H.parent EXCEPT ![y] = g]
           moved == [H EXCEPT !.left = lefts, !.right = rights, !.parent = parents]
           par == Set(Set(parents, H.left[x], y), H.right[x], y)
           lef == Set(lefts, intoLeft, y)
           rig == Set(rights, intoRight, y)
<1>1. /\ H.left \in Pointers /\ H.right \in Pointers /\ H.parent \in Pointers
      /\ H.min \in Links /\ H.nelts \in Nat
  BY DEF Heaps
<1>2. /\ g \in Links /\ H.left[x] \in Links /\ H.right[x] \in Links /\ x \in Links /\ y \in Links /\ Null \in Links
      /\ intoLeft \in Links /\ intoRight \in Links
  BY <1>1 DEF Pointers, Links
<1>3. /\ lefts \in Pointers /\ rights \in Pointers /\ parents \in Pointers
      /\ \A z \in Nodes : /\ lefts[z] = IF z = y THEN H.left[x] ELSE H.left[z]
                          /\ rights[z] = IF z = y THEN H.right[x] ELSE H.right[z]
                          /\ parents[z] = IF z = y THEN g ELSE H.parent[z]
  <2> HIDE DEF gLeft
  <2> QED
    BY <1>1, <1>2 DEF Pointers, Links
<1>4. moved = [H EXCEPT !.left[y] = H.left[x], !.right[y] = H.right[x], !.parent[y] = g]
  OBVIOUS
<1>5. moved.left = lefts /\ moved.right = rights /\ moved.parent = parents /\ moved.min = H.min /\ moved.nelts = H.nelts
  <2> HIDE DEF lefts, rights, parents
  <2> QED
    BY <1>1 DEF Heaps
<1>6. G = [moved EXCEPT
             !.parent = [Set(Set(@, H.left[x], y), H.right[x], y) EXCEPT ![x] = Null],
             !.min    = IF g = Null THEN y ELSE @,
             !.left   = [Set(@, intoLeft, y) EXCEPT ![x] = Null],
             !.right  = [Set(@, intoRight, y) EXCEPT ![x] = Null]]
  BY <1>4, Zenon DEF Replace
<1> HIDE DEF lefts, rights, parents
<1>7. par \in Pointers /\ \A z \in Nodes : par[z] = IF z = H.right[x] \/ z = H.left[x] THEN y ELSE parents[z]
  <2>1. /\ Set(parents, H.left[x], y) \in Pointers
        /\ \A z \in Nodes : Set(parents, H.left[x], y)[z] = IF z = H.left[x] THEN y ELSE parents[z]
    <3>1. parents \in Pointers /\ H.left[x] \in Links /\ y \in Links
      BY <1>2, <1>3
    <3> QED
      BY <3>1, SetIs
  <2>2. /\ par \in Pointers
        /\ \A z \in Nodes : par[z] = IF z = H.right[x] THEN y ELSE Set(parents, H.left[x], y)[z]
    <3>1. H.right[x] \in Links /\ y \in Links
      BY <1>2
    <3> QED
      BY <2>1, <3>1, SetIs
  <2> HIDE DEF par
  <2> QED
    BY <2>1, <2>2
<1>8. lef \in Pointers /\ \A z \in Nodes : lef[z] = IF z = intoLeft THEN y ELSE lefts[z]
  <2>1. lefts \in Pointers /\ y \in Links /\ intoLeft \in Links
    BY <1>2, <1>3
  <2> HIDE DEF intoLeft
  <2> QED
    BY <2>1, SetIs
<1>9. rig \in Pointers /\ \A z \in Nodes : rig[z] = IF z = intoRight THEN y ELSE rights[z]
  <2>1. rights \in Pointers /\ y \in Links /\ intoRight \in Links
    BY <1>2, <1>3
  <2> HIDE DEF intoRight
  <2> QED
    BY <2>1, SetIs
<1>10. \A z \in Nodes : /\ z = intoLeft <=> z = g /\ H.left[g] = x
                        /\ z = intoRight <=> z = g /\ H.left[g] # x
  BY NullAssumption
<1>11. G = [moved EXCEPT !.parent = [par EXCEPT ![x] = Null], !.min = IF g = Null THEN y ELSE H.min,
                         !.left = [lef EXCEPT ![x] = Null], !.right = [rig EXCEPT ![x] = Null]]
  BY <1>5, <1>6, Zenon
<1> HIDE DEF par, lef, rig
<1>12. /\ [par EXCEPT ![x] = Null] \in Pointers /\ [lef EXCEPT ![x] = Null] \in Pointers
       /\ [rig EXCEPT ![x] = Null] \in Pointers
       /\ \A z \in Nodes : z # x => /\ [par EXCEPT ![x] = Null][z] = par[z]
                                    /\ [lef EXCEPT ![x] = Null][z] = lef[z]
                                    /\ [rig EXCEPT ![x] = Null][z] = rig[z]
  BY <1>2, <1>7, <1>8, <1>9 DEF Pointers
<1>13. /\ G.parent = [par EXCEPT ![x] = Null] /\ G.left = [lef EXCEPT ![x] = Null]
       /\ G.right = [rig EXCEPT ![x] = Null] /\ G.nelts = H.nelts
       /\ G.min = IF g = Null THEN y ELSE H.min
  BY <1>1, <1>11 DEF Heaps
<1>14. G \in Heaps
  <2>1. G = [min |-> IF g = Null THEN y ELSE H.min, nelts |-> H.nelts, left |-> [lef EXCEPT ![x] = Null],
             right |-> [rig EXCEPT ![x] = Null], parent |-> [par EXCEPT ![x] = Null]]
    BY <1>1, <1>11 DEF Heaps
  <2> QED
    BY <1>1, <1>2, <1>12, <2>1 DEF Heaps
<1> HIDE DEF moved, intoLeft, intoRight, gLeft
<1>15. \A z \in Nodes : z # x => /\ G.parent[z] = par[z] /\ G.left[z] = lef[z] /\ G.right[z] = rig[z]
  BY <1>12, <1>13
<1>16. \A z \in Nodes : z # x =>
         /\ G.parent[z] = IF z = H.right[x] \/ z = H.left[x] THEN y
                          ELSE IF z = y THEN g ELSE H.parent[z]
         /\ G.left[z] = IF z = g /\ H.left[g] = x THEN y
                        ELSE IF z = y THEN H.left[x] ELSE H.left[z]
         /\ G.right[z] = IF z = g /\ H.left[g] # x THEN y
                         ELSE IF z = y THEN H.right[x] ELSE H.right[z]
  BY <1>3, <1>7, <1>8, <1>9, <1>10, <1>15
<1> QED
  BY <1>13, <1>14, <1>16

\* The last node is unlinked.
LEMMA Unlinked ==
    ASSUME NEW H \in Heaps, NEW p, LaidOut(H, p), NEW n, n = H.nelts, n # 0,
           NEW U, U = [Link(H, n, Null) EXCEPT !.nelts = @ - 1]
    PROVE  U \in Heaps /\ U.nelts = n - 1 /\ LaidOut(U, Put(p, n, Null))
<1>1. /\ n \in Nat /\ IsLayout(p, n) /\ H.min = p[1] /\ n - 1 \in Nat /\ Null \in Links /\ n \in 1..n + 1
      /\ \A k \in 1..n : H.left[p[k]] = p[2 * k] /\ H.right[p[k]] = p[2 * k + 1] /\ H.parent[p[k]] = p[Up(k)]
  BY DEF Heaps, LaidOut, Links
<1>2. Up(n) \in 0..n - 1 /\ (n # 1 <=> Up(n) \in 1..n - 1) /\ (n = 2 * Up(n) \/ n = 2 * Up(n) + 1)
  BY <1>1, UpIs
<1> DEFINE r == Put(p, n, Null)
           L == Link(H, n, Null)
<1>3. /\ IsLayout(r, n - 1)
      /\ \A k \in Nat : r[k] = IF k = n THEN Null ELSE p[k]
  BY <1>1, CutLast
<1> HIDE DEF r, L
<1>4. /\ L \in Heaps /\ L.nelts = n /\ L.parent = H.parent /\ L.min = IF n = 1 THEN Null ELSE H.min
      /\ \A y \in Nodes :
           /\ L.left[y] = IF n # 1 /\ n = 2 * Up(n) /\ y = p[Up(n)] THEN Null ELSE H.left[y]
           /\ L.right[y] = IF n # 1 /\ n # 2 * Up(n) /\ y = p[Up(n)] THEN Null ELSE H.right[y]
  BY <1>1, LinkIs DEF L
<1>5. /\ U \in Heaps /\ U.nelts = n - 1 /\ U.parent = L.parent /\ U.min = L.min
      /\ U.left = L.left /\ U.right = L.right
  <2>1. U = [L EXCEPT !.nelts = n - 1]
    BY <1>4 DEF L
  <2> QED
    BY <1>1, <1>4, <2>1 DEF Heaps
<1>6. ASSUME NEW k \in 1..n - 1
      PROVE  U.left[r[k]] = r[2 * k] /\ U.right[r[k]] = r[2 * k + 1] /\ U.parent[r[k]] = r[Up(k)]
  <2>0. k \in Nat /\ Up(k) \in Nat /\ Up(k) < k /\ 2 * k \in Nat /\ 2 * k + 1 \in Nat /\ k \in 1..n /\ k # n
    BY <1>1, UpIs
  <2>1. r[k] = p[k] /\ p[k] \in Nodes
    BY <1>1, <1>3, <2>0, NodesOfLayout
  <2>2. n # 1 => (p[k] = p[Up(n)] <=> k = Up(n))
    BY <1>1, <1>2, <2>0 DEF IsLayout
  <2>3. U.left[p[k]] = IF n # 1 /\ n = 2 * Up(n) /\ k = Up(n) THEN Null ELSE p[2 * k]
    BY <1>1, <1>4, <1>5, <2>0, <2>1, <2>2
  <2>4. U.right[p[k]] = IF n # 1 /\ n # 2 * Up(n) /\ k = Up(n) THEN Null ELSE p[2 * k + 1]
    BY <1>1, <1>4, <1>5, <2>0, <2>1, <2>2
  <2>5. (n # 1 /\ n = 2 * Up(n) /\ k = Up(n)) <=> 2 * k = n
    BY <1>1, <1>2, <2>0
  <2>6. (n # 1 /\ n # 2 * Up(n) /\ k = Up(n)) <=> 2 * k + 1 = n
    BY <1>1, <1>2, <2>0
  <2>7. r[2 * k] = (IF 2 * k = n THEN Null ELSE p[2 * k]) /\ r[2 * k + 1] = IF 2 * k + 1 = n THEN Null ELSE p[2 * k + 1]
    BY <1>3, <2>0
  <2>8. r[Up(k)] = p[Up(k)] /\ U.parent[p[k]] = p[Up(k)]
    BY <1>1, <1>3, <1>4, <1>5, <2>0
  <2> QED
    BY <2>1, <2>3, <2>4, <2>5, <2>6, <2>7, <2>8
<1>7. U.min = r[1]
  BY <1>1, <1>3, <1>4, <1>5
<1> QED
  BY <1>3, <1>5, <1>6, <1>7 DEF LaidOut, r

\* A node at j is replaced by y, which is in no place.
LEMMA Replaced ==
    ASSUME NEW H \in Heaps, NEW p, LaidOut(H, p), NEW n, n = H.nelts, NEW j \in 1..n,
           NEW y \in Nodes, y \notin Members(p, n)
    PROVE  LET G == Replace(H, p[j], y)
           IN G \in Heaps /\ G.nelts = n /\ LaidOut(G, Put(p, j, y))
<1> DEFINE G == Replace(H, p[j], y)
           r == Put(p, j, y)
           x == p[j]
           g == p[Up(j)]
<1>1. /\ n \in Nat /\ j \in Nat /\ IsLayout(p, n) /\ H.min = p[1]
      /\ \A k \in 1..n : H.left[p[k]] = p[2 * k] /\ H.right[p[k]] = p[2 * k + 1] /\ H.parent[p[k]] = p[Up(k)]
  BY DEF Heaps, LaidOut
<1>2. /\ Up(j) \in Nat /\ Up(j) < j /\ (j # 1 <=> Up(j) \in 1..n) /\ (j = 2 * Up(j) \/ j = 2 * Up(j) + 1)
      /\ 2 * j \in Nat /\ 2 * j + 1 \in Nat /\ 2 * Up(j) \in Nat
  BY <1>1, UpIs
<1>3. /\ \A k \in 1..n : p[k] \in Nodes /\ p[k] # y /\ k \in Nat
      /\ \A k \in Nat : p[k] # y
      /\ \A k \in 1..n : \A i \in Nat : p[k] = p[i] <=> k = i
      /\ \A k \in Nat : k \notin 1..n => p[k] = Null
  BY <1>1, NodesOfLayout, NullAssumption DEF Members
<1>4. /\ IsLayout(r, n)
      /\ \A k \in Nat : r[k] = IF k = j THEN y ELSE p[k]
  BY <1>1, PutAnother
<1>5. /\ x \in Nodes /\ x # y /\ H.left[x] # x /\ H.right[x] # x /\ g = H.parent[x] /\ g # x /\ g # y
      /\ H.left[x] = p[2 * j] /\ H.right[x] = p[2 * j + 1]
  BY <1>1, <1>2, <1>3
<1> HIDE DEF G, r
<1>6. /\ G \in Heaps /\ G.nelts = n
      /\ G.min = IF g = Null THEN y ELSE H.min
      /\ \A z \in Nodes : z # x =>
           /\ G.parent[z] = IF z = p[2 * j + 1] \/ z = p[2 * j] THEN y
                            ELSE IF z = y THEN g ELSE H.parent[z]
           /\ G.left[z] = IF z = g /\ H.left[g] = x THEN y
                          ELSE IF z = y THEN p[2 * j] ELSE H.left[z]
           /\ G.right[z] = IF z = g /\ H.left[g] # x THEN y
                           ELSE IF z = y THEN p[2 * j + 1] ELSE H.right[z]
  <2>1. G = Replace(H, x, y)
    BY DEF G
  <2> HIDE DEF x, g
  <2> QED
    BY <1>5, <2>1, ReplaceFields
<1>7. ASSUME NEW k \in 1..n
      PROVE  G.left[r[k]] = r[2 * k] /\ G.right[r[k]] = r[2 * k + 1] /\ G.parent[r[k]] = r[Up(k)]
  <2>0. /\ k \in Nat /\ Up(k) \in Nat /\ Up(k) < k /\ 2 * k \in Nat /\ 2 * k + 1 \in Nat
        /\ (k = 2 * Up(k) \/ k = 2 * Up(k) + 1)
    BY <1>1, UpIs
  <2>1. CASE k = j
    <3>1. r[k] = y /\ r[2 * k] = p[2 * j] /\ r[2 * k + 1] = p[2 * j + 1] /\ r[Up(k)] = g
      BY <1>1, <1>2, <1>4, <2>0, <2>1
    <3>2. y # p[2 * j] /\ y # p[2 * j + 1] /\ y # x /\ y # g
      BY <1>2, <1>3, <1>5
    <3> QED
      BY <1>6, <3>1, <3>2
  <2>2. CASE k # j
    <3>1. r[k] = p[k] /\ p[k] \in Nodes /\ p[k] # x /\ p[k] # y
      BY <1>1, <1>3, <1>4, <2>0, <2>2
    <3>2. /\ (p[k] = p[2 * j] <=> k = 2 * j) /\ (p[k] = p[2 * j + 1] <=> k = 2 * j + 1)
          /\ (p[k] = g <=> k = Up(j))
      BY <1>2, <1>3
    <3>3. k = Up(j) => (H.left[g] = x <=> j = 2 * Up(j))
      BY <1>1, <1>2, <1>3
    <3>4. G.parent[p[k]] = IF k = 2 * j + 1 \/ k = 2 * j THEN y ELSE p[Up(k)]
      BY <1>1, <1>6, <3>1, <3>2
    <3>5. G.left[p[k]] = IF k = Up(j) /\ j = 2 * Up(j) THEN y ELSE p[2 * k]
      BY <1>1, <1>6, <3>1, <3>2, <3>3
    <3>6. G.right[p[k]] = IF k = Up(j) /\ j # 2 * Up(j) THEN y ELSE p[2 * k + 1]
      BY <1>1, <1>6, <3>1, <3>2, <3>3
    <3>7. /\ (k = 2 * j + 1 \/ k = 2 * j) <=> Up(k) = j
          /\ (k = Up(j) /\ j = 2 * Up(j)) <=> 2 * k = j
          /\ (k = Up(j) /\ j # 2 * Up(j)) <=> 2 * k + 1 = j
      BY <1>1, <1>2, <2>0
    <3>8. /\ r[Up(k)] = IF Up(k) = j THEN y ELSE p[Up(k)]
          /\ r[2 * k] = IF 2 * k = j THEN y ELSE p[2 * k]
          /\ r[2 * k + 1] = IF 2 * k + 1 = j THEN y ELSE p[2 * k + 1]
      BY <1>4, <2>0
    <3> QED
      BY <3>1, <3>4, <3>5, <3>6, <3>7, <3>8
  <2> QED
    BY <2>1, <2>2
<1>8. G.min = r[1]
  <2>1. g = Null <=> j = 1
    BY <1>2, <1>3, NullAssumption
  <2> QED
    BY <1>1, <1>4, <1>6, <2>1
<1> QED
  BY <1>4, <1>6, <1>7, <1>8 DEF LaidOut, G, r

\* heap_remove of any node leaves a heap of the others: the last node takes its place,
\* and the two walks, down and then up, bring that one where it belongs.
THEOREM RemoveKeepsHeap ==
    ASSUME NEW S, NEW before, NEW H, HeapAs(H, before, S), NEW x \in S, Ordering(before, S)
    PROVE  /\ HeapAs(HeapRemove(H, before, x), before, S \ {x})
           /\ HeapRemove(H, before, x).nelts = H.nelts - 1
<1> DEFINE n == H.nelts
           m == n - 1
<1>1. PICK p : LaidOut(H, p) /\ Members(p, n) = S /\ Sorted(p, n, before)
  BY DEF HeapAs
<1>2. H \in Heaps /\ n \in Nat /\ IsLayout(p, n)
  BY <1>1 DEF HeapAs, Heaps, LaidOut
<1>3. PICK j \in 1..n : p[j] = x
  BY <1>1 DEF Members
<1>4. n # 0 /\ n \in 1..n /\ m \in Nat /\ p[n] \in Nodes /\ x \in Nodes /\ \A k \in 1..n : p[k] \in S
  BY <1>1, <1>2, <1>3, NodesOfLayout DEF Members
<1> DEFINE y == p[n]
           U == [Link(H, n, Null) EXCEPT !.nelts = @ - 1]
           p1 == Put(p, n, Null)
<1>5. NodeAt(H, n) = y
  BY <1>1, <1>2, <1>4, NodeAtIs
<1>6. U \in Heaps /\ U.nelts = m /\ LaidOut(U, p1)
  BY <1>1, <1>2, <1>4, Unlinked
<1>7. /\ IsLayout(p1, m) /\ Members(p1, m) = S \ {y}
      /\ \A i \in Nat : p1[i] = IF i = n THEN Null ELSE p[i]
  BY <1>1, <1>2, <1>4, CutLast
<1>8. \A i \in 1..m : i \in Nat /\ i \in 1..n /\ p1[i] = p[i]
  BY <1>2, <1>7
<1>9. \A i \in 2..m : /\ Up(i) \in 1..m /\ p1[i] = p[i] /\ p1[Up(i)] = p[Up(i)]
                      /\ p[i] \notin before[p[Up(i)]]
  <2> SUFFICES ASSUME NEW i \in 2..m
               PROVE  /\ Up(i) \in 1..m /\ p1[i] = p[i] /\ p1[Up(i)] = p[Up(i)]
                      /\ p[i] \notin before[p[Up(i)]]
    OBVIOUS
  <2>1. i \in 1..m /\ Up(i) \in 1..m /\ i \in 2..n
    BY <1>2, UpIs
  <2> HIDE DEF p1
  <2> QED
    BY <1>1, <1>8, <2>1 DEF Sorted
<1>10. HeapRemove(H, before, x) = IF y = x THEN [U EXCEPT !.parent[x] = Null]
                                  ELSE WalkUp(WalkDown(Replace(U, x, y), before, y), before, y)
  BY <1>5, Zenon DEF HeapRemove
<1> HIDE DEF U, p1, y, m
<1>11. CASE y = x
  <2> DEFINE G == [U EXCEPT !.parent[x] = Null]
  <2>1. G = [U EXCEPT !.parent = [U.parent EXCEPT ![x] = Null]]
    OBVIOUS
  <2> HIDE DEF G
  <2>2. [U.parent EXCEPT ![x] = Null] \in Pointers /\ \A z \in Nodes : z # x => [U.parent EXCEPT ![x] = Null][z] = U.parent[z]
    BY <1>4, <1>6 DEF Heaps, Pointers, Links
  <2>3. /\ G \in Heaps /\ G.parent = [U.parent EXCEPT ![x] = Null]
        /\ G.nelts = m /\ G.min = U.min /\ G.left = U.left /\ G.right = U.right
    BY <1>6, <2>1, <2>2 DEF Heaps
  <2>4. \A k \in 1..m : p1[k] \in Nodes /\ p1[k] # x
    <3>1. \A k \in 1..m : p1[k] \in Members(p1, m)
      BY DEF Members
    <3> QED
      BY <1>4, <1>7, <1>11, <3>1, NodesOfLayout
  <2>5. LaidOut(G, p1)
    BY <1>6, <2>2, <2>3, <2>4 DEF LaidOut
  <2>6. Sorted(p1, m, before)
    BY <1>9 DEF Sorted
  <2>7. HeapAs(G, before, S \ {x})
    BY <1>7, <1>11, <2>3, <2>5, <2>6 DEF HeapAs
  <2>8. HeapRemove(H, before, x) = G
    BY <1>10, <1>11 DEF G
  <2> QED
    BY <2>3, <2>7, <2>8 DEF m
<1>12. CASE y # x
  <2>1. j \in 1..m /\ p1[j] = x
    BY <1>2, <1>3, <1>4, <1>8, <1>12 DEF y, m
  <2>2. y \in Nodes /\ y \notin Members(p1, m) /\ y \in S
    BY <1>4, <1>7 DEF y
  <2> DEFINE R == Replace(U, x, y)
             r == Put(p1, j, y)
  <2>3. R \in Heaps /\ R.nelts = m /\ LaidOut(R, r)
    BY <1>6, <2>1, <2>2, Replaced
  <2>4. /\ Members(r, m) = S \ {x}
        /\ \A i \in Nat : r[i] = IF i = j THEN y ELSE p1[i]
    <3>1. /\ Members(r, m) = ((S \ {y}) \ {p1[j]}) \cup {y}
          /\ \A i \in Nat : r[i] = IF i = j THEN y ELSE p1[i]
      BY <1>4, <1>7, <2>1, <2>2, PutAnother
    <3> QED
      BY <1>12, <2>1, <2>2, <3>1
  <2> HIDE DEF R, r
  <2>5. \A i \in 1..m : i # j => r[i] = p[i]
    BY <1>8, <2>4
  <2>6. Loose(r, m, before, j)
    <3>1. ASSUME NEW i \in 2..m, i # j, Up(i) # j PROVE r[i] \notin before[r[Up(i)]]
      <4>1. i \in 1..m /\ Up(i) \in 1..m
        BY <1>4, <1>9
      <4> QED
        BY <1>9, <2>5, <3>1, <4>1
    <3>2. ASSUME NEW i \in 2..m, Up(i) = j, j # 1 PROVE r[i] \notin before[r[Up(j)]]
      <4>1. i \in 1..m /\ j \in 2..m /\ Up(j) \in 1..m /\ i # j /\ Up(j) # j /\ i \in 1..n /\ Up(j) \in 1..n
        BY <1>2, <1>4, <1>8, <1>9, <2>1, <3>2, UpIs
      <4>2. p[i] \notin before[p[j]] /\ p[j] \notin before[p[Up(j)]]
        BY <1>9, <3>2, <4>1
      <4>3. p[i] \in S /\ p[j] \in S /\ p[Up(j)] \in S
        BY <1>4, <4>1
      <4>4. p[i] \notin before[p[Up(j)]]
        BY <4>2, <4>3 DEF Ordering
      <4> QED
        BY <2>5, <4>1, <4>4
    <3> QED
      BY <3>1, <3>2 DEF Loose
  <2>7. r[j] = y
    BY <1>8, <2>1, <2>4
  <2>8. Walking(R, m, S \ {x}, before, y, r, j)
    BY <2>1, <2>3, <2>4, <2>6, <2>7 DEF Walking
  <2>9. Ordering(before, S \ {x})
    BY DEF Ordering
  <2> DEFINE W == WalkDown(R, before, y)
  <2>10. PICK u, k : Walking(W, m, S \ {x}, before, y, u, k) /\ AboveChildren(u, m, before, k)
    BY <1>4, <2>8, <2>9, WalkDownEnds
  <2> HIDE DEF W
  <2>11. /\ WalkUp(W, before, y) \in Heaps /\ WalkUp(W, before, y).nelts = m
         /\ \E v : LaidOut(WalkUp(W, before, y), v) /\ Members(v, m) = S \ {x} /\ Sorted(v, m, before)
    BY <1>4, <2>9, <2>10, WalkUpSorts
  <2>12. HeapRemove(H, before, x) = WalkUp(W, before, y)
    BY <1>10, <1>12 DEF W, R
  <2> QED
    BY <2>11, <2>12 DEF HeapAs, m
<1> QED
  BY <1>11, <1>12

-----------------------------------------------------------------------------
(* What the heap promises *)

\* A layout of n nodes holds n nodes.
LEMMA LayoutCounts ==
    ASSUME NEW n \in Nat, NEW p, IsLayout(p, n)
    PROVE  IsFiniteSet(Members(p, n)) /\ Cardinality(Members(p, n)) = n
<1> DEFINE f == [i \in 1..n |-> p[i]]
<1>1. f \in Bijection(1..n, Members(p, n))
  BY DEF Bijection, Injection, Surjection, IsInjective, IsLayout, Members
<1>2. ExistsBijection(1..n, Members(p, n))
  BY <1>1 DEF ExistsBijection
<1>3. IsFiniteSet(1..n) /\ Cardinality(1..n) = n
  BY FS_Interval
<1> QED
  BY <1>2, <1>3, FS_Bijection, Zenon

\* A heap by its layout is one by its pointers: what the run checks of the tree of
\* heap-inl.h, that its nodes are those in S, linked both ways and in order.
THEOREM HeapIsHeap ==
    ASSUME NEW S, NEW before, NEW H, HeapAs(H, before, S)
    PROVE  IsHeapOf(H, before, S)
<1>1. PICK p : LaidOut(H, p) /\ Members(p, H.nelts) = S /\ Sorted(p, H.nelts, before)
  BY DEF HeapAs
<1>2. H \in Heaps /\ H.nelts \in Nat /\ IsLayout(p, H.nelts) /\ H.min = p[1]
  BY <1>1 DEF HeapAs, Heaps, LaidOut
<1>3. \A i \in 1..H.nelts : NodeAt(H, i) = p[i]
  BY <1>1, <1>2, NodeAtIs
<1>4. \A i \in 2..H.nelts : i \in 1..H.nelts /\ i \div 2 \in 1..H.nelts
  BY <1>2, UpIs DEF Up
<1>5. H.nelts = Cardinality(S)
  BY <1>1, <1>2, LayoutCounts
<1>6. HeapMembers(H) = S
  BY <1>1, <1>3 DEF HeapMembers, Members
<1>7. H.nelts = 0 => H.min = Null
  BY <1>2 DEF IsLayout
<1>8. ASSUME NEW i \in 1..H.nelts
      PROVE  /\ H.parent[p[i]] = IF i = 1 THEN Null ELSE NodeAt(H, i \div 2)
             /\ 2 * i > H.nelts => H.left[p[i]] = Null
             /\ 2 * i + 1 > H.nelts => H.right[p[i]] = Null
  <2>1. H.left[p[i]] = p[2 * i] /\ H.right[p[i]] = p[2 * i + 1] /\ H.parent[p[i]] = p[Up(i)]
    BY <1>1, <1>8 DEF LaidOut
  <2>2. \A k \in Nat : k \notin 1..H.nelts => p[k] = Null
    BY <1>2 DEF IsLayout
  <2>3. i \in Nat /\ 2 * i \in Nat /\ 2 * i + 1 \in Nat /\ (i = 1 => Up(i) = 0)
    BY <1>2, <1>8, UpIs
  <2>4. H.parent[p[i]] = IF i = 1 THEN Null ELSE NodeAt(H, i \div 2)
    <3>1. CASE i = 1
      BY <1>2, <2>1, <2>2, <2>3, <3>1
    <3>2. CASE i # 1
      <4>1. i \in 2..H.nelts
        BY <1>2, <1>8, <3>2
      <4> QED
        BY <1>3, <1>4, <2>1, <3>2, <4>1 DEF Up
    <3> QED
      BY <3>1, <3>2
  <2> QED
    BY <1>2, <2>1, <2>2, <2>3, <2>4
<1>9. IsTreeOf(H, S)
  BY <1>3, <1>5, <1>6, <1>7, <1>8 DEF IsTreeOf
<1>10. IsOrdered(H, before)
  BY <1>1, <1>3, <1>4 DEF IsOrdered, Sorted, Up
<1> QED
  BY <1>9, <1>10 DEF IsHeapOf

\* heap_min returns a node to which no other is earlier, and none only if the heap
\* is empty.
THEOREM MinIsFirst ==
    ASSUME NEW S, NEW before, NEW H, HeapAs(H, before, S), Ordering(before, S)
    PROVE  /\ S # {} => H.min \in S
           /\ S = {} <=> H.min = Null
           /\ \A y \in S : y \notin before[H.min]
<1>1. PICK p : LaidOut(H, p) /\ Members(p, H.nelts) = S /\ Sorted(p, H.nelts, before)
  BY DEF HeapAs
<1> DEFINE n == H.nelts
<1>2. n \in Nat /\ IsLayout(p, n) /\ H.min = p[1]
  BY <1>1 DEF HeapAs, Heaps, LaidOut
<1>3. S # {} => 1 \in 1..n
  BY <1>1, <1>2 DEF Members
<1>4. S = {} => n = 0
  <2>1. n # 0 => p[1] \in S
    BY <1>1, <1>2 DEF Members
  <2> QED
    BY <2>1
<1>5. \A i \in 1..n : p[i] \in S
  BY <1>1 DEF Members
<1>6. \A i \in 1..n : p[i] \notin before[p[1]]
  <2> DEFINE T == {m \in Nat : \A i \in 1..m : i \in 1..n => p[i] \notin before[p[1]]}
  <2>1. 0 \in T
    OBVIOUS
  <2>2. ASSUME NEW m \in 0..n - 1, m \in T PROVE m + 1 \in T
    <3>1. m \in Nat /\ m + 1 \in 1..n /\ 1 \in 1..n /\ n \in Nat
      BY <1>2
    <3>2. p[m + 1] \notin before[p[1]]
      <4>1. CASE m = 0
        BY <1>5, <3>1, <4>1 DEF Ordering
      <4>2. CASE m # 0
        <5>1. m + 1 \in 2..n /\ Up(m + 1) \in 1..m /\ Up(m + 1) \in 1..n
          BY <3>1, <4>2, UpIs
        <5>2. p[Up(m + 1)] \notin before[p[1]]
          BY <2>2, <5>1
        <5>3. p[m + 1] \notin before[p[Up(m + 1)]]
          BY <1>1, <5>1 DEF Sorted
        <5>4. p[m + 1] \in S /\ p[Up(m + 1)] \in S /\ p[1] \in S
          BY <1>5, <3>1, <5>1
        <5> QED
          BY <5>2, <5>3, <5>4 DEF Ordering
      <4> QED
        BY <4>1, <4>2
    <3>3. \A i \in 1..m + 1 : i \in 1..m \/ i = m + 1
      BY <3>1
    <3> QED
      BY <2>2, <3>1, <3>2, <3>3
  <2> HIDE DEF T
  <2>3. \A k \in 0..n : k \in T
    BY <1>2, <2>1, <2>2, UpToAll
  <2>4. n \in T
    BY <1>2, <2>3
  <2> QED
    BY <1>2, <2>4 DEF T
<1>7. \A y \in S : \E i \in 1..n : y = p[i]
  BY <1>1 DEF Members
<1>8. n = 0 => p[1] = Null
  BY <1>2 DEF IsLayout
<1>9. n # 0 => p[1] # Null
  BY <1>2 DEF IsLayout
<1> QED
  BY <1>2, <1>3, <1>4, <1>5, <1>6, <1>7, <1>8, <1>9

\* The heap of a loop without timers.
LEMMA EmptyIsHeap == \A before : HeapAs(EmptyHeap, before, {})
<1> SUFFICES ASSUME NEW before PROVE HeapAs(EmptyHeap, before, {})
  OBVIOUS
<1> DEFINE p == [i \in Nat |-> Null]
<1>1. EmptyHeap \in Heaps /\ EmptyHeap.nelts = 0 /\ EmptyHeap.min = Null
  BY DEF EmptyHeap, NoPointer, Heaps, Pointers, Links
<1>2. IsLayout(p, 0)
  BY DEF IsLayout, Links
<1>3. LaidOut(EmptyHeap, p)
  BY <1>1, <1>2 DEF LaidOut
<1>4. Members(p, 0) = {}
  BY DEF Members
<1>5. Sorted(p, 0, before)
  BY DEF Sorted
<1> QED
  BY <1>1, <1>3, <1>4, <1>5 DEF HeapAs

\* Only the order of its nodes matters to a heap.
LEMMA HeapReordered ==
    ASSUME NEW S, NEW before, NEW after, NEW H, HeapAs(H, before, S),
           \A a, b \in S : a \in after[b] => a \in before[b]
    PROVE  HeapAs(H, after, S)
<1>1. PICK p : LaidOut(H, p) /\ Members(p, H.nelts) = S /\ Sorted(p, H.nelts, before)
  BY DEF HeapAs
<1>2. H.nelts \in Nat
  BY DEF HeapAs, Heaps
<1>3. \A i \in 2..H.nelts : i \in 1..H.nelts /\ Up(i) \in 1..H.nelts
  BY <1>2, UpIs
<1>4. \A i \in 1..H.nelts : p[i] \in S
  BY <1>1 DEF Members
<1>5. Sorted(p, H.nelts, after)
  BY <1>1, <1>3, <1>4 DEF Sorted
<1> QED
  BY <1>1, <1>5 DEF HeapAs

\* A heap has no more nodes than there are.
LEMMA HeapFits ==
    ASSUME NEW S, NEW before, NEW H, HeapAs(H, before, S), IsFiniteSet(Nodes)
    PROVE  H.nelts \in 0..Cardinality(Nodes)
<1>1. PICK p : LaidOut(H, p) /\ Members(p, H.nelts) = S
  BY DEF HeapAs
<1>2. H.nelts \in Nat /\ IsLayout(p, H.nelts)
  BY <1>1 DEF HeapAs, Heaps, LaidOut
<1>3. S \subseteq Nodes
  BY <1>1, <1>2, NodesOfLayout DEF Members
<1>4. Cardinality(S) <= Cardinality(Nodes) /\ Cardinality(Nodes) \in Nat
  BY <1>3, FS_Subset, FS_CardinalityType
<1> QED
  BY <1>1, <1>2, <1>4, LayoutCounts
=============================================================================
