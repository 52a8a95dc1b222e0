------------------------------- MODULE TimerHeap -------------------------------
(***************************************************************************)
(* libuv's binary heap of pointers (libuv/src/heap-inl.h), in which a loop *)
(* keeps its timers.  A heap is the record of struct heap (min, nelts) and *)
(* of the three pointers of every node; before[b] are the nodes a for      *)
(* which less_than(a, b) is true.                                          *)
(***************************************************************************)
EXTENDS Integers, FiniteSets

CONSTANTS
    Nodes,              \* heap nodes
    Null                \* the null pointer

ASSUME NullAssumption == Null \notin Nodes
ASSUME NodesAssumption == IsFiniteSet(Nodes)

NoPointer == [n \in Nodes |-> Null]
EmptyHeap == [min |-> Null, nelts |-> 0, left |-> NoPointer, right |-> NoPointer, parent |-> NoPointer]

\* f[x] := v, where x may be the null pointer and nothing is done.
Set(f, x, v) == IF x = Null THEN f ELSE [f EXCEPT ![x] = v]

\* heap_node_swap: child c takes the place of its parent p.  The grandparent g
\* tests only its left pointer.
HeapSwap(H, p, c) ==
    LET wasLeft == H.left[p] = c
        sibling == IF wasLeft THEN H.right[p] ELSE H.left[p]
        g       == H.parent[p]
        gLeft   == g # Null /\ H.left[g] = p
        down    == [H.parent EXCEPT ![p] = c, ![c] = g]
    IN [H EXCEPT
          !.parent = Set(Set(Set(down, sibling, c), H.left[c], p), H.right[c], p),
          !.left   = Set([H.left EXCEPT ![p] = H.left[c], ![c] = IF wasLeft THEN p ELSE sibling],
                         IF gLeft THEN g ELSE Null, c),
          !.right  = Set([H.right EXCEPT ![p] = H.right[c], ![c] = IF wasLeft THEN sibling ELSE p],
                         IF gLeft THEN Null ELSE g, c),
          !.min    = IF g = Null THEN c ELSE @]

\* The node at position i of the heap counted row by row: the path of the code is
\* the binary digits of i behind the first, 1 for right.
NodeAt(H, i) ==
    LET node[k \in 1..i] ==
          IF k = 1 THEN H.min
          ELSE IF k % 2 = 1 THEN H.right[node[k \div 2]] ELSE H.left[node[k \div 2]]
    IN node[i]

\* Writes v at position i.
Link(H, i, v) ==
    IF i = 1 THEN [H EXCEPT !.min = v]
    ELSE IF i % 2 = 1 THEN [H EXCEPT !.right[NodeAt(H, i \div 2)] = v]
    ELSE [H EXCEPT !.left[NodeAt(H, i \div 2)] = v]

\* Mutant: it never moves up.
WalkUpNever(H, before, n) == H

\* One pass of the loop that swaps n with its parent, and the heap after k passes: n
\* moves up a row in each, until it stays where it is.
OneUp(H, before, n) ==
    IF H.parent[n] # Null /\ n \in before[H.parent[n]] THEN HeapSwap(H, H.parent[n], n) ELSE H

WalkUp(H, before, n) ==
    LET walk[k \in 0..H.nelts] == IF k = 0 THEN H ELSE OneUp(walk[k - 1], before, n)
    IN walk[H.nelts]

\* The same for the loop that swaps n with the smallest of it and its children.
Smallest(H, before, n) ==
    LET l == H.left[n]  r == H.right[n]
        a == IF l # Null /\ l \in before[n] THEN l ELSE n
    IN IF r # Null /\ r \in before[a] THEN r ELSE a

OneDown(H, before, n) ==
    LET s == Smallest(H, before, n) IN IF s # n THEN HeapSwap(H, n, s) ELSE H

WalkDown(H, before, n) ==
    LET walk[k \in 0..H.nelts] == IF k = 0 THEN H ELSE OneDown(walk[k - 1], before, n)
    IN walk[H.nelts]

HeapInsert(H, before, n) ==
    LET i == H.nelts + 1
        new == [H EXCEPT !.left[n] = Null, !.right[n] = Null,
                         !.parent[n] = IF i = 1 THEN Null ELSE NodeAt(H, i \div 2)]
    IN WalkUp([Link(new, i, n) EXCEPT !.nelts = i], before, n)

\* child, the last node, takes over the pointers of n.  The pointers n itself keeps
\* are not read again before heap_insert resets them; the model resets them here.
Replace(H, n, child) ==
    LET g == H.parent[n]
        gLeft == g # Null /\ H.left[g] = n
        moved == [H EXCEPT !.left[child] = H.left[n], !.right[child] = H.right[n],
                           !.parent[child] = g]
    IN [moved EXCEPT
          !.parent = [Set(Set(@, H.left[n], child), H.right[n], child) EXCEPT ![n] = Null],
          !.min    = IF g = Null THEN child ELSE @,
          !.left   = [Set(@, IF gLeft THEN g ELSE Null, child) EXCEPT ![n] = Null],
          !.right  = [Set(@, IF gLeft THEN Null ELSE g, child) EXCEPT ![n] = Null]]

\* Mutant: the node is replaced before the last one is unlinked.
HeapRemoveLate(H, before, n) ==
    LET last == NodeAt(H, H.nelts)
    IN IF last = n THEN [Link(H, H.nelts, Null) EXCEPT !.nelts = @ - 1, !.parent[n] = Null]
       ELSE WalkUp(WalkDown([Replace(H, n, last) EXCEPT !.nelts = @ - 1], before, last), before, last)

HeapRemove(H, before, n) ==
    LET last == NodeAt(H, H.nelts)
        unlinked == [Link(H, H.nelts, Null) EXCEPT !.nelts = @ - 1]
    IN IF last = n THEN [unlinked EXCEPT !.parent[n] = Null]
       ELSE WalkUp(WalkDown(Replace(unlinked, n, last), before, last), before, last)

-----------------------------------------------------------------------------
(* What a heap is *)

HeapMembers(H) == {NodeAt(H, i) : i \in 1..H.nelts}

\* H is a complete tree of the nodes in S: each stands at one of the first positions,
\* its parent pointer leads one position up, and there is nothing below the last one.
IsTreeOf(H, S) ==
    /\ H.nelts = Cardinality(S) /\ HeapMembers(H) = S
    /\ H.nelts = 0 => H.min = Null
    /\ \A i \in 1..H.nelts :
        LET n == NodeAt(H, i) IN
        /\ H.parent[n] = IF i = 1 THEN Null ELSE NodeAt(H, i \div 2)
        /\ 2 * i > H.nelts => H.left[n] = Null
        /\ 2 * i + 1 > H.nelts => H.right[n] = Null

IsOrdered(H, before) == \A i \in 2..H.nelts : NodeAt(H, i) \notin before[NodeAt(H, i \div 2)]

IsHeapOf(H, before, S) == IsTreeOf(H, S) /\ IsOrdered(H, before)
=============================================================================
