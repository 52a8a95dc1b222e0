------------------------------- MODULE MCTimers -------------------------------
(* Instances of Timers for TLC, and TimerHeap's algorithms on all small heaps. *)
EXTENDS Timers

CONSTANT MaxHeap        \* the size of those heaps

\* Nodes are named by their rank.
Small == INSTANCE TimerHeap WITH Nodes <- 1..MaxHeap, Null <- 0
ByName == [n \in 1..MaxHeap |-> 1..n - 1]

\* The complete trees of the nodes in S in which no node stands below a later one,
\* as arrays, and with their pointers.
Orders(S) ==
    LET k == Cardinality(S)
    IN {p \in [1..k -> S] : IsInjective(p) /\ \A i \in 2..k : p[i \div 2] < p[i]}

TreeOf(p) ==
    LET k == Len(p)
        at(i) == IF i \in 1..k THEN p[i] ELSE 0
        of(f(_)) == [n \in 1..MaxHeap |-> IF \E i \in 1..k : p[i] = n
                                          THEN f(CHOOSE i \in 1..k : p[i] = n) ELSE 0]
        left(i) == at(2 * i)  right(i) == at(2 * i + 1)  parent(i) == at(i \div 2)
    IN [min |-> at(1), nelts |-> k, left |-> of(left), right |-> of(right), parent |-> of(parent)]

\* On every heap of up to MaxHeap nodes heap_insert and heap_remove, of any node, leave
\* a heap of the nodes they should leave.  Six nodes are the fewest where removing one
\* brings the last one under a parent that is later than it.  It is about no state, and
\* looked at before the first timer is made.
HeapAlgorithmsAreRight ==
    made = {} => \A k \in 1..MaxHeap, x \in 1..MaxHeap : x <= k =>
        /\ \A p \in Orders(1..k) :
             Small!IsHeapOf(Small!HeapRemove(TreeOf(p), ByName, x), ByName, (1..k) \ {x})
        /\ \A p \in Orders((1..k) \ {x}) :
             Small!IsHeapOf(Small!HeapInsert(TreeOf(p), ByName, x), ByName, 1..k)
=============================================================================
