------------------------------ MODULE MinHeap ------------------------------
(***************************************************************************)
(* The heap of libuv-lua/src/minheap.c: an array of pointers to nodes,     *)
(* ordered by ev_timeout, in which every node keeps its own index so that  *)
(* it can be moved or erased from the middle.                              *)
(*                                                                         *)
(* push, adjust, pop and erase each open a hole in the array and move it   *)
(* up or down, one step per iteration of their loops, until the node e     *)
(* that is being placed fits.  p stands for the first n slots; what later  *)
(* slots still hold is never read.  A push whose realloc fails changes     *)
(* nothing: it is a stuttering step.                                       *)
(***************************************************************************)
EXTENDS Integers

CONSTANTS Nodes,
          Times,      \* values of ev_timeout
          FirstCap,   \* slots of the first allocation (8)
          NoNode      \* no node

ASSUME HeapAssumption ==
    /\ Times \subseteq Int
    /\ FirstCap \in Nat \ {0}
    /\ NoNode \notin Nodes

VARIABLES
    p, n, a,        \* min_heap: slots, how many are used, how many there are
    idx, ev,        \* minheap_idx (-1: in no heap) and ev_timeout of each node
    pc, hole, e,    \* loop that runs, its hole_index, the node to place there
    out,            \* node whose minheap_idx becomes -1 at the end, or NoNode
    got             \* what the last operation returned, if it was a pop

heapVars == <<p, n, a, idx, ev, pc, hole, e, out, got>>

HeapInit ==
    /\ p = [i \in 0..-1 |-> NoNode] /\ n = 0 /\ a = 0
    /\ idx = [x \in Nodes |-> -1]
    /\ ev \in [Nodes -> Times]
    /\ pc = "rest" /\ hole = 0 /\ e = NoNode /\ out = NoNode /\ got = NoNode

-----------------------------------------------------------------------------
(* Operations *)

Parent(i) == (i - 1) \div 2
Later(x, y) == ev[x] > ev[y]

\* minheap_reserve_: room for k slots (mutant: one too few).
Doubled == IF a # 0 THEN 2 * a ELSE FirstCap
ReserveShort(k) == IF a >= k - 1 THEN a ELSE IF Doubled < k THEN k ELSE Doubled
Reserve(k) == IF a >= k THEN a ELSE IF Doubled < k THEN k ELSE Doubled

\* The caller gives x a new time t and, as x is in no heap, pushes it.
Push(x, t) ==
    /\ pc = "rest" /\ idx[x] = -1
    /\ ev' = [ev EXCEPT ![x] = t]
    /\ a' = Reserve(n + 1)
    /\ n' = n + 1
    /\ p' = [i \in 0..n |-> IF i = n THEN x ELSE p[i]]
    /\ pc' = "up" /\ hole' = n /\ e' = x /\ out' = NoNode /\ got' = NoNode
    /\ UNCHANGED idx

\* Which loop places node x, whose time is t, in slot h: the hole rises at least
\* once ("lift") if the parent is later (mutant: it always sinks).
WayDown(h, t) == "down"
Way(h, t) == IF h > 0 /\ ev[p[Parent(h)]] > t THEN "lift" ELSE "down"

\* The caller gives x, which is in the heap, a new time t and adjusts the heap.
Adjust(x, t) ==
    /\ pc = "rest" /\ idx[x] # -1
    /\ ev' = [ev EXCEPT ![x] = t]
    /\ pc' = Way(idx[x], t) /\ hole' = idx[x] /\ e' = x /\ out' = NoNode /\ got' = NoNode
    /\ UNCHANGED <<p, n, a, idx>>

\* Slot h loses its node and is filled with the last one.
TakeOut(h, way) ==
    /\ n' = n - 1
    /\ p' = [i \in 0..n - 2 |-> p[i]]
    /\ pc' = way /\ hole' = h /\ e' = p[n - 1] /\ out' = p[h]
    /\ UNCHANGED <<a, idx, ev>>

Pop ==
    /\ pc = "rest" /\ n > 0
    /\ TakeOut(0, "down")
    /\ got' = p[0]

Erase(x) ==
    /\ pc = "rest" /\ idx[x] # -1
    /\ TakeOut(idx[x], Way(idx[x], ev[p[n - 1]]))
    /\ got' = NoNode

-----------------------------------------------------------------------------
(* Loops of shift_up, shift_up_unconditional and shift_down *)

\* The node in slot i moves into the hole and leaves the hole behind (mutants:
\* it keeps its old minheap_idx; hole_index does not follow).
MoveBlindly(i) ==
    /\ p' = [p EXCEPT ![hole] = p[i]]
    /\ hole' = i
    /\ UNCHANGED idx
MoveInPlace(i) ==
    /\ p' = [p EXCEPT ![hole] = p[i]]
    /\ idx' = [idx EXCEPT ![p[i]] = hole]
    /\ UNCHANGED hole
Move(i) ==
    /\ p' = [p EXCEPT ![hole] = p[i]]
    /\ idx' = [idx EXCEPT ![p[i]] = hole]
    /\ hole' = i

Rises == pc = "lift" \/ (pc = "up" /\ hole # 0 /\ Later(p[Parent(hole)], e))

\* The earlier child of slot h, which has one (mutant: the later).
LaterChild(h) == IF 2 * h + 2 = n \/ ~Later(p[2 * h + 2], p[2 * h + 1])
                 THEN 2 * h + 1 ELSE 2 * h + 2
MinChild(h) == IF 2 * h + 2 = n \/ Later(p[2 * h + 2], p[2 * h + 1])
               THEN 2 * h + 1 ELSE 2 * h + 2

Sinks == pc = "down" /\ 2 * hole + 2 <= n /\ Later(e, p[MinChild(hole)])

ShiftUp ==
    /\ Rises
    /\ Move(Parent(hole))
    /\ pc' = "up"
    /\ UNCHANGED <<n, a, ev, e, out, got>>

ShiftDown ==
    /\ Sinks
    /\ Move(MinChild(hole))
    /\ UNCHANGED <<n, a, ev, pc, e, out, got>>

\* The loop ends: e is placed, and a node taken out learns that it is.
Place ==
    /\ pc # "rest" /\ ~Rises /\ ~Sinks
    /\ p' = [i \in 0..n - 1 |-> IF i = hole THEN e ELSE p[i]]
    /\ idx' = [x \in Nodes |-> IF x = out THEN -1 ELSE IF x = e THEN hole ELSE idx[x]]
    /\ pc' = "rest" /\ hole' = 0 /\ e' = NoNode /\ out' = NoNode
    /\ UNCHANGED <<n, a, ev, got>>

HeapStep == ShiftUp \/ ShiftDown \/ Place

HeapNext ==
    \/ \E x \in Nodes, t \in Times : Push(x, t) \/ Adjust(x, t)
    \/ \E x \in Nodes : Erase(x)
    \/ Pop
    \/ HeapStep

HeapSpec == HeapInit /\ [][HeapNext]_heapVars

-----------------------------------------------------------------------------
(* Properties *)

\* Every variable keeps to its type; the slots in use, and the one being
\* written, are inside the allocation.
HeapTypeOK ==
    /\ n \in Nat /\ a \in Nat /\ n <= a
    /\ p \in [0..n - 1 -> Nodes]
    /\ idx \in [Nodes -> Nat \cup {-1}] /\ ev \in [Nodes -> Times]
    /\ pc \in {"rest", "up", "lift", "down"}
    /\ hole \in 0..n /\ (pc # "rest" => hole < a)
    /\ e \in Nodes \cup {NoNode} /\ (pc # "rest" => e \in Nodes)
    /\ out \in Nodes \cup {NoNode} /\ got \in Nodes \cup {NoNode}

\* Between operations the slots and the nodes' own indices agree: what
\* minheap_elm_inheap says and where erase and adjust look is right.
BackPointers ==
    pc = "rest" => /\ \A i \in 0..n - 1 : idx[p[i]] = i
                   /\ \A x \in Nodes : idx[x] # -1 => idx[x] < n /\ p[idx[x]] = x

\* Between operations no node is earlier than its parent, also after an erase
\* from the middle, which moves the last node up or down but never both.
HeapOrder ==
    pc = "rest" => \A i \in 1..n - 1 : ev[p[Parent(i)]] <= ev[p[i]]

\* The timer looks only at the first slot: no member has waited longer.
TopIsOldest ==
    pc = "rest" => \A i \in 0..n - 1 : ev[p[0]] <= ev[p[i]]

\* The inductive invariant behind them.  While a loop runs, everything holds
\* except at the hole: what stands above it is not later than what stands below,
\* so that either move keeps the order, and e is out of order on one side only.
\* e is the node that is taken out only if that was the last one.
Filled(i) == i \in 0..n - 1 /\ (pc = "rest" \/ i # hole)

PointerInv ==
    /\ \A i \in 0..n - 1 : Filled(i) => idx[p[i]] = i /\ p[i] # e /\ p[i] # out
    /\ \A x \in Nodes : idx[x] # -1 /\ x # e /\ x # out => Filled(idx[x]) /\ p[idx[x]] = x

OrderInv ==
    /\ \A i \in 1..n - 1 : Filled(i) /\ Filled(Parent(i)) => ev[p[Parent(i)]] <= ev[p[i]]
    /\ pc # "rest" =>
          \A i \in 1..n - 1 : Parent(i) = hole =>
              /\ hole # 0 => ev[p[Parent(hole)]] <= ev[p[i]]
              /\ pc # "down" => ev[e] <= ev[p[i]]
    /\ pc = "down" /\ hole # 0 /\ hole < n => ev[p[Parent(hole)]] <= ev[e]
    /\ pc \in {"up", "lift"} => hole < n
    /\ pc = "lift" => hole # 0 /\ ev[p[Parent(hole)]] > ev[e]

PlaceInv ==
    /\ pc = "rest" => e = NoNode /\ out = NoNode
    /\ pc # "rest" => (e = out <=> hole = n)

HeapInv == HeapTypeOK /\ PointerInv /\ OrderInv /\ PlaceInv

\* Every operation comes to an end: a step of a loop that runs ends it or takes
\* the hole nearer to the root, or nearer to the last slot, and never turns back.
LoopsMoveOn ==
    [][pc # "rest" =>
          \/ pc' = "rest"
          \/ pc # "down" /\ pc' = "up" /\ hole' < hole
          \/ pc = "down" /\ pc' = "down" /\ hole < hole' /\ hole' < n]_heapVars

\* Nodes that are in the heap once the running operation has ended.
Members ==
    IF pc = "rest" THEN {p[i] : i \in 0..n - 1}
    ELSE ({p[i] : i \in (0..n - 1) \ {hole}} \cup {e}) \ {out}

Idle == INSTANCE IdleSet WITH members <- Members

\* The heap implements IdleSet: nothing is lost or taken twice by the moves, and
\* a pop takes a member that has waited longest.
IdleSetKept == Idle!IdleSpec
=============================================================================
