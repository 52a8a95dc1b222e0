------------------------------- MODULE IdleSet -------------------------------
(* What the idle timer needs of minheap.c: a set of nodes with times, from  *)
(* which the timer always takes a node that has waited longest.             *)
EXTENDS Integers

CONSTANTS Nodes, Times, NoNode

VARIABLES members,  \* nodes in the set
          ev,       \* ev_timeout of every node
          got       \* node the last operation took, or NoNode

idleVars == <<members, ev, got>>

IdleInit == members = {} /\ ev \in [Nodes -> Times] /\ got = NoNode

\* x is in the set with time t, whether it was there before or not.
Touch(x, t) ==
    /\ members' = members \cup {x}
    /\ ev' = [ev EXCEPT ![x] = t]
    /\ got' = NoNode

TakeOldest ==
    /\ \E x \in members :
          /\ \A y \in members : ev[x] <= ev[y]
          /\ members' = members \ {x}
          /\ got' = x
    /\ UNCHANGED ev

Drop(x) ==
    /\ x \in members
    /\ members' = members \ {x}
    /\ got' = NoNode
    /\ UNCHANGED ev

IdleNext ==
    \/ \E x \in Nodes, t \in Times : Touch(x, t)
    \/ TakeOldest
    \/ \E x \in Nodes : Drop(x)

IdleSpec == IdleInit /\ [][IdleNext]_idleVars
=============================================================================
