---------------------------- MODULE ServerLifecycle ----------------------------
(* TcpServer as an implementation of ConnLifecycle: how far a connection is   *)
(* follows from its handle, its anchor and the handler that runs.             *)
EXTENDS TcpServer

Stage(c) ==
    IF hnd[c] = "free" THEN "none"
    ELSE IF hnd[c] = "open" THEN IF Served(c) THEN "serving" ELSE "offered"
    ELSE IF hnd[c] = "closing" THEN "ending"
    ELSE IF ref[c] THEN "told" ELSE "over"

Lifecycle == INSTANCE ConnLifecycle WITH
    life <- [c \in Conns |-> Stage(c)],
    running <- IF InLua THEN <<pc, cur>> ELSE <<>>

\* Whatever peers and clocks do, the handlers of all connections run in the order
\* ConnLifecycle allows: one at a time, onconn first, ondata only in between, onclose
\* exactly once and last.
LifecycleOrder == Lifecycle!LifeOrder

\* The server keeps the lifecycle promise, also that handlers come to an end and every
\* ended connection is reported: see ConnLifecycle.
LifecycleKept == Lifecycle!LifeSpec
=============================================================================
