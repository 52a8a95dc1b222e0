---------------------------- MODULE ConnLifecycle ----------------------------
(***************************************************************************)
(* What the server of libuv-lua promises the script about connections,     *)
(* whatever happens on the network: one handler runs at a time; onconn is  *)
(* called first and decides; ondata is called only between acceptance and  *)
(* the end; onclose is called exactly once, last, also for a connection    *)
(* onconn refused.                                                         *)
(***************************************************************************)
CONSTANTS Conns,
          Given     \* the handlers the script has provided

VARIABLES life,     \* none, offered, serving, ending, told (in onclose), over
          running   \* <<>> or <<handler, connection>>

lifeVars == <<life, running>>

LifeInit == life = [c \in Conns |-> "none"] /\ running = <<>>

\* c moves from one stage to the next; handler h starts, or none does.
Begin(c, from, to, h) ==
    /\ running = <<>> /\ life[c] = from
    /\ life' = [life EXCEPT ![c] = to]
    /\ running' = IF h \in Given THEN <<h, c>> ELSE <<>>

\* The handler h that runs for c returns, and c moves on.
Return(c, h, from, to) ==
    /\ running = <<h, c>> /\ life[c] = from
    /\ life' = [life EXCEPT ![c] = to]
    /\ running' = <<>>

Offer(c) == "onconn" \in Given /\ Begin(c, "none", "offered", "onconn")
ServeUnasked(c) == "onconn" \notin Given /\ Begin(c, "none", "serving", "onconn")
RefuseUnasked(c) == "onconn" \notin Given /\ Begin(c, "none", "ending", "onconn")
Serve(c) == Return(c, "onconn", "offered", "serving")
Refuse(c) == Return(c, "onconn", "offered", "ending")
Deliver(c) == "ondata" \in Given /\ Begin(c, "serving", "serving", "ondata")
Delivered(c) == Return(c, "ondata", "serving", "serving")
End(c) == Begin(c, "serving", "ending", "")
Tell(c) ==
    \/ "onclose" \in Given /\ Begin(c, "ending", "told", "onclose")
    \/ "onclose" \notin Given /\ Begin(c, "ending", "over", "onclose")
Told(c) == Return(c, "onclose", "told", "over")
\* The userdata is collected, whatever runs meanwhile.
Reuse(c) == life[c] = "over" /\ life' = [life EXCEPT ![c] = "none"] /\ UNCHANGED running

Returns(c) == Serve(c) \/ Refuse(c) \/ Delivered(c) \/ Told(c)

LifeNext ==
    \E c \in Conns :
        \/ Offer(c) \/ ServeUnasked(c) \/ RefuseUnasked(c) \/ Deliver(c)
        \/ End(c) \/ Tell(c) \/ Reuse(c) \/ Returns(c)

LifeOrder == LifeInit /\ [][LifeNext]_lifeVars

\* Handlers return, and a connection that has ended is reported as closed even
\* though other handlers come between.
LifeSpec ==
    /\ LifeOrder
    /\ \A c \in Conns : WF_lifeVars(Returns(c)) /\ SF_lifeVars(Tell(c))
=============================================================================
