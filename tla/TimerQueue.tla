------------------------------ MODULE TimerQueue ------------------------------
(***************************************************************************)
(* What a loop's timers promise.  A timer that is started waits in line    *)
(* with a time left.  In a pass the timers that are due fire, the longest  *)
(* due first and those due alike in the order they were started; a pass    *)
(* fires no timer twice and leaves none that is due.                       *)
(***************************************************************************)
EXTENDS Integers, SequencesExt

CONSTANTS Timers, Spans         \* timers; the spans they may be started with
VARIABLES line, due, pass, fired

queueVars == <<line, due, pass, fired>>

QInit == line = <<>> /\ due = [t \in Timers |-> 0] /\ pass = FALSE /\ fired = {}

Arm(t, d) ==
    /\ line' = Append(RemoveFirst(line, t), t)
    /\ due' = [due EXCEPT ![t] = d]
    /\ UNCHANGED <<pass, fired>>

Disarm(t) ==
    /\ line' = RemoveFirst(line, t)
    /\ due' = [due EXCEPT ![t] = 0]
    /\ UNCHANGED <<pass, fired>>

\* The loop takes note of the time; a pass begins with that.
TimePasses ==
    /\ ~pass
    /\ \A t \in ToSet(line) : due'[t] <= due[t]
    /\ \A t, u \in ToSet(line) : due[t] - due'[t] = due[u] - due'[u]
    /\ \A t \in Timers \ ToSet(line) : due'[t] = 0
    /\ pass' \in BOOLEAN /\ fired' = {}
    /\ UNCHANGED line

InFront(t, u) ==
    LET pos(x) == CHOOSE i \in DOMAIN line : line[i] = x
    IN due[t] < due[u] \/ (due[t] = due[u] /\ pos(t) <= pos(u))

Fire(t) ==
    /\ pass /\ t \in ToSet(line) \ fired /\ due[t] <= 0
    /\ \A u \in ToSet(line) : InFront(t, u)
    /\ line' = Append(RemoveFirst(line, t), t)
    /\ \E d \in Spans : due' = [due EXCEPT ![t] = d]
    /\ fired' = fired \cup {t}
    /\ UNCHANGED pass

EndPass ==
    /\ pass /\ \A t \in ToSet(line) : due[t] > 0
    /\ pass' = FALSE /\ fired' = {}
    /\ UNCHANGED <<line, due>>

QNext ==
    \/ TimePasses \/ EndPass
    \/ \E t \in Timers : Fire(t) \/ Disarm(t) \/ \E d \in Spans : Arm(t, d)

QueueSpec == QInit /\ [][QNext]_queueVars
=============================================================================
