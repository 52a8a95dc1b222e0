-------------------------------- MODULE Timers --------------------------------
(***************************************************************************)
(* Lua timers (libuv-lua/src/timer.c, create_timer in uvlua.c) on libuv's  *)
(* timers (libuv/src/unix/timer.c) in the loop of uv_run (core.c).         *)
(*                                                                         *)
(* Times are relative: due[t] is handle->timeout - loop->time, and lag the *)
(* time on the wall since the loop read the clock.  start_id is the place  *)
(* in line.  So the loop runs for ever in finitely many states.            *)
(***************************************************************************)
EXTENDS TimerHeap, SequencesExt

CONSTANTS
    Intervals,          \* what a script gives as interval, 0 aside
    IntMax,             \* INT_MAX, what a poll timeout is cut to
    MaxLag              \* bound: how long a handler runs, how late a poll returns

ASSUME TimesAssumption ==
    Intervals \subseteq Nat \ {0} /\ IntMax \in Nat \ {0} /\ MaxLag \in Nat

VARIABLES
    heap,               \* loop->timer_heap
    due, line,          \* time left of the active timers; they in the order of start_id
    repeat, callback,   \* handle->repeat; handle->timer_cb is set
    made,               \* timers create_timer has made
    pc, cur,            \* where the thread is; the timer whose callback runs
    lag,                \* wall clock ahead of loop->time
    timeout,            \* of the poll
    served,             \* a server is open: the loop lives without timers, polls end early
    closing,            \* loop->closing_handles is not empty
    fired               \* history: timers fired in this pass of uv__run_timers

tmVars == <<heap, due, line, repeat, callback, made, pc, cur, lag, timeout, served, closing, fired>>

Active == ToSet(line)
LoopState == <<lag, timeout, served, closing>>

Init ==
    /\ heap = EmptyHeap /\ due = [t \in Nodes |-> 0] /\ line = <<>>
    /\ repeat = [t \in Nodes |-> 0] /\ callback = [t \in Nodes |-> FALSE] /\ made = {}
    /\ pc = "script" /\ cur = Null /\ lag = 0 /\ timeout = 0
    /\ served = FALSE /\ closing = FALSE /\ fired = {}

-----------------------------------------------------------------------------
(* libuv's timers, on T = [heap, due, line] *)

Queue == [heap |-> heap, due |-> due, line |-> line]
QueueIs(T) == \E Q \in {T} : heap' = Q.heap /\ due' = Q.due /\ line' = Q.line

\* Mutant: start_id is not compared.
BeforeByTime(T) == [t \in Nodes |-> {u \in ToSet(T.line) : T.due[u] < T.due[t]}]

\* timer_less_than: by timeout, then by start_id.
Before(T) ==
    [t \in Nodes |-> {u \in ToSet(T.line) :
        \/ T.due[u] < T.due[t]
        \/ T.due[u] = T.due[t] /\ \E i, j \in DOMAIN T.line : i < j /\ T.line[i] = u /\ T.line[j] = t}]

UvTimerStop(T, t) ==
    IF t \notin ToSet(T.line) THEN T
    ELSE [heap |-> HeapRemove(T.heap, Before(T), t), due |-> [T.due EXCEPT ![t] = 0],
          line |-> RemoveFirst(T.line, t)]

UvTimerStart(T, t, span) ==
    LET stopped == UvTimerStop(T, t)
        queued  == [stopped EXCEPT !.due[t] = span, !.line = Append(@, t)]
    IN [queued EXCEPT !.heap = HeapInsert(@, Before(queued), t)]

\* uv_timer_again returns an error if there is no callback.
UvTimerAgain(T, t, span) ==
    IF callback[t] /\ span # 0 THEN UvTimerStart(UvTimerStop(T, t), t, span) ELSE T

\* Mutant: not cut to an int.
UvNextTimeoutUncut ==
    IF heap.min = Null THEN -1 ELSE IF due[heap.min] <= 0 THEN 0 ELSE due[heap.min]

\* uv__next_timeout: the clock of the loop, not the wall's.
UvNextTimeout ==
    IF heap.min = Null THEN -1
    ELSE IF due[heap.min] <= 0 THEN 0
    ELSE IF due[heap.min] > IntMax THEN IntMax ELSE due[heap.min]

-----------------------------------------------------------------------------
(* timer.c, and create_server: what a script does before or after loop:run, in a  *)
(* timer's callback, in a handler of the server or in an onclose                   *)

InLua == pc \in {"script", "callback", "handler", "onclose"}

\* Mutant: a timer without an interval gets its callback too.
CreateTimerAlways(t, interval) ==
    /\ InLua /\ t \notin made
    /\ made' = made \cup {t}
    /\ repeat' = [repeat EXCEPT ![t] = interval]
    /\ callback' = [callback EXCEPT ![t] = TRUE]
    /\ QueueIs(UvTimerStart(Queue, t, interval))
    /\ UNCHANGED <<pc, cur, fired, LoopState>>

\* create_timer; with interval 0 the timer is not started and has no timer_cb.
CreateTimer(t, interval) ==
    /\ InLua /\ t \notin made
    /\ made' = made \cup {t}
    /\ repeat' = [repeat EXCEPT ![t] = interval]
    /\ callback' = [callback EXCEPT ![t] = interval > 0]
    /\ QueueIs(IF interval > 0 THEN UvTimerStart(Queue, t, interval) ELSE Queue)
    /\ UNCHANGED <<pc, cur, fired, LoopState>>

TimerStop(t) ==
    /\ InLua /\ t \in made
    /\ QueueIs(UvTimerStop(Queue, t))
    /\ UNCHANGED <<repeat, callback, made, pc, cur, fired, LoopState>>

TimerStart(t) ==
    /\ InLua /\ t \in made
    /\ QueueIs(UvTimerAgain(Queue, t, repeat[t]))
    /\ UNCHANGED <<repeat, callback, made, pc, cur, fired, LoopState>>

\* interval(n): a running timer is stopped and started again.
TimerInterval(t, interval) ==
    /\ InLua /\ t \in made
    /\ repeat' = [repeat EXCEPT ![t] = interval]
    /\ QueueIs(IF t \in Active THEN UvTimerAgain(UvTimerStop(Queue, t), t, interval) ELSE Queue)
    /\ UNCHANGED <<callback, made, pc, cur, fired, LoopState>>

\* create_server: a server that cannot listen is closed at once.
CreateServer(listens) ==
    /\ InLua
    /\ served' = (served \/ listens) /\ closing' = (closing \/ ~listens)
    /\ UNCHANGED <<heap, due, line, repeat, callback, made, pc, cur, lag, timeout, fired>>

\* What the script runs takes time, and the loop does not look at the clock.
Work ==
    /\ InLua /\ lag < MaxLag
    /\ lag' = lag + 1
    /\ UNCHANGED <<heap, due, line, repeat, callback, made, pc, cur, timeout, served, closing, fired>>

-----------------------------------------------------------------------------
(* uv_run *)

\* uv__has_active_handles or uv__has_active_reqs; uv__loop_alive.
Busy == line # <<>> \/ served
Alive == Busy \/ closing

\* The sooner of two timeouts, of which -1 is never.
Sooner(a, b) == IF b = -1 \/ (a # -1 /\ a < b) THEN a ELSE b

\* Mutant: closing_handles is not looked at.
UvBackendTimeoutAsleep(own, closes) ==
    IF Busy THEN Sooner(UvNextTimeout, own) ELSE 0

\* uv_backend_timeout; own is the time left to the server's own timer, -1 without one.
UvBackendTimeout(own, closes) ==
    IF Busy /\ ~closes THEN Sooner(UvNextTimeout, own) ELSE 0

\* Mutant: the time is lost.
UpdateTimeMissed(ms) == due' = due /\ lag' = 0

\* uv__update_time, ms later than the wall clock says now.
UpdateTime(ms) ==
    /\ due' = [t \in Nodes |-> IF t \in Active THEN due[t] - lag - ms ELSE 0]
    /\ lag' = 0

\* An iteration begins, or uv_run returns.
Iterate ==
    /\ pc \in {"script", "next"}
    /\ pc' = IF Alive THEN "timers" ELSE "script"
    /\ IF Alive \/ pc = "script" THEN UpdateTime(0) ELSE UNCHANGED <<due, lag>>
    /\ fired' = {}
    /\ UNCHANGED <<heap, line, repeat, callback, made, cur, timeout, served, closing>>

\* uv__run_timers, a pass of its loop up to the callback: the timer is armed again
\* before the callback, which may stop it.
RunTimer ==
    /\ pc = "timers" /\ heap.min # Null /\ due[heap.min] <= 0
    /\ cur' = heap.min
    /\ QueueIs(UvTimerAgain(UvTimerStop(Queue, heap.min), heap.min, repeat[heap.min]))
    /\ pc' = "callback" /\ fired' = fired \cup {heap.min}
    /\ UNCHANGED <<repeat, callback, made, LoopState>>

CallbackReturns ==
    /\ pc = "callback"
    /\ pc' = "timers" /\ cur' = Null
    /\ UNCHANGED <<heap, due, line, repeat, callback, made, fired, LoopState>>

\* The loop of uv__run_timers ends.
TimersRun ==
    /\ pc = "timers" /\ (heap.min # Null => due[heap.min] > 0)
    /\ pc' = "pending" /\ fired' = {}
    /\ UNCHANGED <<heap, due, line, repeat, callback, made, cur, LoopState>>

\* uv__run_pending, in which a connection may be closed (or was by the server's timer),
\* and uv_backend_timeout.
RunPending(closes, own) ==
    /\ pc = "pending"
    /\ (closes \/ own # -1) => served
    /\ closing' = (closing \/ closes)
    /\ timeout' = UvBackendTimeout(own, closing')
    /\ pc' = "poll"
    /\ UNCHANGED <<heap, due, line, repeat, callback, made, cur, lag, served, fired>>

\* uv__io_poll returns after its timeout or late ...
PollTimesOut(ms) ==
    /\ pc = "poll" /\ timeout # -1 /\ ms >= timeout
    /\ UpdateTime(ms)
    /\ pc' = "closing" /\ timeout' = 0
    /\ UNCHANGED <<heap, line, repeat, callback, made, cur, served, closing, fired>>

\* ... or with events of the server, which may close connections, and whose handlers run.
PollHasEvent(ms, closes) ==
    /\ pc = "poll" /\ served /\ (timeout # -1 => ms <= timeout)
    /\ UpdateTime(ms)
    /\ closing' = (closing \/ closes)
    /\ pc' = "handler" /\ timeout' = 0
    /\ UNCHANGED <<heap, line, repeat, callback, made, cur, served, fired>>

HandlerReturns ==
    /\ pc \in {"handler", "onclose"}
    /\ pc' = IF pc = "handler" THEN "closing" ELSE "next"
    /\ UNCHANGED <<heap, due, line, repeat, callback, made, cur, fired, LoopState>>

\* uv__run_closing_handles: what is closed from here on waits for the next iteration.
\* A connection's close callback runs its onclose.
RunClosing(runs) ==
    /\ pc = "closing"
    /\ closing' = FALSE
    /\ runs => closing /\ served
    /\ pc' = IF runs THEN "onclose" ELSE "next"
    /\ UNCHANGED <<heap, due, line, repeat, callback, made, cur, lag, timeout, served, fired>>

-----------------------------------------------------------------------------
Polls == 0..(IntMax + MaxLag)
PollReturns(ms) == PollTimesOut(ms) \/ \E closes \in BOOLEAN : PollHasEvent(ms, closes)

ScriptStep ==
    \/ Work
    \/ \E listens \in BOOLEAN : CreateServer(listens)
    \/ \E t \in Nodes :
        \/ TimerStop(t) \/ TimerStart(t)
        \/ \E interval \in Intervals \cup {0} : CreateTimer(t, interval)
        \/ \E interval \in Intervals : TimerInterval(t, interval)

LoopStep ==
    \/ Iterate \/ RunTimer \/ CallbackReturns \/ TimersRun \/ HandlerReturns
    \/ \E closes \in BOOLEAN, own \in {-1} \cup 1..IntMax : RunPending(closes, own)
    \/ \E ms \in Polls : PollReturns(ms)
    \/ \E runs \in BOOLEAN : RunClosing(runs)

Next == ScriptStep \/ LoopStep

\* Handlers return and the loop goes on while it is alive: WF_tmVars(pc # "script" /\
\* LoopStep), as some such step is always enabled then and only they move pc, said so
\* that TLC need not evaluate the step.  And the clock advances: not every poll is
\* ended by an event at once.
Fairness ==
    /\ []<>(pc = "script") \/ []<><<TRUE>>_pc
    /\ SF_tmVars(\E ms \in Polls \ {0} : PollReturns(ms))

TimersSpec == Init /\ [][Next]_tmVars /\ Fairness

-----------------------------------------------------------------------------
(* Properties *)

TypeOK ==
    /\ heap.min \in Nodes \cup {Null} /\ heap.nelts \in 0..Cardinality(Nodes)
    /\ \A f \in {heap.left, heap.right, heap.parent} : f \in [Nodes -> Nodes \cup {Null}]
    /\ due \in [Nodes -> Int] /\ \A t \in Nodes \ Active : due[t] = 0
    /\ line \in Seq(Nodes) /\ IsInjective(line)
    /\ repeat \in [Nodes -> Intervals \cup {0}] /\ callback \in [Nodes -> BOOLEAN]
    /\ made \subseteq Nodes /\ Active \subseteq made
    /\ pc \in {"script", "timers", "callback", "pending", "poll", "handler", "closing", "onclose", "next"}
    /\ cur \in Nodes \cup {Null} /\ (cur # Null <=> pc = "callback")
    /\ lag \in 0..MaxLag /\ timeout \in -1..IntMax /\ served \in BOOLEAN
    /\ closing \in BOOLEAN /\ fired \subseteq Nodes

\* The tree holds the active timers, complete and with the right parent pointers, and
\* no timer stands below a later one, although times and order of all its nodes
\* were changed by starts, stops and callbacks in between.
TreeIsHeap == IsHeapOf(heap, Before(Queue), Active)

\* Only a timer with a callback is in the heap, and one whose start reports success
\* has an interval, so that it is really started.
StartedHaveCallbacks ==
    \A t \in Nodes : (t \in Active => callback[t]) /\ (callback[t] => repeat[t] > 0)

\* A poll does not keep waiting what the loop has to do after it.  With a handle to close
\* it is not to wait at all.  While a timer is active it waits no longer than to the first,
\* by the loop's clock, never for ever, and, unless a handle closes, not for nothing: with
\* no server's timer to come sooner, to the first timer or as long as an int can say.
PollEndsInTime ==
    pc = "poll" =>
        /\ closing => timeout = 0
        /\ line # <<>> => timeout # -1 /\ \A t \in Active : timeout <= due[t]
        /\ line # <<>> /\ ~closing =>
             /\ timeout > 0
             /\ ~served /\ timeout < IntMax => \E t \in Active : timeout = due[t]

\* Active timers fire in the order of their times, each at most once per pass, and a
\* pass ends when none is due: see TimerQueue.
Queued == INSTANCE TimerQueue WITH
    Timers <- Nodes, Spans <- Intervals, pass <- pc \in {"timers", "callback"}
TimersFireInOrder == Queued!QueueSpec

\* While the loop runs, a timer that stays active fires again and again, unless the
\* script itself keeps restarting it.
Restarts(t) ==
    /\ InLua /\ pc' = pc /\ line' # <<>> /\ Last(line') = t
    /\ Len(line') >= Len(line) /\ <<line', due'>> # <<line, due>>
ActiveTimersFire ==
    \A t \in Nodes :
        \/ []<>(t \notin Active)
        \/ []<>(pc = "script")
        \/ []<>(cur = t)
        \/ []<><<Restarts(t)>>_tmVars
=============================================================================
