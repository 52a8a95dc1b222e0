------------------------------ MODULE TcpServer ------------------------------
(***************************************************************************)
(* The TCP server of libuv-lua (libuv-lua/src/tcpserver.c) on the part of  *)
(* libuv it runs on (libuv/src/unix/core.c, stream.c, linux-core.c).       *)
(*                                                                         *)
(* One thread runs uv_run.  `pc' is the place in the loop iteration        *)
(* (pending, events, closing), in a callback of an event (accept, read,    *)
(* write) or, while a Lua handler of the script runs, the name of that     *)
(* handler; the code of the script is the choice among the operations it   *)
(* may call there.  Peers, the kernel's socket buffers, the clocks and     *)
(* Lua's collector act between any two steps of the loop.                  *)
(*                                                                         *)
(* Two sets stand for queues whose order no property depends on: the       *)
(* pending queue (its callbacks commute) and the list of closing handles.  *)
(***************************************************************************)
EXTENDS Integers, FiniteSets

CONSTANTS
    Conns,          \* slots for uv_tcpconn_t userdata, each reused after collection
    Given,          \* handlers passed to create_server as functions
    InitialIdle,    \* values of set_timeout before loop:run (0: never called)
    LuaTimeouts,    \* values set_timeout is given inside a handler
    MaxIdle,        \* bound: largest idle timeout, in clock ticks
    BufSize,        \* data units one uv_alloc buffer holds (20480 bytes)
    MaxAvail,       \* bound: data units waiting in a socket
    ReadBudget,     \* reads per uv__read call (32)
    MaxEchoes,      \* bound: echo calls on one connection
    NoConn          \* value of cur before the first connection

Handlers == {"onconn", "ondata", "onclose"}
Events == {"in", "out", "hup"}

ASSUME ConfigAssumption ==
    /\ Given \subseteq Handlers
    /\ MaxIdle \in Nat
    /\ InitialIdle \subseteq 0..MaxIdle
    /\ LuaTimeouts \subseteq 0..MaxIdle
    /\ BufSize \in Nat \ {0}
    /\ MaxAvail \in Nat
    /\ ReadBudget \in Nat \ {0}
    /\ MaxEchoes \in Nat
    /\ NoConn \notin Conns

VARIABLES
    pc, cur, evs, partial, count,       \* the loop and the uv__stream_io call it is in
    ready, srvReady, pending, closing,  \* events of this poll, fed watchers, closing handles
    handlers, idle, timer, heap,        \* uv_tcpserver_t
    hnd, ref, age,                      \* handle state, registry anchor, now - ev_timeout
    reading, pollout, shutting,         \* watched events and the shutdown request
    wq, split, wdone, werr,             \* write requests: queued (first partly sent), written, failed
    echoes, lost,                       \* echo calls so far; buffers nothing owns
    peer, avail, full,                  \* the other end, unread data, send buffer is full
    silent                              \* history: ticks since the script last heard of c

loopVars   == <<pc, cur, evs, partial, count>>
queueVars  == <<ready, srvReady, pending, closing>>
serverVars == <<handlers, idle, timer>>
connVars   == <<hnd, ref>>
ageVars    == <<heap, age, silent>>
ioVars     == <<reading, pollout, shutting>>
writeVars  == <<wq, split, wdone, werr, echoes, lost>>
peerVars   == <<peer, avail, full>>
vars == <<loopVars, queueVars, serverVars, connVars, ageVars, ioVars, writeVars, peerVars>>

\* A handler that create_server was not given is an uninitialised field: it may
\* read as LUA_NOREF ("none") or as a reference that is no function ("other").
HandlerKinds == {"function", "none", "other"}

\* The loop is about to start its first iteration.
Init ==
    /\ pc = "closing" /\ cur = NoConn /\ evs = {} /\ partial = FALSE /\ count = 0
    /\ ready = [c \in Conns |-> {}] /\ srvReady = FALSE
    /\ pending = {} /\ closing = {}
    /\ handlers \in [Handlers -> HandlerKinds]
    /\ \A h \in Handlers : h \in Given <=> handlers[h] = "function"
    /\ idle \in InitialIdle
    /\ timer = (IF idle > 0 THEN "armed" ELSE "off")
    /\ heap = {}
    /\ hnd = [c \in Conns |-> "free"]
    /\ ref = [c \in Conns |-> FALSE]
    /\ age = [c \in Conns |-> 0]
    /\ reading = [c \in Conns |-> FALSE]
    /\ pollout = [c \in Conns |-> FALSE]
    /\ shutting = [c \in Conns |-> FALSE]
    /\ wq = [c \in Conns |-> 0]
    /\ split = [c \in Conns |-> FALSE]
    /\ wdone = [c \in Conns |-> 0]
    /\ werr = [c \in Conns |-> 0]
    /\ echoes = [c \in Conns |-> 0]
    /\ lost = [c \in Conns |-> 0]
    /\ peer = [c \in Conns |-> "away"]
    /\ avail = [c \in Conns |-> 0]
    /\ full = [c \in Conns |-> FALSE]
    /\ silent = [c \in Conns |-> 0]

-----------------------------------------------------------------------------
(* libuv calls, as effects on the state of connection c *)

\* Mutant of UvShutdown: the request is made but POLLOUT is not watched.
UvShutdownUnwatched(S) ==
    LET begins == {c \in S : hnd[c] = "open" /\ ~shutting[c]}
    IN  /\ shutting' = [c \in Conns |-> shutting[c] \/ c \in begins]
        /\ UNCHANGED pollout

\* uv_shutdown on each connection of S: refused unless the stream is open with
\* no shutdown request pending, otherwise the request waits for POLLOUT.
UvShutdown(S) ==
    LET begins == {c \in S : hnd[c] = "open" /\ ~shutting[c]}
    IN  /\ shutting' = [c \in Conns |-> shutting[c] \/ c \in begins]
        /\ pollout' = [c \in Conns |-> pollout[c] \/ c \in begins]

\* uv__io_close: the closed watcher leaves the pending queue q (mutant: it stays).
PendingStale(c, q) == q
PendingWithout(c, q) == q \ {c}

\* uv_close: the watcher is stopped and taken off every queue, the fd is closed,
\* the handle waits for the closing phase.
UvClose(c, q) ==
    /\ hnd' = [hnd EXCEPT ![c] = "closing"]
    /\ closing' = closing \cup {c}
    /\ pending' = PendingWithout(c, q)
    /\ ready' = [ready EXCEPT ![c] = {}]
    /\ reading' = [reading EXCEPT ![c] = FALSE]
    /\ pollout' = [pollout EXCEPT ![c] = FALSE]
    /\ peer' = [peer EXCEPT ![c] = "away"]
    /\ avail' = [avail EXCEPT ![c] = 0]
    /\ full' = [full EXCEPT ![c] = FALSE]

\* The result of one uv__write.  left: requests still queued; split: the first of
\* them is partly sent; fed: a request completed and the watcher was fed to the
\* pending queue; ok: it completed without error; full: the send buffer is full
\* afterwards; armed: POLLOUT is watched.
Result(left, sp, fed, ok, f, armed) ==
    [left |-> left, split |-> sp, fed |-> fed, ok |-> ok, full |-> f, armed |-> armed]

\* What one uv__write may do with n requests queued on c: it writes at most the
\* first one, in at most two pieces (the bound on partial writes).
UvWrite(c, n) ==
    IF n = 0 THEN {Result(0, FALSE, FALSE, TRUE, full[c], pollout[c])}
    ELSE IF peer[c] = "rst" THEN {Result(n - 1, FALSE, TRUE, FALSE, full[c], FALSE)}
    ELSE IF full[c] THEN {Result(n, split[c], FALSE, TRUE, TRUE, TRUE)}
    ELSE {Result(n - 1, FALSE, TRUE, TRUE, FALSE, pollout[c]),
          Result(n - 1, FALSE, TRUE, TRUE, TRUE, pollout[c])}
         \cup (IF split[c] THEN {} ELSE {Result(n, TRUE, FALSE, TRUE, TRUE, TRUE)})

\* uv__drain runs once the queue is empty and then completes a shutdown request
\* (mutant: it does not wait for the queue).
CompletesShutdownEarly(c, left) == shutting[c]
CompletesShutdown(c, left) == left = 0 /\ shutting[c]

\* POLLOUT stays watched while writes are queued (mutant: it never does).
StaysArmedNever(w) == FALSE
StaysArmed(w) == w.left # 0 /\ w.armed

\* The POLLOUT half of uv__stream_io: write, run the callbacks of completed
\* writes (uv_tcpconn_after_sendmem frees their buffers), and when the queue is
\* empty drain: stop POLLOUT and complete a pending shutdown, whose callback
\* closes the connection.  q is the pending queue without c's entry.
StreamOut(c, q) ==
    \E w \in UvWrite(c, wq[c]) :
        /\ wq' = [wq EXCEPT ![c] = w.left]
        /\ split' = [split EXCEPT ![c] = w.split]
        /\ wdone' = [wdone EXCEPT ![c] = 0]
        /\ werr' = [werr EXCEPT ![c] = 0]
        /\ \/ /\ CompletesShutdown(c, w.left)
              /\ shutting' = [shutting EXCEPT ![c] = FALSE]
              /\ UvClose(c, q)
           \/ /\ ~CompletesShutdown(c, w.left)
              /\ pollout' = [pollout EXCEPT ![c] = StaysArmed(w)]
              /\ pending' = IF w.fed THEN q \cup {c} ELSE q
              /\ full' = [full EXCEPT ![c] = w.full]
              /\ UNCHANGED <<hnd, closing, ready, reading, shutting, peer, avail>>
        /\ UNCHANGED <<echoes, lost, srvReady, ref>>

-----------------------------------------------------------------------------
(* Phases of uv_run *)

\* Connections uv_tcpserver_ontimer finds past their timeout (mutant: off by one).
ExpiredAtLimit == {c \in heap : idle > 0 /\ age[c] >= idle}
Expired == {c \in heap : idle > 0 /\ age[c] > idle}

\* uv__run_timers arms a repeating timer again before its callback (mutant: once only).
TimerSpent == "off"
TimerAgain == "armed"

\* Closing handles are done and the next iteration starts: uv__run_timers with
\* uv_tcpserver_ontimer, which takes every expired connection out of the heap
\* and shuts it down.
RunTimers ==
    /\ pc = "closing" /\ closing = {}
    /\ pc' = "pending"
    /\ \/ /\ timer = "due"
          /\ timer' = TimerAgain
          /\ heap' = heap \ Expired
          /\ UvShutdown(Expired)
       \/ /\ timer # "due"
          /\ UNCHANGED <<timer, heap, shutting, pollout>>
    /\ UNCHANGED <<cur, evs, partial, count, queueVars, handlers, idle, connVars,
                   age, silent, reading, writeVars, peerVars>>

\* uv__run_pending: the next fed watcher gets POLLOUT.
RunPending(c) ==
    /\ pc = "pending"
    /\ c \in pending
    /\ StreamOut(c, pending \ {c})
    /\ UNCHANGED <<loopVars, serverVars, ageVars>>

\* What epoll reports of c for the events its watcher is registered for.
Polled(c) ==
    IF hnd[c] = "open" /\ (reading[c] \/ pollout[c])
    THEN {e \in Events :
            \/ e = "in" /\ reading[c] /\ (avail[c] > 0 \/ peer[c] \in {"fin", "rst"})
            \/ e = "out" /\ pollout[c] /\ (~full[c] \/ peer[c] = "rst")
            \/ e = "hup" /\ peer[c] = "rst"}
    ELSE {}

\* Connections the kernel has completed and uv__accept has not taken.
Backlog == {c \in Conns : hnd[c] = "free" /\ peer[c] # "away"}

\* uv__io_poll, once nothing is pending: blocks until an event, or returns at
\* once for a closing handle or a due timer (uv_backend_timeout).
Poll ==
    /\ pc = "pending" /\ pending = {}
    /\ \/ \E c \in Conns : Polled(c) # {}
       \/ Backlog # {}
       \/ closing # {}
       \/ timer = "due"
    /\ ready' = [c \in Conns |-> Polled(c)]
    /\ srvReady' = (Backlog # {})
    /\ pc' = "events"
    /\ UNCHANGED <<cur, evs, partial, count, pending, closing, serverVars, connVars,
                   ageVars, ioVars, writeVars, peerVars>>

\* uv__io_poll hands c the polled events its watcher still wants; a watcher
\* that wants none any more is skipped.  uv__stream_io starts.
Dispatch(c) ==
    /\ pc = "events"
    /\ ready[c] # {}
    /\ ready' = [ready EXCEPT ![c] = {}]
    /\ LET wanted == {e \in ready[c] :
                        /\ reading[c] \/ pollout[c]
                        /\ e = "in" => reading[c]
                        /\ e = "out" => pollout[c]}
       IN  \/ /\ wanted = {}
              /\ UNCHANGED <<pc, cur, evs, count>>
           \/ /\ wanted # {}
              /\ cur' = c
              /\ evs' = wanted
              /\ pc' = IF wanted \cap {"in", "hup"} # {} THEN "read" ELSE "write"
              /\ count' = ReadBudget
    /\ UNCHANGED <<partial, srvReady, pending, closing, serverVars, connVars, ageVars, ioVars,
                   writeVars, peerVars>>

\* uv__server_io is called for the listening socket.
DispatchServer ==
    /\ pc = "events"
    /\ srvReady
    /\ srvReady' = FALSE
    /\ pc' = "accept"
    /\ UNCHANGED <<cur, evs, partial, count, ready, pending, closing, serverVars,
                   connVars, ageVars, ioVars, writeVars, peerVars>>

EndEvents ==
    /\ pc = "events"
    /\ ~srvReady /\ \A c \in Conns : ready[c] = {}
    /\ pc' = "closing"
    /\ UNCHANGED <<cur, evs, partial, count, queueVars, serverVars, connVars,
                   ageVars, ioVars, writeVars, peerVars>>

-----------------------------------------------------------------------------
(* lua_tcpserver_onconnection *)

\* Mutant of StartServing: minheap_push is missing.
StartServingUnwatched(c) ==
    /\ reading' = [reading EXCEPT ![c] = TRUE]
    /\ age' = [age EXCEPT ![c] = 0]
    /\ silent' = [silent EXCEPT ![c] = 0]
    /\ UNCHANGED heap

\* uv_read_start succeeded: the idle clock starts and c enters the heap.
StartServing(c) ==
    /\ reading' = [reading EXCEPT ![c] = TRUE]
    /\ age' = [age EXCEPT ![c] = 0]
    /\ silent' = [silent EXCEPT ![c] = 0]
    /\ heap' = heap \cup {c}

\* uv__server_io takes the next connection of the backlog; lua_tcpserver_onconnection
\* makes the userdata, anchors it, accepts into it and calls onconn.  Without a
\* handler the connection is served; a handler that is no function closes it.
Accept(c) ==
    /\ pc = "accept"
    /\ c \in Backlog
    /\ ref' = [ref EXCEPT ![c] = TRUE]
    /\ \/ /\ handlers["onconn"] = "function"
          /\ pc' = "onconn"
          /\ cur' = c
          /\ hnd' = [hnd EXCEPT ![c] = "open"]
          /\ UNCHANGED <<ready, pending, closing, ageVars, reading, pollout, peerVars>>
       \/ /\ handlers["onconn"] = "none"
          /\ hnd' = [hnd EXCEPT ![c] = "open"]
          /\ StartServing(c)
          /\ UNCHANGED <<pc, cur, ready, pending, closing, pollout, peerVars>>
       \/ /\ handlers["onconn"] = "other"
          /\ UvClose(c, pending)
          /\ UNCHANGED <<pc, cur, ageVars>>
    /\ UNCHANGED <<evs, partial, count, srvReady, serverVars, shutting, writeVars>>

EndAccept ==
    /\ pc = "accept"
    /\ Backlog = {}
    /\ pc' = "events"
    /\ UNCHANGED <<cur, evs, partial, count, queueVars, serverVars, connVars,
                   ageVars, ioVars, writeVars, peerVars>>

\* onconn returned nothing, or true last.
OnConnAccepts ==
    /\ pc = "onconn"
    /\ StartServing(cur)
    /\ pc' = "accept" /\ cur' = NoConn
    /\ UNCHANGED <<evs, partial, count, queueVars, serverVars, connVars,
                   pollout, shutting, writeVars, peerVars>>

\* onconn returned anything else (false, nil, a connection, ...) or raised an error.
OnConnRefuses ==
    /\ pc = "onconn"
    /\ UvClose(cur, pending)
    /\ pc' = "accept" /\ cur' = NoConn
    /\ UNCHANGED <<evs, partial, count, srvReady, serverVars, ref, ageVars,
                   shutting, writeVars>>

-----------------------------------------------------------------------------
(* uv__stream_io on cur: uv__read with uv_tcpserver_onread as read callback.  *)
(* count is the number of reads uv__read may still do, 0 once it has returned. *)

\* onread got data: the idle clock restarts and the connection is (back) in the
\* heap, if there is an idle timeout.
HeardFrom(c) ==
    \/ /\ idle > 0
       /\ age' = [age EXCEPT ![c] = 0]
       /\ heap' = heap \cup {c}
    \/ idle = 0 /\ UNCHANGED <<age, heap>>

\* Units one read takes (mutant: always a full buffer).
ReadSizeFull(c) == BufSize
ReadSize(c) == IF avail[c] < BufSize THEN avail[c] ELSE BufSize

\* A read that leaves the buffer partly empty is the last one (READ_PARTIAL).
ReadData ==
    /\ pc = "read"
    /\ reading[cur] /\ count > 0 /\ avail[cur] > 0
    /\ LET n == ReadSize(cur)
       IN  /\ avail' = [avail EXCEPT ![cur] = @ - n]
           /\ partial' = (n < BufSize)
           /\ count' = IF n < BufSize THEN 0 ELSE count - 1
    /\ HeardFrom(cur)
    /\ silent' = [silent EXCEPT ![cur] = 0]
    /\ pc' = IF handlers["ondata"] = "function" THEN "ondata" ELSE "read"
    /\ UNCHANGED <<cur, evs, queueVars, serverVars, connVars, ioVars, writeVars, peer, full>>

\* ondata returned or raised an error.
OnDataReturns ==
    /\ pc = "ondata"
    /\ pc' = "read"
    /\ UNCHANGED <<cur, evs, partial, count, queueVars, serverVars, connVars,
                   ageVars, ioVars, writeVars, peerVars>>

\* EAGAIN after a full buffer: onread gets nread = 0 and shuts the stream down.
ReadNothing ==
    /\ pc = "read"
    /\ reading[cur] /\ count > 0 /\ avail[cur] = 0 /\ peer[cur] = "open"
    /\ UvShutdown({cur})
    /\ count' = 0
    /\ UNCHANGED <<pc, cur, evs, partial, queueVars, serverVars, connVars, ageVars,
                   reading, writeVars, peerVars>>

\* End of file or a read error: onread shuts the stream down, reading stops.
ReadEnds ==
    /\ pc = "read"
    /\ reading[cur] /\ count > 0
    /\ peer[cur] = "rst" \/ (avail[cur] = 0 /\ peer[cur] = "fin")
    /\ UvShutdown({cur})
    /\ reading' = [reading EXCEPT ![cur] = FALSE]
    /\ count' = 0
    /\ UNCHANGED <<pc, cur, evs, partial, queueVars, serverVars, connVars, ageVars,
                   writeVars, peerVars>>

\* uv__read is over; after a short read POLLHUP means EOF.
AfterRead ==
    /\ pc = "read"
    /\ ~reading[cur] \/ count = 0
    /\ pc' = "write"
    /\ \/ /\ "hup" \in evs /\ reading[cur] /\ partial
          /\ UvShutdown({cur})
          /\ reading' = [reading EXCEPT ![cur] = FALSE]
       \/ /\ ~("hup" \in evs /\ reading[cur] /\ partial)
          /\ UNCHANGED ioVars
    /\ UNCHANGED <<cur, evs, partial, count, queueVars, serverVars, connVars,
                   ageVars, writeVars, peerVars>>

\* The POLLOUT half of uv__stream_io, then back to uv__io_poll.
WriteOut ==
    /\ pc = "write"
    /\ pc' = "events" /\ cur' = NoConn /\ evs' = {} /\ partial' = FALSE /\ count' = 0
    /\ \/ /\ evs \cap {"out", "hup"} # {}
          /\ StreamOut(cur, pending)
       \/ /\ evs \cap {"out", "hup"} = {}
          /\ UNCHANGED <<queueVars, connVars, ioVars, writeVars, peerVars>>
    /\ UNCHANGED <<serverVars, ageVars>>

-----------------------------------------------------------------------------
(* uv__finish_close and uv_tcpserver_onconnclose *)

\* Mutants of Forget: minheap_erase, or luaL_unref, is missing.
ForgetButKeepInHeap(c) ==
    /\ UNCHANGED heap
    /\ ref' = [ref EXCEPT ![c] = FALSE]
ForgetButKeepAnchor(c) ==
    /\ heap' = heap \ {c}
    /\ UNCHANGED ref

\* The close callback's last part: c leaves the heap and loses its anchor.
Forget(c) ==
    /\ heap' = heap \ {c}
    /\ ref' = [ref EXCEPT ![c] = FALSE]

\* uv__finish_close: queued writes are cancelled, all write callbacks run (every
\* buffer is freed), then the close callback calls onclose.
FinishClose(c) ==
    /\ pc = "closing"
    /\ c \in closing
    /\ closing' = closing \ {c}
    /\ hnd' = [hnd EXCEPT ![c] = "closed"]
    /\ wq' = [wq EXCEPT ![c] = 0]
    /\ split' = [split EXCEPT ![c] = FALSE]
    /\ wdone' = [wdone EXCEPT ![c] = 0]
    /\ werr' = [werr EXCEPT ![c] = 0]
    /\ \/ /\ handlers["onclose"] = "function"
          /\ pc' = "onclose" /\ cur' = c
          /\ UNCHANGED <<heap, ref>>
       \/ /\ handlers["onclose"] # "function"
          /\ Forget(c)
          /\ UNCHANGED <<pc, cur>>
    /\ UNCHANGED <<evs, partial, count, ready, srvReady, pending, serverVars, age, silent,
                   ioVars, echoes, lost, peerVars>>

OnCloseReturns ==
    /\ pc = "onclose"
    /\ Forget(cur)
    /\ pc' = "closing" /\ cur' = NoConn
    /\ UNCHANGED <<evs, partial, count, queueVars, serverVars, hnd, age, silent,
                   ioVars, writeVars, peerVars>>

-----------------------------------------------------------------------------
(* What a script may call while one of its handlers runs *)

InLua == pc \in Handlers

\* conn:echo(...) on any connection the script holds.  A connection outside the
\* heap is ignored.  A handle without an fd makes uv_write return EBADF, and the
\* buffer and the request have no owner left.  uv_write tries to write at once
\* when nothing is queued or failed, otherwise it waits for POLLOUT.
Echo(c) ==
    /\ InLua
    /\ c \in heap
    /\ echoes[c] < MaxEchoes
    /\ echoes' = [echoes EXCEPT ![c] = @ + 1]
    /\ \/ /\ hnd[c] # "open"
          /\ lost' = [lost EXCEPT ![c] = @ + 1]
          /\ UNCHANGED <<wq, split, wdone, werr, pending, pollout, full>>
       \/ /\ hnd[c] = "open"
          /\ wq[c] + werr[c] > 0
          /\ wq' = [wq EXCEPT ![c] = @ + 1]
          /\ pollout' = [pollout EXCEPT ![c] = TRUE]
          /\ UNCHANGED <<lost, split, wdone, werr, pending, full>>
       \/ /\ hnd[c] = "open"
          /\ wq[c] + werr[c] = 0
          /\ \E w \in UvWrite(c, 1) :
                /\ wq' = [wq EXCEPT ![c] = w.left]
                /\ split' = [split EXCEPT ![c] = w.split]
                /\ wdone' = [wdone EXCEPT ![c] = IF w.fed /\ w.ok THEN @ + 1 ELSE @]
                /\ werr' = [werr EXCEPT ![c] = IF w.fed /\ ~w.ok THEN @ + 1 ELSE @]
                /\ pending' = IF w.fed THEN pending \cup {c} ELSE pending
                /\ pollout' = [pollout EXCEPT ![c] = w.armed]
                /\ full' = [full EXCEPT ![c] = w.full]
          /\ UNCHANGED lost
    /\ UNCHANGED <<loopVars, ready, srvReady, closing, serverVars, connVars, ageVars,
                   reading, shutting, peer, avail>>

\* server:set_timeout(t): a positive t (re)starts the timer, any other value
\* stops it and leaves the timeout as it was.
SetTimeout(t) ==
    /\ InLua
    /\ \/ t > 0 /\ idle' = t /\ timer' = "armed"
       \/ t = 0 /\ idle > 0 /\ idle' = idle /\ timer' = "off"
    /\ UNCHANGED <<loopVars, queueVars, handlers, connVars, ageVars, ioVars,
                   writeVars, peerVars>>

-----------------------------------------------------------------------------
(* The rest of the world *)

Connect(c) ==
    /\ hnd[c] = "free" /\ peer[c] = "away"
    /\ peer' = [peer EXCEPT ![c] = "open"]
    /\ UNCHANGED <<loopVars, queueVars, serverVars, connVars, ageVars, ioVars,
                   writeVars, avail, full>>

Send(c) ==
    /\ peer[c] = "open" /\ avail[c] < MaxAvail
    /\ avail' = [avail EXCEPT ![c] = @ + 1]
    /\ UNCHANGED <<loopVars, queueVars, serverVars, connVars, ageVars, ioVars,
                   writeVars, peer, full>>

\* The peer half-closes, or its end is reset.
Leave(c, how) ==
    /\ \/ how = "fin" /\ peer[c] = "open"
       \/ how = "rst" /\ peer[c] \in {"open", "fin"}
    /\ peer' = [peer EXCEPT ![c] = how]
    /\ UNCHANGED <<loopVars, queueVars, serverVars, connVars, ageVars, ioVars,
                   writeVars, avail, full>>

\* The peer takes data, so that the send buffer has room again.
Drain(c) ==
    /\ full[c]
    /\ full' = [full EXCEPT ![c] = FALSE]
    /\ UNCHANGED <<loopVars, queueVars, serverVars, connVars, ageVars, ioVars,
                   writeVars, peer, avail>>

\* time(NULL) advances; ages saturate just above the largest timeout.
Older(n) == IF n <= MaxIdle THEN n + 1 ELSE n
Tick ==
    /\ age' = [c \in Conns |-> IF hnd[c] = "open" THEN Older(age[c]) ELSE age[c]]
    /\ silent' = [c \in Conns |-> IF hnd[c] = "open" THEN Older(silent[c]) ELSE silent[c]]
    /\ <<age', silent'>> # <<age, silent>>
    /\ UNCHANGED <<loopVars, queueVars, serverVars, connVars, heap, ioVars, writeVars, peerVars>>

\* The loop's clock reaches the timer's due time.
TimerDue ==
    /\ timer = "armed"
    /\ timer' = "due"
    /\ UNCHANGED <<loopVars, queueVars, handlers, idle, connVars, ageVars, ioVars,
                   writeVars, peerVars>>

\* Lua collects the userdata of a closed connection once nothing anchors it.
Collect(c) ==
    /\ hnd[c] = "closed" /\ ~ref[c]
    /\ hnd' = [hnd EXCEPT ![c] = "free"]
    /\ age' = [age EXCEPT ![c] = 0]
    /\ silent' = [silent EXCEPT ![c] = 0]
    /\ echoes' = [echoes EXCEPT ![c] = 0]
    /\ lost' = [lost EXCEPT ![c] = 0]
    /\ UNCHANGED <<loopVars, queueVars, serverVars, ref, heap, ioVars, wq, split, wdone, werr, peerVars>>

-----------------------------------------------------------------------------
LoopStep ==
    \/ RunTimers \/ Poll \/ EndEvents \/ DispatchServer \/ EndAccept
    \/ ReadData \/ ReadNothing \/ ReadEnds \/ AfterRead \/ WriteOut
    \/ \E c \in Conns : RunPending(c) \/ Dispatch(c) \/ Accept(c) \/ FinishClose(c)

LuaReturns == OnConnAccepts \/ OnConnRefuses \/ OnDataReturns \/ OnCloseReturns

LuaCalls == (\E c \in Conns : Echo(c)) \/ (\E t \in LuaTimeouts : SetTimeout(t))

Environment ==
    \/ \E c \in Conns : Connect(c) \/ Send(c) \/ Drain(c) \/ Collect(c)
    \/ \E c \in Conns, how \in {"fin", "rst"} : Leave(c, how)
    \/ Tick \/ TimerDue

Next == LoopStep \/ LuaReturns \/ LuaCalls \/ Environment

\* The loop thread keeps running, handlers return, both clocks advance.
Fairness ==
    /\ WF_vars(LoopStep)
    /\ WF_vars(LuaReturns)
    /\ WF_vars(Tick)
    /\ WF_vars(TimerDue)

Spec == Init /\ [][Next]_vars /\ Fairness

\* As Spec, with peers that go on taking what the server sends.
DrainSpec == Spec /\ \A c \in Conns : WF_vars(Drain(c))
-----------------------------------------------------------------------------
(* Properties *)

\* The values every variable keeps to.
TypeOK ==
    /\ pc \in {"pending", "events", "accept", "read", "write", "closing"} \cup Handlers
    /\ cur \in Conns \cup {NoConn}
    /\ pc \in {"read", "write"} \cup Handlers => cur \in Conns
    /\ evs \subseteq Events /\ partial \in BOOLEAN /\ count \in 0..ReadBudget
    /\ ready \in [Conns -> SUBSET Events] /\ srvReady \in BOOLEAN
    /\ pending \subseteq Conns /\ closing \subseteq Conns
    /\ handlers \in [Handlers -> HandlerKinds]
    /\ idle \in 0..MaxIdle /\ timer \in {"off", "armed", "due"}
    /\ heap \subseteq Conns
    /\ hnd \in [Conns -> {"free", "open", "closing", "closed"}]
    /\ ref \in [Conns -> BOOLEAN]
    /\ age \in [Conns -> 0..MaxIdle + 1] /\ silent \in [Conns -> 0..MaxIdle + 1]
    /\ reading \in [Conns -> BOOLEAN] /\ pollout \in [Conns -> BOOLEAN]
    /\ shutting \in [Conns -> BOOLEAN] /\ split \in [Conns -> BOOLEAN]
    /\ wq \in [Conns -> Nat] /\ wdone \in [Conns -> Nat] /\ werr \in [Conns -> Nat]
    /\ echoes \in [Conns -> 0..MaxEchoes] /\ lost \in [Conns -> Nat]
    /\ peer \in [Conns -> {"away", "open", "fin", "rst"}]
    /\ avail \in [Conns -> 0..MaxAvail] /\ full \in [Conns -> BOOLEAN]

\* c is open and onconn has let it in.
Served(c) == hnd[c] = "open" /\ ~(pc = "onconn" /\ cur = c)

\* No dangling pointer: what the heap, the loop's queues and libuv's open or
\* closing handles point at is userdata the registry still anchors.
PointersAreAnchored ==
    \A c \in Conns :
        (c \in heap \cup pending \cup closing \/ ready[c] # {} \/ hnd[c] \in {"open", "closing"})
            => ref[c]

\* What libuv asserts of a stream: only open handles have events or are fed; a
\* handle awaiting its close callback is idle and has no shutdown request, so
\* that its callback cannot close it twice.
StreamAssertions ==
    /\ \A c \in Conns : (c \in pending \/ ready[c] # {}) => hnd[c] = "open"
    /\ closing = {c \in Conns : hnd[c] = "closing"}
    /\ \A c \in Conns : hnd[c] # "open" => ~reading[c] /\ ~pollout[c] /\ ~shutting[c]
    /\ pc \in {"read", "write", "onconn", "ondata"} => hnd[cur] = "open"

\* No lost wakeup: while a connection owes a write, a write callback or the end
\* of a shutdown, its watcher waits for POLLOUT or is fed.
OwedWorkIsWatched ==
    \A c \in Conns :
        hnd[c] = "open" /\ (shutting[c] \/ wq[c] + wdone[c] + werr[c] > 0)
            => pollout[c] \/ c \in pending

\* No zombie: a connection that is served and not on its way out is read from
\* and in the idle heap, so that data, EOF and the idle timer all reach it.
ServedIsWatched ==
    \A c \in Conns : Served(c) /\ ~shutting[c] => reading[c] /\ c \in heap

\* A close is graceful: it happens only after every echoed message was written
\* (or failed), so that the closing phase cancels none.
NothingUnsentIsClosed ==
    \A c \in Conns : hnd[c] = "closing" => wq[c] = 0 /\ wdone[c] = 0 /\ werr[c] = 0

\* The inductive invariant behind the safety properties: what holds of each
\* connection, and of the connection whose callback is running.
ConnInv(c) ==
    /\ (c \in heap \cup pending \cup closing \/ ready[c] # {} \/ hnd[c] \in {"open", "closing"})
            => ref[c]
    /\ hnd[c] = "free" => ~ref[c]
    /\ c \in pending \/ ready[c] # {} => hnd[c] = "open"
    /\ c \in closing <=> hnd[c] = "closing"
    /\ hnd[c] # "open" => /\ ~reading[c] /\ ~pollout[c] /\ ~shutting[c]
                          /\ wq[c] = 0 /\ wdone[c] = 0 /\ werr[c] = 0
    /\ hnd[c] = "open" /\ (shutting[c] \/ wq[c] # 0 \/ wdone[c] # 0 \/ werr[c] # 0)
            => pollout[c] \/ c \in pending
    /\ Served(c) /\ ~shutting[c] => reading[c] /\ c \in heap
CurInv ==
    /\ pc \in {"read", "write", "onconn", "ondata"} => hnd[cur] = "open"
    /\ pc = "onconn" => /\ cur \notin heap /\ ~shutting[cur]
                        /\ wq[cur] = 0 /\ wdone[cur] = 0 /\ werr[cur] = 0
    /\ pc = "onclose" => hnd[cur] = "closed" /\ ref[cur]
IInv == TypeOK /\ (\A c \in Conns : ConnInv(c)) /\ CurInv

\* Every echoed buffer that was not freed is in a queue of the stream.
EveryBufferHasAnOwner == \A c \in Conns : lost[c] = 0

\* The idle timer shuts down only connections the script has not heard of for
\* longer than the timeout.
TimerKicksOnlySilent ==
    [][\A c \in Conns : pc = "closing" /\ ~shutting[c] /\ shutting'[c] => silent[c] > idle]_vars

\* Outside the timer, the server starts a shutdown only when the peer is gone.
OnlyGonePeersAreShutDown ==
    [][\A c \in Conns : pc # "closing" /\ ~shutting[c] /\ shutting'[c]
            => peer[c] \in {"fin", "rst"}]_vars

\* Once the peer has closed its end the connection is closed and forgotten.
GonePeersAreForgotten ==
    \A c \in Conns : (Served(c) /\ peer[c] \in {"fin", "rst"}) ~> ~ref[c]

\* A connection that stays idle past the timeout is closed.
IdleConnsAreClosed ==
    \A c \in Conns : (Served(c) /\ idle > 0 /\ silent[c] > idle)
                        ~> (hnd[c] # "open" \/ silent[c] = 0)

\* Every buffer handed to uv_write is freed in the end.
BuffersAreFreed ==
    \A c \in Conns : (wq[c] + wdone[c] + werr[c] > 0) ~> (wq[c] + wdone[c] + werr[c] = 0)
=============================================================================
