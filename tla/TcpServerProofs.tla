--------------------------- MODULE TcpServerProofs ---------------------------
(***************************************************************************)
(* Proofs about TcpServer for every number of connections, buffer size,    *)
(* timeout and bound: its safety invariants, that it implements the order  *)
(* of ConnLifecycle, and that the idle timer spares those who speak.       *)
(***************************************************************************)
EXTENDS ServerLifecycle, TLAPS

\* What a uv__write of n queued requests can do: it never leaves requests that
\* nothing will come back to.
LEMMA UvWriteResult ==
    ASSUME TypeOK, NEW c \in Conns, NEW n \in Nat, NEW w \in UvWrite(c, n)
    PROVE  /\ w.left \in Nat /\ w.split \in BOOLEAN /\ w.fed \in BOOLEAN /\ w.ok \in BOOLEAN
           /\ w.full \in BOOLEAN /\ w.armed \in BOOLEAN
           /\ n # 0 => w.armed \/ w.fed
           /\ n = 0 => w.left = 0
<1>1. full[c] \in BOOLEAN /\ pollout[c] \in BOOLEAN /\ split[c] \in BOOLEAN
  BY DEF TypeOK
<1>2. CASE n = 0
  <2>1. w = Result(0, FALSE, FALSE, TRUE, full[c], pollout[c])
    BY <1>2 DEF UvWrite
  <2> QED
    BY <2>1, <1>1, <1>2 DEF Result
<1>3. CASE n # 0 /\ peer[c] = "rst"
  <2>1. w = Result(n - 1, FALSE, TRUE, FALSE, full[c], FALSE)
    BY <1>3 DEF UvWrite
  <2> QED
    BY <2>1, <1>1, <1>3 DEF Result
<1>4. CASE n # 0 /\ peer[c] # "rst" /\ full[c]
  <2>1. w = Result(n, split[c], FALSE, TRUE, TRUE, TRUE)
    BY <1>4 DEF UvWrite
  <2> QED
    BY <2>1, <1>1, <1>4 DEF Result
<1>5. CASE n # 0 /\ peer[c] # "rst" /\ ~full[c]
  <2>1. \/ w = Result(n - 1, FALSE, TRUE, TRUE, FALSE, pollout[c])
        \/ w = Result(n - 1, FALSE, TRUE, TRUE, TRUE, pollout[c])
        \/ w = Result(n, TRUE, FALSE, TRUE, TRUE, TRUE)
    BY <1>5 DEF UvWrite
  <2>2. CASE w = Result(n - 1, FALSE, TRUE, TRUE, FALSE, pollout[c])
    BY <2>2, <1>1, <1>5 DEF Result
  <2>3. CASE w = Result(n - 1, FALSE, TRUE, TRUE, TRUE, pollout[c])
    BY <2>3, <1>1, <1>5 DEF Result
  <2>4. CASE w = Result(n, TRUE, FALSE, TRUE, TRUE, TRUE)
    BY <2>4, <1>1, <1>5 DEF Result
  <2> QED
    BY <2>1, <2>2, <2>3, <2>4
<1> QED
  BY <1>1, <1>2, <1>3, <1>4, <1>5

\* The variables keep their types through uv_close.
LEMMA UvCloseType ==
    ASSUME TypeOK, NEW c \in Conns, NEW q \in SUBSET Conns, UvClose(c, q)
    PROVE  /\ hnd' \in [Conns -> {"free", "open", "closing", "closed"}]
           /\ pending' \subseteq Conns /\ closing' \subseteq Conns
           /\ ready' \in [Conns -> SUBSET Events]
           /\ reading' \in [Conns -> BOOLEAN] /\ pollout' \in [Conns -> BOOLEAN]
           /\ peer' \in [Conns -> {"away", "open", "fin", "rst"}]
           /\ avail' \in [Conns -> 0..MaxAvail] /\ full' \in [Conns -> BOOLEAN]
<1>1. hnd' \in [Conns -> {"free", "open", "closing", "closed"}]
  BY DEF UvClose, TypeOK
<1>2. pending' \subseteq Conns /\ closing' \subseteq Conns
  BY DEF UvClose, PendingWithout, TypeOK
<1>3. ready' \in [Conns -> SUBSET Events]
  BY DEF UvClose, TypeOK
<1>4. reading' \in [Conns -> BOOLEAN] /\ pollout' \in [Conns -> BOOLEAN]
  BY DEF UvClose, TypeOK
<1>5. peer' \in [Conns -> {"away", "open", "fin", "rst"}]
  BY DEF UvClose, TypeOK
<1>6. avail' \in [Conns -> 0..MaxAvail]
  BY ConfigAssumption DEF UvClose, TypeOK
<1>7. full' \in [Conns -> BOOLEAN]
  BY DEF UvClose, TypeOK
<1> QED
  BY <1>1, <1>2, <1>3, <1>4, <1>5, <1>6, <1>7

\* The variables keep their types through the effect StreamOut has.
LEMMA StreamOutType ==
    ASSUME TypeOK, NEW c \in Conns, NEW q \in SUBSET Conns, StreamOut(c, q)
    PROVE  /\ hnd' \in [Conns -> {"free", "open", "closing", "closed"}]
           /\ pending' \subseteq Conns /\ closing' \subseteq Conns
           /\ ready' \in [Conns -> SUBSET Events] /\ srvReady' \in BOOLEAN
           /\ ref' \in [Conns -> BOOLEAN]
           /\ reading' \in [Conns -> BOOLEAN] /\ pollout' \in [Conns -> BOOLEAN]
           /\ shutting' \in [Conns -> BOOLEAN] /\ split' \in [Conns -> BOOLEAN]
           /\ wq' \in [Conns -> Nat] /\ wdone' \in [Conns -> Nat] /\ werr' \in [Conns -> Nat]
           /\ echoes' \in [Conns -> 0..MaxEchoes] /\ lost' \in [Conns -> Nat]
           /\ peer' \in [Conns -> {"away", "open", "fin", "rst"}]
           /\ avail' \in [Conns -> 0..MaxAvail] /\ full' \in [Conns -> BOOLEAN]
<1>1. wq[c] \in Nat
  BY DEF TypeOK
<1>2. PICK w \in UvWrite(c, wq[c]) :
        /\ wq' = [wq EXCEPT ![c] = w.left]
        /\ split' = [split EXCEPT ![c] = w.split]
        /\ wdone' = [wdone EXCEPT ![c] = 0]
        /\ werr' = [werr EXCEPT ![c] = 0]
        /\ \/ /\ CompletesShutdown(c, w.left)
              /\ shutting' = [shutting EXCEPT ![c] = FALSE]
              /\ UvClose(c, q)
           \/ /\ ~CompletesShutdown(c, w.left)
              /\ pollout' = [pollout EXCEPT ![c] = StaysArmed(w)]
              /\ pending' = IF w.fed THEN q \cup {c} ELSE q
              /\ full' = [full EXCEPT ![c] = w.full]
              /\ UNCHANGED <<hnd, closing, ready, reading, shutting, peer, avail>>
        /\ UNCHANGED <<echoes, lost, srvReady, ref>>
  BY DEF StreamOut
<1>3. /\ w.left \in Nat /\ w.split \in BOOLEAN /\ w.fed \in BOOLEAN
      /\ w.full \in BOOLEAN /\ w.armed \in BOOLEAN
  BY <1>1, UvWriteResult
<1>4. CASE CompletesShutdown(c, w.left)
  <2>1. UvClose(c, q)
    BY <1>2, <1>4
  <2>2. /\ shutting' = [shutting EXCEPT ![c] = FALSE]
        /\ UNCHANGED <<echoes, lost, srvReady, ref>>
    BY <1>2, <1>4
  <2> QED
    BY <1>2, <1>3, <2>1, <2>2, UvCloseType DEF TypeOK
<1>5. CASE ~CompletesShutdown(c, w.left)
  BY <1>2, <1>3, <1>5 DEF StaysArmed, TypeOK
<1> QED
  BY <1>4, <1>5
\* The variables keep their types through uv_shutdown.
LEMMA UvShutdownType ==
    ASSUME TypeOK, NEW S \in SUBSET Conns, UvShutdown(S)
    PROVE  shutting' \in [Conns -> BOOLEAN] /\ pollout' \in [Conns -> BOOLEAN]
  BY DEF UvShutdown, TypeOK

\* Every step keeps the types.
LEMMA TypeStep == ASSUME TypeOK, [Next]_vars PROVE TypeOK'
<1> USE ConfigAssumption
<1>RunTimers. ASSUME RunTimers PROVE TypeOK'
  <2>1. CASE timer = "due"
    <3>1. UvShutdown(Expired) /\ Expired \in SUBSET Conns
      BY <1>RunTimers, <2>1 DEF RunTimers, Expired, TypeOK
    <3> QED
      BY <1>RunTimers, <2>1, <3>1, UvShutdownType DEF RunTimers, TimerAgain, TypeOK, Handlers, loopVars, queueVars, serverVars, connVars, ageVars, ioVars, writeVars, peerVars
  <2>2. CASE timer # "due"
    BY <1>RunTimers, <2>2 DEF RunTimers, TypeOK, Handlers, loopVars, queueVars, serverVars, connVars, ageVars, ioVars, writeVars, peerVars
  <2> QED
    BY <2>1, <2>2
<1>Poll. ASSUME Poll PROVE TypeOK'
  BY <1>Poll DEF Poll, Polled, TypeOK, Handlers, loopVars, queueVars, serverVars, connVars, ageVars, ioVars, writeVars, peerVars
<1>EndEvents. ASSUME EndEvents PROVE TypeOK'
  BY <1>EndEvents DEF EndEvents, TypeOK, Handlers, loopVars, queueVars, serverVars, connVars, ageVars, ioVars, writeVars, peerVars
<1>DispatchServer. ASSUME DispatchServer PROVE TypeOK'
  BY <1>DispatchServer DEF DispatchServer, TypeOK, Handlers, loopVars, queueVars, serverVars, connVars, ageVars, ioVars, writeVars, peerVars
<1>EndAccept. ASSUME EndAccept PROVE TypeOK'
  BY <1>EndAccept DEF EndAccept, TypeOK, Handlers, loopVars, queueVars, serverVars, connVars, ageVars, ioVars, writeVars, peerVars
<1>ReadData. ASSUME ReadData PROVE TypeOK'
  BY <1>ReadData DEF ReadData, HeardFrom, ReadSize, TypeOK, Handlers, loopVars, queueVars, serverVars, connVars, ageVars, ioVars, writeVars, peerVars
<1>ReadNothing. ASSUME ReadNothing PROVE TypeOK'
  BY <1>ReadNothing DEF ReadNothing, UvShutdown, TypeOK, Handlers, loopVars, queueVars, serverVars, connVars, ageVars, ioVars, writeVars, peerVars
<1>ReadEnds. ASSUME ReadEnds PROVE TypeOK'
  BY <1>ReadEnds DEF ReadEnds, UvShutdown, TypeOK, Handlers, loopVars, queueVars, serverVars, connVars, ageVars, ioVars, writeVars, peerVars
<1>AfterRead. ASSUME AfterRead PROVE TypeOK'
  <2>0. cur \in Conns
    BY <1>AfterRead DEF AfterRead, TypeOK
  <2>1. CASE "hup" \in evs /\ reading[cur] /\ partial
    <3>1. UvShutdown({cur}) /\ reading' = [reading EXCEPT ![cur] = FALSE]
      BY <1>AfterRead, <2>1 DEF AfterRead
    <3> QED
      BY <1>AfterRead, <2>0, <3>1, UvShutdownType DEF AfterRead, TypeOK, Handlers, loopVars, queueVars, serverVars, connVars, ageVars, ioVars, writeVars, peerVars
  <2>2. CASE ~("hup" \in evs /\ reading[cur] /\ partial)
    BY <1>AfterRead, <2>2 DEF AfterRead, TypeOK, Handlers, loopVars, queueVars, serverVars, connVars, ageVars, ioVars, writeVars, peerVars
  <2> QED
    BY <2>1, <2>2
<1>WriteOut. ASSUME WriteOut PROVE TypeOK'
  <2>0. cur \in Conns
    BY <1>WriteOut DEF WriteOut, TypeOK
  <2>a. /\ pc' = "events" /\ cur' = NoConn /\ evs' = {} /\ partial' = FALSE /\ count' = 0
        /\ UNCHANGED <<handlers, idle, timer, heap, age, silent>>
    BY <1>WriteOut DEF WriteOut, serverVars, ageVars
  <2>b. 0 \in 0..ReadBudget
    OBVIOUS
  <2>1. CASE StreamOut(cur, pending)
    <3>1. pending \in SUBSET Conns
      BY DEF TypeOK
    <3> QED
      BY <2>a, <2>b, <2>0, <2>1, <3>1, StreamOutType DEF TypeOK, Handlers
  <2>2. CASE UNCHANGED <<queueVars, connVars, ioVars, writeVars, peerVars>>
    BY <2>a, <2>b, <2>2 DEF TypeOK, Handlers, queueVars, connVars, ioVars, writeVars, peerVars
  <2> QED
    BY <1>WriteOut, <2>1, <2>2 DEF WriteOut
<1>OnConnAccepts. ASSUME OnConnAccepts PROVE TypeOK'
  BY <1>OnConnAccepts DEF OnConnAccepts, StartServing, TypeOK, Handlers, loopVars, queueVars, serverVars, connVars, ageVars, ioVars, writeVars, peerVars
<1>OnConnRefuses. ASSUME OnConnRefuses PROVE TypeOK'
  <2>1. cur \in Conns /\ pending \in SUBSET Conns /\ UvClose(cur, pending)
    BY <1>OnConnRefuses DEF OnConnRefuses, TypeOK, Handlers
  <2> QED
    BY <1>OnConnRefuses, <2>1, UvCloseType DEF OnConnRefuses, TypeOK, Handlers, loopVars, queueVars, serverVars, connVars, ageVars, ioVars, writeVars, peerVars
<1>OnDataReturns. ASSUME OnDataReturns PROVE TypeOK'
  BY <1>OnDataReturns DEF OnDataReturns, TypeOK, Handlers, loopVars, queueVars, serverVars, connVars, ageVars, ioVars, writeVars, peerVars
<1>OnCloseReturns. ASSUME OnCloseReturns PROVE TypeOK'
  BY <1>OnCloseReturns DEF OnCloseReturns, Forget, TypeOK, Handlers, loopVars, queueVars, serverVars, connVars, ageVars, ioVars, writeVars, peerVars
<1>RunPending. ASSUME NEW c \in Conns, RunPending(c) PROVE TypeOK'
  <2>1. pending \ {c} \in SUBSET Conns /\ StreamOut(c, pending \ {c})
    BY <1>RunPending DEF RunPending, TypeOK
  <2> QED
    BY <1>RunPending, <2>1, StreamOutType DEF RunPending, TypeOK, Handlers, loopVars, serverVars, ageVars
<1>Dispatch. ASSUME NEW c \in Conns, Dispatch(c) PROVE TypeOK'
  BY <1>Dispatch DEF Dispatch, TypeOK, Handlers, loopVars, queueVars, serverVars, connVars, ageVars, ioVars, writeVars, peerVars
<1>Accept. ASSUME NEW c \in Conns, Accept(c) PROVE TypeOK'
  <2>1. CASE handlers["onconn"] = "function"
    BY <1>Accept, <2>1 DEF Accept, TypeOK, Handlers, loopVars, queueVars, serverVars, connVars, ageVars, ioVars, writeVars, peerVars
  <2>2. CASE handlers["onconn"] = "none"
    <3>1. /\ StartServing(c)
          /\ hnd' = [hnd EXCEPT ![c] = "open"] /\ ref' = [ref EXCEPT ![c] = TRUE]
          /\ UNCHANGED <<pc, cur, evs, partial, count, ready, pending, closing, srvReady, pollout,
                         shutting, peerVars, serverVars, writeVars>>
      BY <1>Accept, <2>2 DEF Accept
    <3> QED
      BY <3>1 DEF StartServing, TypeOK, Handlers, peerVars, serverVars, writeVars
  <2>3. CASE handlers["onconn"] = "other"
    <3>1. pending \in SUBSET Conns /\ UvClose(c, pending)
      BY <1>Accept, <2>3 DEF Accept, TypeOK
    <3> QED
      BY <1>Accept, <2>3, <3>1, UvCloseType DEF Accept, TypeOK, Handlers, loopVars, queueVars, serverVars, connVars, ageVars, ioVars, writeVars, peerVars
  <2> QED
    BY <1>Accept, <2>1, <2>2, <2>3 DEF Accept
<1>FinishClose. ASSUME NEW c \in Conns, FinishClose(c) PROVE TypeOK'
  <2>1. CASE handlers["onclose"] = "function"
    BY <1>FinishClose, <2>1 DEF FinishClose, TypeOK, Handlers, loopVars, queueVars, serverVars, connVars, ageVars, ioVars, writeVars, peerVars
  <2>2. CASE handlers["onclose"] # "function"
    BY <1>FinishClose, <2>2 DEF FinishClose, Forget, TypeOK, Handlers, loopVars, queueVars, serverVars, connVars, ageVars, ioVars, writeVars, peerVars
  <2> QED
    BY <2>1, <2>2
<1>Connect. ASSUME NEW c \in Conns, Connect(c) PROVE TypeOK'
  BY <1>Connect DEF Connect, TypeOK, Handlers, loopVars, queueVars, serverVars, connVars, ageVars, ioVars, writeVars, peerVars
<1>Send. ASSUME NEW c \in Conns, Send(c) PROVE TypeOK'
  BY <1>Send DEF Send, TypeOK, Handlers, loopVars, queueVars, serverVars, connVars, ageVars, ioVars, writeVars, peerVars
<1>Drain. ASSUME NEW c \in Conns, Drain(c) PROVE TypeOK'
  BY <1>Drain DEF Drain, TypeOK, Handlers, loopVars, queueVars, serverVars, connVars, ageVars, ioVars, writeVars, peerVars
<1>Collect. ASSUME NEW c \in Conns, Collect(c) PROVE TypeOK'
  BY <1>Collect DEF Collect, TypeOK, Handlers, loopVars, queueVars, serverVars, connVars, ageVars, ioVars, writeVars, peerVars
<1>Echo. ASSUME NEW c \in Conns, Echo(c) PROVE TypeOK'
  <2>0. /\ echoes' \in [Conns -> 0..MaxEchoes]
        /\ UNCHANGED <<loopVars, ready, srvReady, closing, serverVars, connVars, ageVars,
                       reading, shutting, peer, avail>>
    BY <1>Echo DEF Echo, TypeOK
  <2>1. CASE hnd[c] # "open"
    <3>1. /\ lost' = [lost EXCEPT ![c] = @ + 1]
          /\ UNCHANGED <<wq, split, wdone, werr, pending, pollout, full>>
      BY <1>Echo, <2>1 DEF Echo
    <3> QED
      BY <2>0, <3>1 DEF TypeOK, Handlers, loopVars, serverVars, connVars, ageVars
  <2>2. CASE hnd[c] = "open" /\ wq[c] + werr[c] > 0
    <3>1. /\ wq' = [wq EXCEPT ![c] = @ + 1]
          /\ pollout' = [pollout EXCEPT ![c] = TRUE]
          /\ UNCHANGED <<lost, split, wdone, werr, pending, full>>
      BY <1>Echo, <2>2 DEF Echo
    <3> QED
      BY <2>0, <3>1 DEF TypeOK, Handlers, loopVars, serverVars, connVars, ageVars
  <2>3. CASE hnd[c] = "open" /\ wq[c] + werr[c] = 0
    <3>1. PICK w \in UvWrite(c, 1) :
            /\ wq' = [wq EXCEPT ![c] = w.left]
            /\ split' = [split EXCEPT ![c] = w.split]
            /\ wdone' = [wdone EXCEPT ![c] = IF w.fed /\ w.ok THEN @ + 1 ELSE @]
            /\ werr' = [werr EXCEPT ![c] = IF w.fed /\ ~w.ok THEN @ + 1 ELSE @]
            /\ pending' = IF w.fed THEN pending \cup {c} ELSE pending
            /\ pollout' = [pollout EXCEPT ![c] = w.armed]
            /\ full' = [full EXCEPT ![c] = w.full]
      BY <1>Echo, <2>3 DEF Echo
    <3>2. lost' = lost
      BY <1>Echo, <2>3 DEF Echo
    <3>3. /\ w.left \in Nat /\ w.split \in BOOLEAN /\ w.fed \in BOOLEAN /\ w.ok \in BOOLEAN
          /\ w.full \in BOOLEAN /\ w.armed \in BOOLEAN
      BY UvWriteResult
    <3>4. /\ wq' \in [Conns -> Nat] /\ wdone' \in [Conns -> Nat] /\ werr' \in [Conns -> Nat]
          /\ pending' \subseteq Conns
      BY <3>1, <3>3 DEF TypeOK
    <3>5. /\ split' \in [Conns -> BOOLEAN] /\ pollout' \in [Conns -> BOOLEAN]
          /\ full' \in [Conns -> BOOLEAN]
      BY <3>1, <3>3 DEF TypeOK
    <3> QED
      BY <2>0, <3>2, <3>4, <3>5 DEF TypeOK, Handlers, loopVars, serverVars, connVars, ageVars
  <2>4. wq[c] \in Nat /\ werr[c] \in Nat
    BY DEF TypeOK
  <2> QED
    BY <2>1, <2>2, <2>3, <2>4
<1>SetTimeout. ASSUME NEW t \in LuaTimeouts, SetTimeout(t) PROVE TypeOK'
  BY <1>SetTimeout DEF SetTimeout, TypeOK, Handlers, loopVars, queueVars, serverVars, connVars, ageVars, ioVars, writeVars, peerVars
<1>Leave. ASSUME NEW c \in Conns, NEW how \in {"fin", "rst"}, Leave(c, how) PROVE TypeOK'
  BY <1>Leave DEF Leave, TypeOK, Handlers, loopVars, queueVars, serverVars, connVars, ageVars, ioVars, writeVars, peerVars
<1>Tick. ASSUME Tick PROVE TypeOK'
  BY <1>Tick DEF Tick, Older, TypeOK, Handlers, loopVars, queueVars, serverVars, connVars, ageVars, ioVars, writeVars, peerVars
<1>TimerDue. ASSUME TimerDue PROVE TypeOK'
  BY <1>TimerDue DEF TimerDue, TypeOK, Handlers, loopVars, queueVars, serverVars, connVars, ageVars, ioVars, writeVars, peerVars
<1>Stutter. ASSUME UNCHANGED vars PROVE TypeOK'
  BY <1>Stutter DEF vars, TypeOK, loopVars, queueVars, serverVars, connVars, ageVars, ioVars, writeVars, peerVars
<1> QED
  BY <1>RunTimers, <1>Poll, <1>EndEvents, <1>DispatchServer, <1>EndAccept, <1>ReadData, <1>ReadNothing, <1>ReadEnds, <1>AfterRead, <1>WriteOut, <1>OnConnAccepts, <1>OnConnRefuses, <1>OnDataReturns, <1>OnCloseReturns, <1>RunPending, <1>Dispatch, <1>Accept, <1>FinishClose, <1>Connect, <1>Send, <1>Drain, <1>Collect, <1>Echo, <1>SetTimeout, <1>Leave, <1>Tick, <1>TimerDue, <1>Stutter DEF Next, LoopStep, LuaReturns, LuaCalls, Environment
\* StreamOut keeps ConnInv: it leaves no work without a wakeup, and closes only
\* a connection that owes none.
LEMMA StreamOutInv ==
    ASSUME IInv, NEW c \in Conns, hnd[c] = "open", NEW q \in SUBSET pending,
           pending \ {c} \subseteq q, StreamOut(c, q), pc # "onconn", pc' # "onconn", heap' = heap,
           NEW d \in Conns
    PROVE  ConnInv(d)'
<1>1. wq[c] \in Nat /\ ConnInv(c) /\ ConnInv(d) /\ TypeOK
  BY DEF TypeOK, IInv
<1>2. PICK w \in UvWrite(c, wq[c]) :
        /\ wq' = [wq EXCEPT ![c] = w.left]
        /\ wdone' = [wdone EXCEPT ![c] = 0]
        /\ werr' = [werr EXCEPT ![c] = 0]
        /\ \/ /\ CompletesShutdown(c, w.left)
              /\ shutting' = [shutting EXCEPT ![c] = FALSE]
              /\ UvClose(c, q)
           \/ /\ ~CompletesShutdown(c, w.left)
              /\ pollout' = [pollout EXCEPT ![c] = StaysArmed(w)]
              /\ pending' = IF w.fed THEN q \cup {c} ELSE q
              /\ UNCHANGED <<hnd, closing, ready, reading, shutting>>
        /\ UNCHANGED ref
  BY DEF StreamOut
<1>3. /\ w.left \in Nat /\ w.fed \in BOOLEAN /\ w.armed \in BOOLEAN
      /\ w.left # 0 => w.armed \/ w.fed
  BY <1>1, UvWriteResult
<1>4. CASE d # c
  <2>1. /\ wq'[d] = wq[d] /\ wdone'[d] = wdone[d] /\ werr'[d] = werr[d]
        /\ shutting'[d] = shutting[d] /\ hnd'[d] = hnd[d] /\ ref'[d] = ref[d]
        /\ ready'[d] = ready[d] /\ reading'[d] = reading[d] /\ pollout'[d] = pollout[d]
        /\ d \in pending' <=> d \in pending
        /\ d \in closing' <=> d \in closing
    BY <1>1, <1>2, <1>4 DEF UvClose, PendingWithout, TypeOK
  <2> QED
    BY <1>1, <2>1 DEF ConnInv, Served
<1>5. CASE d = c /\ CompletesShutdown(c, w.left)
  <2>1. /\ wq'[c] = 0 /\ wdone'[c] = 0 /\ werr'[c] = 0
        /\ ~shutting'[c] /\ hnd'[c] = "closing" /\ ref'[c] = ref[c]
        /\ ready'[c] = {} /\ ~reading'[c] /\ ~pollout'[c]
        /\ c \notin pending' /\ c \in closing'
    BY <1>1, <1>2, <1>5 DEF UvClose, PendingWithout, CompletesShutdown, TypeOK
  <2> QED
    BY <1>1, <1>5, <2>1 DEF ConnInv, Served
<1>6. CASE d = c /\ ~CompletesShutdown(c, w.left)
  <2>1. /\ wq'[c] = w.left /\ wdone'[c] = 0 /\ werr'[c] = 0
        /\ hnd'[c] = "open" /\ ref'[c] = ref[c] /\ ready'[c] = ready[c]
        /\ reading'[c] = reading[c] /\ shutting'[c] = shutting[c]
        /\ pollout'[c] = StaysArmed(w)
        /\ c \in closing' <=> c \in closing
        /\ w.fed => c \in pending'
    BY <1>1, <1>2, <1>6 DEF TypeOK
  <2>2. w.left = 0 => ~shutting[c]
    BY <1>6 DEF CompletesShutdown
  <2> QED
    BY <1>1, <1>3, <1>6, <2>1, <2>2 DEF ConnInv, Served, StaysArmed
<1> QED
  BY <1>4, <1>5, <1>6

\* Every step keeps ConnInv of every connection.
LEMMA ConnStep ==
    ASSUME IInv, [Next]_vars, NEW d \in Conns
    PROVE  ConnInv(d)'
<1>0. TypeOK /\ CurInv /\ TypeOK' /\ ConnInv(d)
  BY TypeStep DEF IInv
<1>RunTimers. ASSUME RunTimers PROVE ConnInv(d)'
  BY <1>RunTimers, <1>0 DEF RunTimers, UvShutdown, TimerAgain, Expired, ConnInv, Served, CurInv, TypeOK, Handlers, loopVars, queueVars, serverVars, connVars, ageVars, ioVars, writeVars, peerVars
<1>Poll. ASSUME Poll PROVE ConnInv(d)'
  BY <1>Poll, <1>0 DEF Poll, Polled, ConnInv, Served, CurInv, TypeOK, Handlers, loopVars, queueVars, serverVars, connVars, ageVars, ioVars, writeVars, peerVars
<1>EndEvents. ASSUME EndEvents PROVE ConnInv(d)'
  BY <1>EndEvents, <1>0 DEF EndEvents, ConnInv, Served, CurInv, TypeOK, Handlers, loopVars, queueVars, serverVars, connVars, ageVars, ioVars, writeVars, peerVars
<1>DispatchServer. ASSUME DispatchServer PROVE ConnInv(d)'
  BY <1>DispatchServer, <1>0 DEF DispatchServer, ConnInv, Served, CurInv, TypeOK, Handlers, loopVars, queueVars, serverVars, connVars, ageVars, ioVars, writeVars, peerVars
<1>EndAccept. ASSUME EndAccept PROVE ConnInv(d)'
  BY <1>EndAccept, <1>0 DEF EndAccept, ConnInv, Served, CurInv, TypeOK, Handlers, loopVars, queueVars, serverVars, connVars, ageVars, ioVars, writeVars, peerVars
<1>ReadData. ASSUME ReadData PROVE ConnInv(d)'
  BY <1>ReadData, <1>0 DEF ReadData, HeardFrom, ReadSize, ConnInv, Served, CurInv, TypeOK, Handlers, loopVars, queueVars, serverVars, connVars, ageVars, ioVars, writeVars, peerVars
<1>ReadNothing. ASSUME ReadNothing PROVE ConnInv(d)'
  BY <1>ReadNothing, <1>0 DEF ReadNothing, UvShutdown, ConnInv, Served, CurInv, TypeOK, Handlers, loopVars, queueVars, serverVars, connVars, ageVars, ioVars, writeVars, peerVars
<1>ReadEnds. ASSUME ReadEnds PROVE ConnInv(d)'
  BY <1>ReadEnds, <1>0 DEF ReadEnds, UvShutdown, ConnInv, Served, CurInv, TypeOK, Handlers, loopVars, queueVars, serverVars, connVars, ageVars, ioVars, writeVars, peerVars
<1>AfterRead. ASSUME AfterRead PROVE ConnInv(d)'
  BY <1>AfterRead, <1>0 DEF AfterRead, UvShutdown, ConnInv, Served, CurInv, TypeOK, Handlers, loopVars, queueVars, serverVars, connVars, ageVars, ioVars, writeVars, peerVars
<1>WriteOut. ASSUME WriteOut PROVE ConnInv(d)'
  <2>1. cur \in Conns /\ hnd[cur] = "open" /\ pc = "write" /\ pc' = "events" /\ heap' = heap
    BY <1>WriteOut, <1>0 DEF WriteOut, CurInv, TypeOK, ageVars
  <2>2. CASE StreamOut(cur, pending)
    BY <2>1, <2>2, StreamOutInv
  <2>3. CASE UNCHANGED <<queueVars, connVars, ioVars, writeVars, peerVars>>
    BY <2>1, <2>3, <1>0 DEF ConnInv, Served, queueVars, connVars, ioVars, writeVars
  <2> QED
    BY <1>WriteOut, <2>2, <2>3 DEF WriteOut
<1>OnConnAccepts. ASSUME OnConnAccepts PROVE ConnInv(d)'
  BY <1>OnConnAccepts, <1>0 DEF OnConnAccepts, StartServing, ConnInv, Served, CurInv, TypeOK, Handlers, loopVars, queueVars, serverVars, connVars, ageVars, ioVars, writeVars, peerVars
<1>OnConnRefuses. ASSUME OnConnRefuses PROVE ConnInv(d)'
  BY <1>OnConnRefuses, <1>0 DEF OnConnRefuses, UvClose, PendingWithout, ConnInv, Served, CurInv, TypeOK, Handlers, loopVars, queueVars, serverVars, connVars, ageVars, ioVars, writeVars, peerVars
<1>OnDataReturns. ASSUME OnDataReturns PROVE ConnInv(d)'
  BY <1>OnDataReturns, <1>0 DEF OnDataReturns, ConnInv, Served, CurInv, TypeOK, Handlers, loopVars, queueVars, serverVars, connVars, ageVars, ioVars, writeVars, peerVars
<1>OnCloseReturns. ASSUME OnCloseReturns PROVE ConnInv(d)'
  BY <1>OnCloseReturns, <1>0 DEF OnCloseReturns, Forget, ConnInv, Served, CurInv, TypeOK, Handlers, loopVars, queueVars, serverVars, connVars, ageVars, ioVars, writeVars, peerVars
<1>RunPending. ASSUME NEW c \in Conns, RunPending(c) PROVE ConnInv(d)'
  <2>1. /\ pc = "pending" /\ pc' = "pending" /\ heap' = heap /\ c \in pending
        /\ StreamOut(c, pending \ {c})
    BY <1>RunPending DEF RunPending, loopVars, ageVars
  <2>2. hnd[c] = "open"
    BY <2>1 DEF IInv, ConnInv
  <2> QED
    BY <2>1, <2>2, StreamOutInv
<1>Dispatch. ASSUME NEW c \in Conns, Dispatch(c) PROVE ConnInv(d)'
  BY <1>Dispatch, <1>0 DEF Dispatch, ConnInv, Served, CurInv, TypeOK, Handlers, loopVars, queueVars, serverVars, connVars, ageVars, ioVars, writeVars, peerVars
<1>Accept. ASSUME NEW c \in Conns, Accept(c) PROVE ConnInv(d)'
  BY <1>Accept, <1>0 DEF Accept, StartServing, Backlog, UvClose, PendingWithout, ConnInv, Served, CurInv, TypeOK, Handlers, loopVars, queueVars, serverVars, connVars, ageVars, ioVars, writeVars, peerVars
<1>FinishClose. ASSUME NEW c \in Conns, FinishClose(c) PROVE ConnInv(d)'
  BY <1>FinishClose, <1>0 DEF FinishClose, Forget, ConnInv, Served, CurInv, TypeOK, Handlers, loopVars, queueVars, serverVars, connVars, ageVars, ioVars, writeVars, peerVars
<1>Connect. ASSUME NEW c \in Conns, Connect(c) PROVE ConnInv(d)'
  BY <1>Connect, <1>0 DEF Connect, ConnInv, Served, CurInv, TypeOK, Handlers, loopVars, queueVars, serverVars, connVars, ageVars, ioVars, writeVars, peerVars
<1>Send. ASSUME NEW c \in Conns, Send(c) PROVE ConnInv(d)'
  BY <1>Send, <1>0 DEF Send, ConnInv, Served, CurInv, TypeOK, Handlers, loopVars, queueVars, serverVars, connVars, ageVars, ioVars, writeVars, peerVars
<1>Drain. ASSUME NEW c \in Conns, Drain(c) PROVE ConnInv(d)'
  BY <1>Drain, <1>0 DEF Drain, ConnInv, Served, CurInv, TypeOK, Handlers, loopVars, queueVars, serverVars, connVars, ageVars, ioVars, writeVars, peerVars
<1>Collect. ASSUME NEW c \in Conns, Collect(c) PROVE ConnInv(d)'
  BY <1>Collect, <1>0 DEF Collect, ConnInv, Served, CurInv, TypeOK, Handlers, loopVars, queueVars, serverVars, connVars, ageVars, ioVars, writeVars, peerVars
<1>Echo. ASSUME NEW c \in Conns, Echo(c) PROVE ConnInv(d)'
  <2>0. UNCHANGED <<pc, cur, ready, closing, hnd, ref, heap, reading, shutting>>
    BY <1>Echo DEF Echo, loopVars, connVars, ageVars
  <2>1. CASE hnd[c] # "open"
    <3>1. UNCHANGED <<wq, split, wdone, werr, pending, pollout>>
      BY <1>Echo, <2>1 DEF Echo
    <3> QED
      BY <1>0, <2>0, <3>1 DEF ConnInv, Served
  <2>2. CASE hnd[c] = "open" /\ wq[c] + werr[c] > 0
    <3>1. /\ wq' = [wq EXCEPT ![c] = @ + 1]
          /\ pollout' = [pollout EXCEPT ![c] = TRUE]
          /\ UNCHANGED <<wdone, werr, pending>>
      BY <1>Echo, <2>2 DEF Echo
    <3> QED
      BY <1>0, <2>0, <2>2, <3>1 DEF ConnInv, Served, TypeOK
  <2>3. CASE hnd[c] = "open" /\ wq[c] + werr[c] = 0
    <3>1. PICK w \in UvWrite(c, 1) :
            /\ wq' = [wq EXCEPT ![c] = w.left]
            /\ wdone' = [wdone EXCEPT ![c] = IF w.fed /\ w.ok THEN @ + 1 ELSE @]
            /\ werr' = [werr EXCEPT ![c] = IF w.fed /\ ~w.ok THEN @ + 1 ELSE @]
            /\ pending' = IF w.fed THEN pending \cup {c} ELSE pending
            /\ pollout' = [pollout EXCEPT ![c] = w.armed]
      BY <1>Echo, <2>3 DEF Echo
    <3>2. w.fed \in BOOLEAN /\ w.armed \in BOOLEAN /\ (w.armed \/ w.fed)
      BY <1>0, UvWriteResult
    <3>3. CASE d = c
      <4>1. pollout'[c] = w.armed /\ (w.fed => c \in pending')
        BY <1>0, <3>1 DEF TypeOK
      <4>2. c \in pending => c \in pending'
        BY <3>1
      <4>3. ref[c]
        BY <1>0, <2>3, <3>3 DEF ConnInv
      <4> QED
        BY <1>0, <2>0, <2>3, <3>2, <3>3, <4>1, <4>2, <4>3 DEF ConnInv, Served
    <3>4. CASE d # c
      <4>1. /\ wq'[d] = wq[d] /\ wdone'[d] = wdone[d] /\ werr'[d] = werr[d]
            /\ pollout'[d] = pollout[d]
            /\ d \in pending' <=> d \in pending
        BY <1>0, <3>1, <3>4 DEF TypeOK
      <4> QED
        BY <1>0, <2>0, <4>1 DEF ConnInv, Served
    <3> QED
      BY <3>3, <3>4
  <2>4. wq[c] \in Nat /\ werr[c] \in Nat
    BY <1>0 DEF TypeOK
  <2> QED
    BY <2>1, <2>2, <2>3, <2>4
<1>SetTimeout. ASSUME NEW t \in LuaTimeouts, SetTimeout(t) PROVE ConnInv(d)'
  BY <1>SetTimeout, <1>0 DEF SetTimeout, ConnInv, Served, CurInv, TypeOK, Handlers, loopVars, queueVars, serverVars, connVars, ageVars, ioVars, writeVars, peerVars
<1>Leave. ASSUME NEW c \in Conns, NEW how \in {"fin", "rst"}, Leave(c, how) PROVE ConnInv(d)'
  BY <1>Leave, <1>0 DEF Leave, ConnInv, Served, CurInv, TypeOK, Handlers, loopVars, queueVars, serverVars, connVars, ageVars, ioVars, writeVars, peerVars
<1>Tick. ASSUME Tick PROVE ConnInv(d)'
  BY <1>Tick, <1>0 DEF Tick, Older, ConnInv, Served, CurInv, TypeOK, Handlers, loopVars, queueVars, serverVars, connVars, ageVars, ioVars, writeVars, peerVars
<1>TimerDue. ASSUME TimerDue PROVE ConnInv(d)'
  BY <1>TimerDue, <1>0 DEF TimerDue, ConnInv, Served, CurInv, TypeOK, Handlers, loopVars, queueVars, serverVars, connVars, ageVars, ioVars, writeVars, peerVars
<1>Stutter. ASSUME UNCHANGED vars PROVE ConnInv(d)'
  BY <1>Stutter, <1>0 DEF vars, ConnInv, Served, CurInv, TypeOK, Handlers, loopVars, queueVars, serverVars, connVars, ageVars, ioVars, writeVars, peerVars
<1> QED
  BY <1>RunTimers, <1>Poll, <1>EndEvents, <1>DispatchServer, <1>EndAccept, <1>ReadData, <1>ReadNothing, <1>ReadEnds, <1>AfterRead, <1>WriteOut, <1>OnConnAccepts, <1>OnConnRefuses, <1>OnDataReturns, <1>OnCloseReturns, <1>RunPending, <1>Dispatch, <1>Accept, <1>FinishClose, <1>Connect, <1>Send, <1>Drain, <1>Collect, <1>Echo, <1>SetTimeout, <1>Leave, <1>Tick, <1>TimerDue, <1>Stutter
     DEF Next, LoopStep, LuaReturns, LuaCalls, Environment

\* Every step keeps what holds of the connection whose callback runs.
LEMMA CurStep ==
    ASSUME IInv, [Next]_vars
    PROVE  CurInv'
<1>0. TypeOK /\ CurInv /\ TypeOK' /\ \A c \in Conns : ConnInv(c)
  BY TypeStep DEF IInv
<1>RunTimers. ASSUME RunTimers PROVE CurInv'
  BY <1>RunTimers, <1>0 DEF RunTimers, UvShutdown, TimerAgain, Expired, ConnInv, CurInv, TypeOK, Handlers, loopVars, queueVars, serverVars, connVars, ageVars, ioVars, writeVars, peerVars
<1>Poll. ASSUME Poll PROVE CurInv'
  BY <1>Poll, <1>0 DEF Poll, Polled, ConnInv, CurInv, TypeOK, Handlers, loopVars, queueVars, serverVars, connVars, ageVars, ioVars, writeVars, peerVars
<1>EndEvents. ASSUME EndEvents PROVE CurInv'
  BY <1>EndEvents, <1>0 DEF EndEvents, ConnInv, CurInv, TypeOK, Handlers, loopVars, queueVars, serverVars, connVars, ageVars, ioVars, writeVars, peerVars
<1>DispatchServer. ASSUME DispatchServer PROVE CurInv'
  BY <1>DispatchServer, <1>0 DEF DispatchServer, ConnInv, CurInv, TypeOK, Handlers, loopVars, queueVars, serverVars, connVars, ageVars, ioVars, writeVars, peerVars
<1>EndAccept. ASSUME EndAccept PROVE CurInv'
  BY <1>EndAccept, <1>0 DEF EndAccept, ConnInv, CurInv, TypeOK, Handlers, loopVars, queueVars, serverVars, connVars, ageVars, ioVars, writeVars, peerVars
<1>ReadData. ASSUME ReadData PROVE CurInv'
  BY <1>ReadData, <1>0 DEF ReadData, HeardFrom, ReadSize, ConnInv, CurInv, TypeOK, Handlers, loopVars, queueVars, serverVars, connVars, ageVars, ioVars, writeVars, peerVars
<1>ReadNothing. ASSUME ReadNothing PROVE CurInv'
  BY <1>ReadNothing, <1>0 DEF ReadNothing, UvShutdown, ConnInv, CurInv, TypeOK, Handlers, loopVars, queueVars, serverVars, connVars, ageVars, ioVars, writeVars, peerVars
<1>ReadEnds. ASSUME ReadEnds PROVE CurInv'
  BY <1>ReadEnds, <1>0 DEF ReadEnds, UvShutdown, ConnInv, CurInv, TypeOK, Handlers, loopVars, queueVars, serverVars, connVars, ageVars, ioVars, writeVars, peerVars
<1>AfterRead. ASSUME AfterRead PROVE CurInv'
  BY <1>AfterRead, <1>0 DEF AfterRead, UvShutdown, ConnInv, CurInv, TypeOK, Handlers, loopVars, queueVars, serverVars, connVars, ageVars, ioVars, writeVars, peerVars
<1>WriteOut. ASSUME WriteOut PROVE CurInv'
  BY <1>WriteOut, <1>0 DEF WriteOut, ConnInv, CurInv, TypeOK, Handlers, loopVars, queueVars, serverVars, connVars, ageVars, ioVars, writeVars, peerVars
<1>OnConnAccepts. ASSUME OnConnAccepts PROVE CurInv'
  BY <1>OnConnAccepts, <1>0 DEF OnConnAccepts, StartServing, ConnInv, CurInv, TypeOK, Handlers, loopVars, queueVars, serverVars, connVars, ageVars, ioVars, writeVars, peerVars
<1>OnConnRefuses. ASSUME OnConnRefuses PROVE CurInv'
  BY <1>OnConnRefuses, <1>0 DEF OnConnRefuses, UvClose, PendingWithout, ConnInv, CurInv, TypeOK, Handlers, loopVars, queueVars, serverVars, connVars, ageVars, ioVars, writeVars, peerVars
<1>OnDataReturns. ASSUME OnDataReturns PROVE CurInv'
  BY <1>OnDataReturns, <1>0 DEF OnDataReturns, ConnInv, CurInv, TypeOK, Handlers, loopVars, queueVars, serverVars, connVars, ageVars, ioVars, writeVars, peerVars
<1>OnCloseReturns. ASSUME OnCloseReturns PROVE CurInv'
  BY <1>OnCloseReturns, <1>0 DEF OnCloseReturns, Forget, ConnInv, CurInv, TypeOK, Handlers, loopVars, queueVars, serverVars, connVars, ageVars, ioVars, writeVars, peerVars
<1>RunPending. ASSUME NEW c \in Conns, RunPending(c) PROVE CurInv'
  BY <1>RunPending, <1>0 DEF RunPending, ConnInv, CurInv, TypeOK, Handlers, loopVars, queueVars, serverVars, connVars, ageVars, ioVars, writeVars, peerVars
<1>Dispatch. ASSUME NEW c \in Conns, Dispatch(c) PROVE CurInv'
  BY <1>Dispatch, <1>0 DEF Dispatch, ConnInv, CurInv, TypeOK, Handlers, loopVars, queueVars, serverVars, connVars, ageVars, ioVars, writeVars, peerVars
<1>Accept. ASSUME NEW c \in Conns, Accept(c) PROVE CurInv'
  <2>1. pc = "accept" /\ hnd[c] = "free" /\ ConnInv(c)
    BY <1>Accept, <1>0 DEF Accept, Backlog
  <2>2. CASE handlers["onconn"] = "function"
    <3>1. /\ pc' = "onconn" /\ cur' = c /\ hnd' = [hnd EXCEPT ![c] = "open"]
          /\ UNCHANGED <<heap, shutting, wq, wdone, werr>>
      BY <1>Accept, <2>2 DEF Accept, ageVars, writeVars
    <3>2. hnd'[c] = "open"
      BY <1>0, <3>1 DEF TypeOK
    <3>3. c \notin heap
      BY <2>1 DEF ConnInv
    <3> QED
      BY <2>1, <3>1, <3>2, <3>3 DEF CurInv, ConnInv
  <2>3. CASE handlers["onconn"] # "function"
    <3>1. pc' = "accept"
      BY <1>Accept, <2>1, <2>3 DEF Accept
    <3> QED
      BY <3>1 DEF CurInv
  <2> QED
    BY <2>2, <2>3
<1>FinishClose. ASSUME NEW c \in Conns, FinishClose(c) PROVE CurInv'
  BY <1>FinishClose, <1>0 DEF FinishClose, Forget, ConnInv, CurInv, TypeOK, Handlers, loopVars, queueVars, serverVars, connVars, ageVars, ioVars, writeVars, peerVars
<1>Connect. ASSUME NEW c \in Conns, Connect(c) PROVE CurInv'
  BY <1>Connect, <1>0 DEF Connect, ConnInv, CurInv, TypeOK, Handlers, loopVars, queueVars, serverVars, connVars, ageVars, ioVars, writeVars, peerVars
<1>Send. ASSUME NEW c \in Conns, Send(c) PROVE CurInv'
  BY <1>Send, <1>0 DEF Send, ConnInv, CurInv, TypeOK, Handlers, loopVars, queueVars, serverVars, connVars, ageVars, ioVars, writeVars, peerVars
<1>Drain. ASSUME NEW c \in Conns, Drain(c) PROVE CurInv'
  BY <1>Drain, <1>0 DEF Drain, ConnInv, CurInv, TypeOK, Handlers, loopVars, queueVars, serverVars, connVars, ageVars, ioVars, writeVars, peerVars
<1>Collect. ASSUME NEW c \in Conns, Collect(c) PROVE CurInv'
  BY <1>Collect, <1>0 DEF Collect, ConnInv, CurInv, TypeOK, Handlers, loopVars, queueVars, serverVars, connVars, ageVars, ioVars, writeVars, peerVars
<1>Echo. ASSUME NEW c \in Conns, Echo(c) PROVE CurInv'
  BY <1>Echo, <1>0 DEF Echo, ConnInv, CurInv, TypeOK, Handlers, loopVars, queueVars, serverVars, connVars, ageVars, ioVars, writeVars, peerVars
<1>SetTimeout. ASSUME NEW t \in LuaTimeouts, SetTimeout(t) PROVE CurInv'
  BY <1>SetTimeout, <1>0 DEF SetTimeout, ConnInv, CurInv, TypeOK, Handlers, loopVars, queueVars, serverVars, connVars, ageVars, ioVars, writeVars, peerVars
<1>Leave. ASSUME NEW c \in Conns, NEW how \in {"fin", "rst"}, Leave(c, how) PROVE CurInv'
  BY <1>Leave, <1>0 DEF Leave, ConnInv, CurInv, TypeOK, Handlers, loopVars, queueVars, serverVars, connVars, ageVars, ioVars, writeVars, peerVars
<1>Tick. ASSUME Tick PROVE CurInv'
  BY <1>Tick, <1>0 DEF Tick, Older, ConnInv, CurInv, TypeOK, Handlers, loopVars, queueVars, serverVars, connVars, ageVars, ioVars, writeVars, peerVars
<1>TimerDue. ASSUME TimerDue PROVE CurInv'
  BY <1>TimerDue, <1>0 DEF TimerDue, ConnInv, CurInv, TypeOK, Handlers, loopVars, queueVars, serverVars, connVars, ageVars, ioVars, writeVars, peerVars
<1>Stutter. ASSUME UNCHANGED vars PROVE CurInv'
  BY <1>Stutter, <1>0 DEF vars, ConnInv, CurInv, TypeOK, Handlers, loopVars, queueVars, serverVars, connVars, ageVars, ioVars, writeVars, peerVars
<1> QED
  BY <1>RunTimers, <1>Poll, <1>EndEvents, <1>DispatchServer, <1>EndAccept, <1>ReadData, <1>ReadNothing, <1>ReadEnds, <1>AfterRead, <1>WriteOut, <1>OnConnAccepts, <1>OnConnRefuses, <1>OnDataReturns, <1>OnCloseReturns, <1>RunPending, <1>Dispatch, <1>Accept, <1>FinishClose, <1>Connect, <1>Send, <1>Drain, <1>Collect, <1>Echo, <1>SetTimeout, <1>Leave, <1>Tick, <1>TimerDue, <1>Stutter
     DEF Next, LoopStep, LuaReturns, LuaCalls, Environment
-----------------------------------------------------------------------------

LEMMA Initially == Init => IInv
<1> SUFFICES ASSUME Init PROVE IInv
  OBVIOUS
<1>0. 0 \in 0..MaxIdle + 1 /\ 0 \in 0..MaxEchoes /\ 0 \in 0..MaxAvail /\ 0 \in 0..ReadBudget /\ 0 \in Nat
  BY ConfigAssumption
<1>a. idle \in 0..MaxIdle /\ timer \in {"off", "armed", "due"} /\ handlers \in [Handlers -> HandlerKinds]
  BY ConfigAssumption DEF Init
<1>b. /\ pc = "closing" /\ cur = NoConn /\ evs = {} /\ partial = FALSE /\ count = 0
      /\ srvReady = FALSE /\ pending = {} /\ closing = {} /\ heap = {}
  BY DEF Init
<1>c. /\ ready \in [Conns -> SUBSET Events]
      /\ hnd \in [Conns -> {"free", "open", "closing", "closed"}]
      /\ peer \in [Conns -> {"away", "open", "fin", "rst"}]
      /\ ref \in [Conns -> BOOLEAN] /\ reading \in [Conns -> BOOLEAN]
      /\ pollout \in [Conns -> BOOLEAN] /\ shutting \in [Conns -> BOOLEAN]
      /\ split \in [Conns -> BOOLEAN] /\ full \in [Conns -> BOOLEAN]
  BY DEF Init
<1>d. /\ age \in [Conns -> 0..MaxIdle + 1] /\ silent \in [Conns -> 0..MaxIdle + 1]
      /\ wq \in [Conns -> Nat] /\ wdone \in [Conns -> Nat] /\ werr \in [Conns -> Nat]
      /\ echoes \in [Conns -> 0..MaxEchoes] /\ lost \in [Conns -> Nat]
      /\ avail \in [Conns -> 0..MaxAvail]
  BY <1>0 DEF Init
<1>1. TypeOK
  BY <1>0, <1>a, <1>b, <1>c, <1>d DEF TypeOK, Handlers
<1>2. (\A c \in Conns : ConnInv(c)) /\ CurInv
  BY ConfigAssumption DEF Init, ConnInv, CurInv, Served
<1> QED
  BY <1>1, <1>2 DEF IInv

\* The inductive invariant holds in every reachable state.
THEOREM Invariance == Spec => []IInv
<1>1. IInv /\ [Next]_vars => IInv'
  BY TypeStep, ConnStep, CurStep DEF IInv
<1> QED
  BY Initially, <1>1, PTL DEF Spec

\* Every variable keeps to its type.
THEOREM TypeCorrect == Spec => []TypeOK
  BY Invariance, PTL DEF IInv

\* uv_tcpserver_t's heap and the loop's queues never point at userdata that the
\* registry no longer anchors.
THEOREM NoDanglingPointer == Spec => []PointersAreAnchored
<1>1. IInv => PointersAreAnchored
  BY DEF IInv, ConnInv, PointersAreAnchored
<1> QED
  BY Invariance, <1>1, PTL

\* No callback runs on a closing stream, and no stream is closed twice.
THEOREM NoFailedAssertion == Spec => []StreamAssertions
<1>1. IInv => StreamAssertions
  BY DEF IInv, ConnInv, CurInv, TypeOK, StreamAssertions
<1> QED
  BY Invariance, <1>1, PTL

\* Whatever a connection still has to do, its watcher will be called for it.
THEOREM NoLostWakeup == Spec => []OwedWorkIsWatched
<1>1. ASSUME IInv, NEW c \in Conns, wq[c] + wdone[c] + werr[c] > 0
      PROVE  wq[c] # 0 \/ wdone[c] # 0 \/ werr[c] # 0
  BY <1>1 DEF IInv, TypeOK
<1>2. IInv => OwedWorkIsWatched
  BY <1>1 DEF IInv, ConnInv, OwedWorkIsWatched
<1> QED
  BY Invariance, <1>2, PTL

\* A connection that is served stays readable and under the idle timer.
THEOREM NoZombie == Spec => []ServedIsWatched
<1>1. IInv => ServedIsWatched
  BY DEF IInv, ConnInv, ServedIsWatched
<1> QED
  BY Invariance, <1>1, PTL

\* No close cancels a message that echo accepted.
THEOREM GracefulClose == Spec => []NothingUnsentIsClosed
<1>1. IInv => NothingUnsentIsClosed
  BY DEF IInv, ConnInv, NothingUnsentIsClosed
<1> QED
  BY Invariance, <1>1, PTL

-----------------------------------------------------------------------------
(* The order of ConnLifecycle: each step of the server is one of the         *)
(* lifecycle's steps or leaves it as it is.                                   *)

\* create_server never touches the handlers' fields again.
HandlersInv == \A h \in Handlers : h \in Given <=> handlers[h] = "function"

-----------------------------------------------------------------------------
(* How a step looks from above: what the stages of the connections and the  *)
(* running handler have to do for it to be a step of the lifecycle.         *)

LEMMA Nothing ==
    ASSUME \A d \in Conns : Stage(d)' = Stage(d),
           (InLua \/ InLua') => InLua' /\ InLua /\ pc' = pc /\ cur' = cur
    PROVE  UNCHANGED Lifecycle!lifeVars
<1>1. [d \in Conns |-> Stage(d)]' = [d \in Conns |-> Stage(d)]
  OBVIOUS
<1>2. (IF InLua THEN <<pc, cur>> ELSE <<>>)' = IF InLua THEN <<pc, cur>> ELSE <<>>
  OBVIOUS
<1> QED
  BY <1>1, <1>2 DEF Lifecycle!lifeVars

LEMMA OneMoves ==
    ASSUME NEW c \in Conns, NEW to, \A d \in Conns : Stage(d)' = IF d = c THEN to ELSE Stage(d)
    PROVE  [d \in Conns |-> Stage(d)]' = [[d \in Conns |-> Stage(d)] EXCEPT ![c] = to]
  OBVIOUS

LEMMA Begins ==
    ASSUME NEW c \in Conns, NEW to, NEW h, ~InLua,
           \A d \in Conns : Stage(d)' = IF d = c THEN to ELSE Stage(d),
           IF h \in Given THEN InLua' /\ pc' = h /\ cur' = c ELSE ~InLua'
    PROVE  Lifecycle!Begin(c, Stage(c), to, h)
  BY OneMoves DEF Lifecycle!Begin

LEMMA Returns ==
    ASSUME NEW c \in Conns, NEW to, InLua, cur = c, ~InLua',
           \A d \in Conns : Stage(d)' = IF d = c THEN to ELSE Stage(d)
    PROVE  Lifecycle!Return(c, pc, Stage(c), to)
  BY OneMoves DEF Lifecycle!Return

\* A step that leaves handles and anchors alone and starts or ends no onconn.
LEMMA SameStages ==
    ASSUME hnd' = hnd, ref' = ref, pc' = "onconn" <=> pc = "onconn", pc = "onconn" => cur' = cur
    PROVE  \A d \in Conns : Stage(d)' = Stage(d)
  BY DEF Stage, Served

\* ... and no other handler either.
LEMMA Unseen ==
    ASSUME UNCHANGED <<hnd, ref>>, ~InLua, ~InLua'
    PROVE  UNCHANGED Lifecycle!lifeVars
<1>1. \A d \in Conns : Stage(d)' = Stage(d)
  BY SameStages DEF InLua, Handlers
<1> QED
  BY <1>1, Nothing

LEMMA UnseenByLua ==
    ASSUME UNCHANGED <<hnd, ref, pc, cur>>
    PROVE  UNCHANGED Lifecycle!lifeVars
<1>1. \A d \in Conns : Stage(d)' = Stage(d)
  BY SameStages
<1>2. InLua' <=> InLua
  BY DEF InLua
<1> QED
  BY <1>1, <1>2, Nothing

-----------------------------------------------------------------------------
\* The POLLOUT half of uv__stream_io ends a connection or changes nothing to see.
LEMMA StreamOutEnds ==
    ASSUME IInv, NEW c \in Conns, NEW q, StreamOut(c, q), hnd[c] = "open", ~InLua, ~InLua'
    PROVE  Lifecycle!LifeNext \/ UNCHANGED Lifecycle!lifeVars
<1>1. ref' = ref /\ (hnd' = hnd \/ hnd' = [hnd EXCEPT ![c] = "closing"])
  BY DEF StreamOut, UvClose
<1>2. CASE hnd' = hnd
  BY <1>1, <1>2, Unseen
<1>3. CASE hnd' = [hnd EXCEPT ![c] = "closing"]
  <2>1. Stage(c) = "serving"
    BY DEF Stage, Served, InLua, Handlers
  <2>2. \A d \in Conns : Stage(d)' = IF d = c THEN "ending" ELSE Stage(d)
    BY <1>1, <1>3 DEF Stage, Served, InLua, Handlers, IInv, TypeOK
  <2>3. "" \notin Given
    BY ConfigAssumption DEF Handlers
  <2>4. Lifecycle!End(c)
    BY <2>1, <2>2, <2>3, Begins DEF Lifecycle!End
  <2> QED
    BY <2>4 DEF Lifecycle!LifeNext
<1> QED
  BY <1>1, <1>2, <1>3

LEMMA AcceptOffers ==
    ASSUME IInv, HandlersInv, NEW c \in Conns, Accept(c)
    PROVE  Lifecycle!LifeNext
<1>0. pc = "accept" /\ hnd[c] = "free" /\ ~InLua
  BY DEF Accept, Backlog, InLua, Handlers
<1>1. Stage(c) = "none"
  BY <1>0 DEF Stage
<1>2. "onconn" \in Given <=> handlers["onconn"] = "function"
  BY DEF HandlersInv, Handlers
<1>3. CASE handlers["onconn"] = "function"
  <2>1. pc' = "onconn" /\ cur' = c /\ hnd' = [hnd EXCEPT ![c] = "open"] /\ ref' = [ref EXCEPT ![c] = TRUE]
    BY <1>3 DEF Accept
  <2>2. \A d \in Conns : Stage(d)' = IF d = c THEN "offered" ELSE Stage(d)
    BY <1>0, <2>1 DEF Stage, Served, IInv, TypeOK
  <2>3. InLua'
    BY <2>1 DEF InLua, Handlers
  <2>4. Lifecycle!Offer(c)
    BY <1>0, <1>1, <1>2, <1>3, <2>1, <2>2, <2>3, Begins DEF Lifecycle!Offer
  <2> QED
    BY <2>4 DEF Lifecycle!LifeNext
<1>4. CASE handlers["onconn"] = "none"
  <2>1. pc' = pc /\ hnd' = [hnd EXCEPT ![c] = "open"] /\ ref' = [ref EXCEPT ![c] = TRUE]
    BY <1>4 DEF Accept
  <2>2. \A d \in Conns : Stage(d)' = IF d = c THEN "serving" ELSE Stage(d)
    BY <1>0, <2>1 DEF Stage, Served, IInv, TypeOK
  <2>3. ~InLua'
    BY <1>0, <2>1 DEF InLua, Handlers
  <2>4. Lifecycle!ServeUnasked(c)
    BY <1>0, <1>1, <1>2, <1>4, <2>2, <2>3, Begins DEF Lifecycle!ServeUnasked
  <2> QED
    BY <2>4 DEF Lifecycle!LifeNext
<1>5. CASE handlers["onconn"] = "other"
  <2>1. pc' = pc /\ hnd' = [hnd EXCEPT ![c] = "closing"] /\ ref' = [ref EXCEPT ![c] = TRUE]
    BY <1>5 DEF Accept, UvClose
  <2>2. \A d \in Conns : Stage(d)' = IF d = c THEN "ending" ELSE Stage(d)
    BY <1>0, <2>1 DEF Stage, Served, IInv, TypeOK
  <2>3. ~InLua'
    BY <1>0, <2>1 DEF InLua, Handlers
  <2>4. Lifecycle!RefuseUnasked(c)
    BY <1>0, <1>1, <1>2, <1>5, <2>2, <2>3, Begins DEF Lifecycle!RefuseUnasked
  <2> QED
    BY <2>4 DEF Lifecycle!LifeNext
<1> QED
  BY <1>3, <1>4, <1>5 DEF Accept

LEMMA OnConnServesOrRefuses ==
    ASSUME IInv, OnConnAccepts \/ OnConnRefuses
    PROVE  Lifecycle!LifeNext
<1>0. /\ pc = "onconn" /\ pc' = "accept" /\ cur \in Conns /\ hnd[cur] = "open" /\ ref' = ref
      /\ InLua /\ ~InLua'
  BY DEF OnConnAccepts, OnConnRefuses, IInv, CurInv, TypeOK, connVars, InLua, Handlers
<1>1. Stage(cur) = "offered"
  BY <1>0 DEF Stage, Served
<1>2. CASE OnConnAccepts
  <2>1. hnd' = hnd
    BY <1>2 DEF OnConnAccepts, connVars
  <2>2. \A d \in Conns : Stage(d)' = IF d = cur THEN "serving" ELSE Stage(d)
    BY <1>0, <2>1 DEF Stage, Served
  <2>3. Lifecycle!Serve(cur)
    BY <1>0, <1>1, <2>2, Returns DEF Lifecycle!Serve
  <2> QED
    BY <1>0, <2>3 DEF Lifecycle!LifeNext, Lifecycle!Returns
<1>3. CASE OnConnRefuses
  <2>1. hnd' = [hnd EXCEPT ![cur] = "closing"]
    BY <1>3 DEF OnConnRefuses, UvClose
  <2>2. \A d \in Conns : Stage(d)' = IF d = cur THEN "ending" ELSE Stage(d)
    BY <1>0, <2>1 DEF Stage, Served, IInv, TypeOK
  <2>3. Lifecycle!Refuse(cur)
    BY <1>0, <1>1, <2>2, Returns DEF Lifecycle!Refuse
  <2> QED
    BY <1>0, <2>3 DEF Lifecycle!LifeNext, Lifecycle!Returns
<1> QED
  BY <1>2, <1>3

LEMMA ReadDelivers ==
    ASSUME IInv, HandlersInv, ReadData
    PROVE  Lifecycle!LifeNext \/ UNCHANGED Lifecycle!lifeVars
<1>0. /\ pc = "read" /\ cur \in Conns /\ hnd[cur] = "open" /\ UNCHANGED <<hnd, ref, cur>> /\ ~InLua
  BY DEF ReadData, IInv, CurInv, TypeOK, connVars, InLua, Handlers
<1>1. CASE handlers["ondata"] = "function"
  <2>1. pc' = "ondata" /\ InLua'
    BY <1>1 DEF ReadData, InLua, Handlers
  <2>2. Stage(cur) = "serving"
    BY <1>0 DEF Stage, Served
  <2>3. \A d \in Conns : Stage(d)' = IF d = cur THEN "serving" ELSE Stage(d)
    BY <1>0, <2>1, <2>2, SameStages
  <2>4. "ondata" \in Given
    BY <1>1 DEF HandlersInv, Handlers
  <2>5. Lifecycle!Deliver(cur)
    BY <1>0, <2>1, <2>2, <2>3, <2>4, Begins DEF Lifecycle!Deliver
  <2> QED
    BY <1>0, <2>5 DEF Lifecycle!LifeNext
<1>2. CASE handlers["ondata"] # "function"
  <2>1. pc' = "read" /\ ~InLua'
    BY <1>2 DEF ReadData, InLua, Handlers
  <2> QED
    BY <1>0, <2>1, Unseen
<1> QED
  BY <1>1, <1>2

LEMMA OnDataIsDelivered ==
    ASSUME IInv, OnDataReturns
    PROVE  Lifecycle!LifeNext
<1>0. /\ pc = "ondata" /\ pc' = "read" /\ cur \in Conns /\ hnd[cur] = "open"
      /\ UNCHANGED <<hnd, ref, cur>> /\ InLua /\ ~InLua'
  BY DEF OnDataReturns, IInv, CurInv, TypeOK, connVars, InLua, Handlers
<1>1. Stage(cur) = "serving"
  BY <1>0 DEF Stage, Served
<1>2. \A d \in Conns : Stage(d)' = IF d = cur THEN "serving" ELSE Stage(d)
  BY <1>0, <1>1, SameStages
<1>3. Lifecycle!Delivered(cur)
  BY <1>0, <1>1, <1>2, Returns DEF Lifecycle!Delivered
<1> QED
  BY <1>0, <1>3 DEF Lifecycle!LifeNext, Lifecycle!Returns

LEMMA FinishCloseTells ==
    ASSUME IInv, HandlersInv, NEW c \in Conns, FinishClose(c)
    PROVE  Lifecycle!LifeNext
<1>0. /\ pc = "closing" /\ hnd[c] = "closing" /\ ref[c] /\ ~InLua
      /\ hnd' = [hnd EXCEPT ![c] = "closed"]
  BY DEF FinishClose, IInv, ConnInv, InLua, Handlers
<1>1. Stage(c) = "ending"
  BY <1>0 DEF Stage
<1>2. "onclose" \in Given <=> handlers["onclose"] = "function"
  BY DEF HandlersInv, Handlers
<1>3. CASE handlers["onclose"] = "function"
  <2>1. pc' = "onclose" /\ cur' = c /\ ref' = ref /\ InLua'
    BY <1>3 DEF FinishClose, InLua, Handlers
  <2>2. \A d \in Conns : Stage(d)' = IF d = c THEN "told" ELSE Stage(d)
    BY <1>0, <2>1 DEF Stage, Served, IInv, TypeOK
  <2>3. Lifecycle!Tell(c)
    BY <1>0, <1>1, <1>2, <1>3, <2>1, <2>2, Begins DEF Lifecycle!Tell
  <2> QED
    BY <2>3 DEF Lifecycle!LifeNext
<1>4. CASE handlers["onclose"] # "function"
  <2>1. pc' = pc /\ ref' = [ref EXCEPT ![c] = FALSE] /\ ~InLua'
    BY <1>0, <1>4 DEF FinishClose, Forget, InLua, Handlers
  <2>2. \A d \in Conns : Stage(d)' = IF d = c THEN "over" ELSE Stage(d)
    BY <1>0, <2>1 DEF Stage, Served, IInv, TypeOK
  <2>3. Lifecycle!Tell(c)
    BY <1>0, <1>1, <1>2, <1>4, <2>1, <2>2, Begins DEF Lifecycle!Tell
  <2> QED
    BY <2>3 DEF Lifecycle!LifeNext
<1> QED
  BY <1>3, <1>4

LEMMA OnCloseIsTold ==
    ASSUME IInv, OnCloseReturns
    PROVE  Lifecycle!LifeNext
<1>0. /\ pc = "onclose" /\ pc' = "closing" /\ cur \in Conns /\ hnd[cur] = "closed" /\ ref[cur]
      /\ hnd' = hnd /\ ref' = [ref EXCEPT ![cur] = FALSE] /\ InLua /\ ~InLua'
  BY DEF OnCloseReturns, Forget, IInv, CurInv, TypeOK, InLua, Handlers
<1>1. Stage(cur) = "told"
  BY <1>0 DEF Stage
<1>2. \A d \in Conns : Stage(d)' = IF d = cur THEN "over" ELSE Stage(d)
  BY <1>0 DEF Stage, Served, IInv, TypeOK
<1>3. Lifecycle!Told(cur)
  BY <1>0, <1>1, <1>2, Returns DEF Lifecycle!Told
<1> QED
  BY <1>0, <1>3 DEF Lifecycle!LifeNext, Lifecycle!Returns

LEMMA CollectReuses ==
    ASSUME IInv, NEW c \in Conns, Collect(c)
    PROVE  Lifecycle!LifeNext
<1>0. /\ hnd[c] = "closed" /\ ~ref[c] /\ hnd' = [hnd EXCEPT ![c] = "free"]
      /\ UNCHANGED <<ref, pc, cur>>
  BY DEF Collect, loopVars
<1>1. Stage(c) = "over"
  BY <1>0 DEF Stage
<1>2. \A d \in Conns : Stage(d)' = IF d = c THEN "none" ELSE Stage(d)
  BY <1>0 DEF Stage, Served, IInv, TypeOK
<1>3. Lifecycle!Reuse(c)
  BY <1>0, <1>1, <1>2, OneMoves DEF Lifecycle!Reuse, InLua
<1> QED
  BY <1>3 DEF Lifecycle!LifeNext

-----------------------------------------------------------------------------
LEMMA LifecycleInit == Init => Lifecycle!LifeInit
  BY DEF Init, Lifecycle!LifeInit, Stage, InLua, Handlers

\* Every step of the server is a step of the lifecycle or nothing to it.
LEMMA LifecycleStep ==
    ASSUME IInv, HandlersInv, [Next]_vars
    PROVE  [Lifecycle!LifeNext]_(Lifecycle!lifeVars)
<1> DEFINE Goal == Lifecycle!LifeNext \/ UNCHANGED Lifecycle!lifeVars
<1> SUFFICES Goal
  OBVIOUS
<1> HIDE DEF Goal
<1>1. ASSUME RunTimers \/ Poll \/ EndEvents \/ DispatchServer \/ EndAccept PROVE Goal
  <2>1. UNCHANGED <<hnd, ref>> /\ ~InLua /\ ~InLua'
    BY <1>1 DEF RunTimers, Poll, EndEvents, DispatchServer, EndAccept, connVars, InLua, Handlers
  <2> QED
    BY <2>1, Unseen DEF Goal
<1>2. ASSUME ReadNothing \/ ReadEnds \/ AfterRead PROVE Goal
  <2>1. UNCHANGED <<hnd, ref>> /\ ~InLua /\ ~InLua'
    BY <1>2 DEF ReadNothing, ReadEnds, AfterRead, connVars, InLua, Handlers
  <2> QED
    BY <2>1, Unseen DEF Goal
<1>3. ASSUME WriteOut PROVE Goal
  <2>1. pc = "write" /\ cur \in Conns /\ hnd[cur] = "open" /\ ~InLua /\ ~InLua'
    BY <1>3 DEF WriteOut, IInv, CurInv, TypeOK, InLua, Handlers
  <2>2. CASE StreamOut(cur, pending)
    BY <2>1, <2>2, StreamOutEnds DEF Goal
  <2>3. CASE UNCHANGED connVars
    BY <2>1, <2>3, Unseen DEF Goal, connVars
  <2> QED
    BY <1>3, <2>2, <2>3 DEF WriteOut
<1>4. ASSUME NEW c \in Conns, RunPending(c) PROVE Goal
  <2>1. StreamOut(c, pending \ {c}) /\ hnd[c] = "open" /\ ~InLua /\ ~InLua'
    BY <1>4 DEF RunPending, IInv, ConnInv, InLua, Handlers, loopVars
  <2> QED
    BY <2>1, StreamOutEnds DEF Goal
<1>5. ASSUME NEW c \in Conns, Dispatch(c) PROVE Goal
  <2>1. UNCHANGED <<hnd, ref>> /\ ~InLua /\ ~InLua'
    BY <1>5 DEF Dispatch, connVars, InLua, Handlers
  <2> QED
    BY <2>1, Unseen DEF Goal
<1>6. ASSUME NEW c \in Conns, NEW how \in {"fin", "rst"},
             Connect(c) \/ Send(c) \/ Drain(c) \/ Leave(c, how)
      PROVE  Goal
  BY <1>6, UnseenByLua DEF Goal, Connect, Send, Drain, Leave, loopVars, connVars
<1>7. ASSUME NEW c \in Conns, Echo(c) PROVE Goal
  BY <1>7, UnseenByLua DEF Goal, Echo, loopVars, connVars
<1>8. ASSUME NEW t \in LuaTimeouts, SetTimeout(t) PROVE Goal
  BY <1>8, UnseenByLua DEF Goal, SetTimeout, loopVars, connVars
<1>9. ASSUME Tick \/ TimerDue \/ UNCHANGED vars PROVE Goal
  BY <1>9, UnseenByLua DEF Goal, Tick, TimerDue, vars, loopVars, connVars
<1>10. ASSUME NEW c \in Conns, Accept(c) \/ FinishClose(c) \/ Collect(c) PROVE Goal
  BY <1>10, AcceptOffers, FinishCloseTells, CollectReuses DEF Goal
<1>11. ASSUME ReadData \/ LuaReturns PROVE Goal
  BY <1>11, ReadDelivers, OnConnServesOrRefuses, OnDataIsDelivered, OnCloseIsTold DEF Goal, LuaReturns
<1> QED
  BY <1>1, <1>2, <1>3, <1>4, <1>5, <1>6, <1>7, <1>8, <1>9, <1>10, <1>11
     DEF Next, LoopStep, LuaCalls, Environment

\* Whatever peers, clocks and scripts do, the handlers of all connections run in the
\* order of ConnLifecycle: the server of tcpserver.c on libuv's streams implements it.
THEOREM ServerImplementsLifecycle == Spec => LifecycleOrder
<1>1. Init => HandlersInv
  BY DEF Init, HandlersInv
<1>2. HandlersInv /\ [Next]_vars => HandlersInv'
  <2> SUFFICES ASSUME HandlersInv, [Next]_vars PROVE handlers' = handlers
    BY DEF HandlersInv
  <2> QED
    BY DEF Next, LoopStep, LuaReturns, LuaCalls, Environment, vars, RunTimers, Poll, EndEvents, DispatchServer, EndAccept, ReadData, ReadNothing, ReadEnds, AfterRead, WriteOut, RunPending, Dispatch, Accept, FinishClose, OnConnAccepts, OnConnRefuses, OnDataReturns, OnCloseReturns, Echo, SetTimeout, Connect, Send, Drain, Collect, Leave, Tick, TimerDue, serverVars
<1>3. Spec => []HandlersInv
  BY <1>1, <1>2, PTL DEF Spec
<1>4. IInv /\ HandlersInv /\ [Next]_vars => [Lifecycle!LifeNext]_(Lifecycle!lifeVars)
  BY LifecycleStep
<1> QED
  BY LifecycleInit, Invariance, <1>3, <1>4, PTL DEF Spec, LifecycleOrder, Lifecycle!LifeOrder

-----------------------------------------------------------------------------
(* The idle timer spares connections that speak, provided a script that ever   *)
(* sets a timeout has set one before the loop runs.  uv_tcpserver_onread keeps *)
(* ev_timeout only while there is a timeout; one that comes later finds it as  *)
(* old as the connection.                                                      *)

\* There is a timeout from the start, or never one.
SetInTime == 0 \notin InitialIdle \/ LuaTimeouts \subseteq {0}

\* While there is a timeout, ev_timeout is when the script last heard of a connection;
\* and while there is none, none will come.
AgeInv ==
    /\ idle > 0 => age = silent
    /\ idle = 0 => LuaTimeouts \subseteq {0}

LEMMA AgeInit == ASSUME SetInTime, Init PROVE AgeInv
  BY DEF Init, AgeInv, SetInTime

\* Every step keeps the two clocks of a connection in step.
LEMMA AgeStep == ASSUME TypeOK, CurInv, AgeInv, [Next]_vars PROVE AgeInv'
<1> DEFINE Kept == UNCHANGED <<age, silent, idle>>
<1>0. idle \in Nat
  BY ConfigAssumption DEF TypeOK
<1>1. ASSUME Kept PROVE AgeInv'
  BY <1>1 DEF AgeInv
<1>2. ASSUME \/ RunTimers \/ Poll \/ EndEvents \/ DispatchServer \/ EndAccept
             \/ ReadNothing \/ ReadEnds \/ AfterRead \/ WriteOut
             \/ \E c \in Conns : RunPending(c) \/ Dispatch(c) \/ FinishClose(c)
      PROVE  Kept
  BY <1>2 DEF RunTimers, Poll, EndEvents, DispatchServer, EndAccept, ReadNothing, ReadEnds,
              AfterRead, WriteOut, RunPending, Dispatch, FinishClose, ageVars, serverVars
<1>3. ASSUME OnConnRefuses \/ OnDataReturns \/ OnCloseReturns PROVE Kept
  BY <1>3 DEF OnConnRefuses, OnDataReturns, OnCloseReturns, ageVars, serverVars
<1>4. ASSUME NEW c \in Conns, NEW how \in {"fin", "rst"},
             Echo(c) \/ Connect(c) \/ Send(c) \/ Drain(c) \/ Leave(c, how)
      PROVE  Kept
  BY <1>4 DEF Echo, Connect, Send, Drain, Leave, ageVars, serverVars
<1>5. ASSUME TimerDue \/ UNCHANGED vars PROVE Kept
  BY <1>5 DEF TimerDue, vars, ageVars, serverVars
<1>6. ASSUME NEW c \in Conns, Accept(c) PROVE AgeInv'
  <2>1. idle' = idle /\ (UNCHANGED <<age, silent>> \/ StartServing(c))
    BY <1>6 DEF Accept, ageVars, serverVars
  <2> QED
    BY <2>1 DEF StartServing, AgeInv
<1>7. ASSUME OnConnAccepts PROVE AgeInv'
  BY <1>7 DEF OnConnAccepts, StartServing, serverVars, AgeInv
<1>8. ASSUME ReadData PROVE AgeInv'
  <2>1. idle' = idle /\ silent' = [silent EXCEPT ![cur] = 0]
    BY <1>8 DEF ReadData, serverVars
  <2>2. idle > 0 => age' = [age EXCEPT ![cur] = 0]
    BY <1>8, <1>0 DEF ReadData, HeardFrom
  <2> QED
    BY <2>1, <2>2 DEF AgeInv
<1>9. ASSUME NEW t \in LuaTimeouts, SetTimeout(t) PROVE AgeInv'
  <2>1. UNCHANGED <<age, silent>> /\ (t > 0 \/ idle > 0) /\ idle' > 0
    BY <1>9, ConfigAssumption DEF SetTimeout, ageVars
  <2>2. t > 0 => idle # 0
    BY DEF AgeInv
  <2> QED
    BY <1>0, <2>1, <2>2 DEF AgeInv
<1>10. ASSUME Tick PROVE AgeInv'
  BY <1>10 DEF Tick, serverVars, AgeInv
<1>11. ASSUME NEW c \in Conns, Collect(c) PROVE AgeInv'
  BY <1>11 DEF Collect, serverVars, AgeInv
<1> HIDE DEF Kept
<1> QED
  BY <1>1, <1>2, <1>3, <1>4, <1>5, <1>6, <1>7, <1>8, <1>9, <1>10, <1>11
     DEF Next, LoopStep, LuaReturns, LuaCalls, Environment

-----------------------------------------------------------------------------
\* Between the closing phase and the next handler only the timer shuts streams down.
LEMMA OnlyTimerKicks ==
    ASSUME TypeOK, [Next]_vars, pc = "closing", NEW c \in Conns, ~shutting[c], shutting'[c]
    PROVE  c \in Expired
<1>1. ASSUME RunTimers PROVE c \in Expired
  BY <1>1 DEF RunTimers, UvShutdown, TypeOK
<1>2. ASSUME NEW d \in Conns, FinishClose(d) \/ Connect(d) \/ Send(d) \/ Drain(d) \/ Collect(d)
      PROVE  shutting' = shutting
  BY <1>2 DEF FinishClose, Connect, Send, Drain, Collect, ioVars
<1>3. ASSUME NEW d \in Conns, NEW how \in {"fin", "rst"}, Leave(d, how) PROVE shutting' = shutting
  BY <1>3 DEF Leave, ioVars
<1>4. ASSUME Tick \/ TimerDue \/ UNCHANGED vars PROVE shutting' = shutting
  BY <1>4 DEF Tick, TimerDue, vars, ioVars
<1>5. ~(\/ Poll \/ EndEvents \/ DispatchServer \/ EndAccept \/ ReadData \/ ReadNothing
        \/ ReadEnds \/ AfterRead \/ WriteOut
        \/ \E d \in Conns : RunPending(d) \/ Dispatch(d) \/ Accept(d))
  BY DEF Poll, EndEvents, DispatchServer, EndAccept, ReadData, ReadNothing, ReadEnds, AfterRead,
         WriteOut, RunPending, Dispatch, Accept
<1>6. ~(LuaReturns \/ LuaCalls)
  BY DEF LuaReturns, OnConnAccepts, OnConnRefuses, OnDataReturns, OnCloseReturns,
         LuaCalls, Echo, SetTimeout, InLua, Handlers
<1> QED
  BY <1>1, <1>2, <1>3, <1>4, <1>5, <1>6 DEF Next, LoopStep, Environment

\* The idle timer of tcpserver.c shuts down only connections the script has not heard of
\* for longer than the timeout, if a timeout is set before the loop runs or never.
THEOREM TimerIsFair == ASSUME SetInTime PROVE Spec => TimerKicksOnlySilent
<1>1. Init => AgeInv
  BY AgeInit
<1>2. IInv /\ AgeInv /\ [Next]_vars => AgeInv'
  BY AgeStep DEF IInv
<1>3. IInv /\ AgeInv /\ [Next]_vars =>
        [\A c \in Conns : pc = "closing" /\ ~shutting[c] /\ shutting'[c] => silent[c] > idle]_vars
  <2> SUFFICES ASSUME IInv, AgeInv, [Next]_vars, pc = "closing",
                      NEW c \in Conns, ~shutting[c], shutting'[c]
               PROVE  silent[c] > idle
    OBVIOUS
  <2>1. c \in Expired
    BY OnlyTimerKicks DEF IInv
  <2> QED
    BY <2>1 DEF Expired, AgeInv
<1> QED
  BY <1>1, <1>2, <1>3, Invariance, PTL DEF Spec, TimerKicksOnlySilent
=============================================================================
