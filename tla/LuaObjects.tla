------------------------------ MODULE LuaObjects ------------------------------
(***************************************************************************)
(* Who keeps whom alive: loops, servers, timers and connections are Lua    *)
(* userdata that libuv points into, anchored by slots of Lua's registry    *)
(* (libuv-lua/src/uvlua.c, tcpserver.c; luaL_ref in lua/src/lauxlib.c).    *)
(*                                                                         *)
(* The registry's free list is modelled slot by slot, as an unreferenced   *)
(* slot is the next one handed out and a slot unreferenced twice is handed *)
(* out twice.  A script makes objects, keeps or drops them, and runs the   *)
(* loop; while the loop runs, connections come and go and the script acts  *)
(* inside handlers.  The collector may take what nothing anchors.          *)
(***************************************************************************)
EXTENDS Integers, FiniteSets

CONSTANTS
    Loop, Servers, Timers, Conns,   \* userdata: one loop at a time; slots reused after collection
    Decoders,                       \* Lua values a script may give to set_decoder
    Func,                           \* stands for any Lua function
    None,                           \* no connection, no decoder
    Script,                         \* what scripts may run into: "failed create", "late decoder"
    MaxSlots                        \* bound: registry slots in use

Objects == Servers \cup Timers \cup Conns
Userdata == {Loop} \cup Objects
Values == Userdata \cup Decoders \cup {Func}
Slots == 1..MaxSlots
NoRef == 0                          \* LUA_NOREF; nil in the registry

ASSUME ObjectsAssumption ==
    /\ MaxSlots \in Nat
    /\ Values \cap (0..MaxSlots) = {}
    /\ None \notin Values \cup 0..MaxSlots
    /\ Loop \notin Objects \cup Decoders \cup {Func}
    /\ Func \notin Objects \cup Decoders
    /\ Decoders \cap Objects = {}
    /\ Servers \cap Timers = {} /\ Servers \cap Conns = {} /\ Timers \cap Conns = {}

VARIABLES
    mem,                \* of each userdata: none, live, or final (its __gc has run)
    held,               \* what the script's variables reach
    running, cur,       \* uv_run is on the stack; the connection whose onclose runs
    reg, top,           \* the registry: value or next free slot, slot 0 the list head; its border
    self, cb, dref,     \* fields: ref; the handlers' and timer callback's ref; decoder_ref
    decoder,            \* history: the decoder the script gave to the connection last
    hnd,                \* the libuv handle in the userdata: none, open, closing, closed
    loopHeap, connHeap, \* members of the loop's heap; of the server's heap
    misuse, ended       \* history: which misuse happened; how lua_close went

objVars == <<mem, held, running, cur, reg, top, self, cb, dref, decoder, hnd,
             loopHeap, connHeap, misuse, ended>>

Init ==
    /\ mem = [o \in Userdata |-> "none"] /\ held = {}
    /\ running = FALSE /\ cur = None
    /\ reg = [n \in 0..MaxSlots |-> NoRef] /\ top = 0
    /\ self = [o \in Objects |-> NoRef]
    /\ cb = [o \in Servers \cup Timers |-> NoRef]
    /\ dref = [c \in Conns |-> NoRef]
    /\ decoder = [c \in Conns |-> None]
    /\ hnd = [o \in Objects |-> "none"]
    /\ loopHeap = {} /\ connHeap = {}
    /\ misuse = {} /\ ended = "no"

-----------------------------------------------------------------------------
(* luaL_ref and luaL_unref on a registry R = [reg, top] *)

Registry == [reg |-> reg, top |-> top]

\* The slot luaL_ref takes: the head of the free list, or else a new one behind
\* the border.  An intact list is empty only if no slot below the border is nil;
\* after misuse any border will do.
RefSlots(R) ==
    IF R.reg[0] \in Slots THEN {R.reg[0]}
    ELSE IF misuse = {} THEN {R.top + 1} \cap Slots
    ELSE {n \in Slots : n <= R.top + 1 /\ R.reg[n] = NoRef /\ (n = 1 \/ R.reg[n - 1] # NoRef)}

\* luaL_ref has put v in slot n.
RefAt(R, n, v) ==
    [reg |-> [i \in 0..MaxSlots |-> IF i = n THEN v
                                    ELSE IF i = 0 /\ R.reg[0] \in Slots THEN R.reg[n]
                                    ELSE R.reg[i]],
     top |-> IF n > R.top THEN n ELSE R.top]

\* The outcomes of a reference to v, and of one that is made only if v was given.
Refs(R, v) == {[slot |-> n, after |-> RefAt(R, n, v)] : n \in RefSlots(R)}
RefsIf(given, R, v) == IF given THEN Refs(R, v) ELSE {[slot |-> NoRef, after |-> R]}

\* luaL_unref: the slot becomes the head of the free list.
Unref(R, n) ==
    IF n = NoRef THEN R
    ELSE [R EXCEPT !.reg = [R.reg EXCEPT ![n] = R.reg[0], ![0] = n]]

RegistryIs(R) == reg' = R.reg /\ top' = R.top

\* The collector reaches o; uv_run's argument is on the stack.
Anchored(o) ==
    \/ o \in held
    \/ \E n \in 0..top : reg[n] = o
    \/ o = Loop /\ running

-----------------------------------------------------------------------------
(* uvlua.c: what a script calls, before loop:run, in a handler, or after it *)

ScriptRuns == ended = "no"
LoopAtHand == ScriptRuns /\ mem[Loop] = "live" /\ (Loop \in held \/ running)

\* The model follows the first loop anything is made in.
CreateLoop ==
    /\ ScriptRuns /\ mem[Loop] = "none"
    /\ \A o \in Objects : mem[o] = "none" /\ self[o] = NoRef
    /\ mem' = [mem EXCEPT ![Loop] = "live"]
    /\ held' = held \cup {Loop}
    /\ loopHeap' = {}
    /\ UNCHANGED <<running, cur, reg, top, self, cb, dref, decoder, hnd, connHeap, misuse, ended>>

\* A new server or timer o with its callback referenced in p and itself in q: it
\* joins the loop's heap and is returned.
Made(o, p, q) ==
    /\ RegistryIs(q.after)
    /\ cb' = [cb EXCEPT ![o] = p.slot]
    /\ self' = [self EXCEPT ![o] = q.slot]
    /\ mem' = [mem EXCEPT ![o] = "live"]
    /\ hnd' = [hnd EXCEPT ![o] = "open"]
    /\ loopHeap' = loopHeap \cup {o}
    /\ held' = held \cup {o}
    /\ UNCHANGED <<running, cur, dref, decoder, connHeap, misuse, ended>>

Fresh(o) == mem[o] = "none" /\ hnd[o] = "none"

\* create_server, bind and listen succeed.  One field stands for the three handlers.
CreateServer(s, given) ==
    /\ LoopAtHand /\ Fresh(s)
    /\ \E p \in RefsIf(given, Registry, Func) : \E q \in Refs(p.after, s) : Made(s, p, q)

\* create_server, uv_ip4_addr, bind or listen fails: the handle is closed and the
\* userdata dropped; the handlers' references are not undone.
CreateServerFails(s, given) ==
    /\ "failed create" \in Script
    /\ LoopAtHand /\ Fresh(s)
    /\ \E p \in RefsIf(given, Registry, Func) :
        /\ RegistryIs(p.after)
        /\ cb' = [cb EXCEPT ![s] = p.slot]
    /\ mem' = [mem EXCEPT ![s] = "live"]
    /\ hnd' = [hnd EXCEPT ![s] = "closing"]
    /\ misuse' = misuse \cup {"failed create"}
    /\ UNCHANGED <<held, running, cur, self, dref, decoder, loopHeap, connHeap, ended>>

\* create_timer; whether it starts is the subject of Timers.
CreateTimer(t, given) ==
    /\ LoopAtHand /\ Fresh(t)
    /\ \E p \in RefsIf(given, Registry, Func) : \E q \in Refs(p.after, t) : Made(t, p, q)

Run ==
    /\ LoopAtHand /\ ~running
    /\ running' = TRUE
    /\ UNCHANGED <<mem, held, cur, reg, top, self, cb, dref, decoder, hnd, loopHeap, connHeap,
                   misuse, ended>>

\* uv_run returns once no server, connection or closing handle is left; timers may be stopped.
RunReturns ==
    /\ running /\ cur = None /\ ended = "no"
    /\ \A o \in Servers \cup Conns : hnd[o] \in {"none", "closed"}
    /\ running' = FALSE
    /\ UNCHANGED <<mem, held, cur, reg, top, self, cb, dref, decoder, hnd, loopHeap, connHeap,
                   misuse, ended>>

\* The script forgets an object, or a handler stores the connection it is given.
Drop(o) ==
    /\ ScriptRuns /\ o \in held
    /\ held' = held \ {o}
    /\ UNCHANGED <<mem, running, cur, reg, top, self, cb, dref, decoder, hnd, loopHeap, connHeap,
                   misuse, ended>>

Keep(c) ==
    /\ ScriptRuns /\ running /\ c \notin held
    /\ hnd[c] = "open" \/ cur = c
    /\ held' = held \cup {c}
    /\ UNCHANGED <<mem, running, cur, reg, top, self, cb, dref, decoder, hnd, loopHeap, connHeap,
                   misuse, ended>>

\* onconnclose has unreferenced the connection and its decoder.
Forgotten(c) == hnd[c] = "closed" /\ cur # c

\* conn:set_decoder(d): the reference to the decoder of before is given up.  On a
\* connection that is already forgotten it has been given up before.
SetDecoder(c, d) ==
    /\ ScriptRuns /\ c \in held
    /\ Forgotten(c) => "late decoder" \in Script
    /\ \E q \in Refs(Unref(Registry, dref[c]), d) :
        /\ RegistryIs(q.after)
        /\ dref' = [dref EXCEPT ![c] = q.slot]
    /\ decoder' = [decoder EXCEPT ![c] = d]
    /\ misuse' = IF Forgotten(c) THEN misuse \cup {"late decoder"} ELSE misuse
    /\ UNCHANGED <<mem, held, running, cur, self, cb, hnd, loopHeap, connHeap, ended>>

-----------------------------------------------------------------------------
(* tcpserver.c: what libuv calls *)

LoopRuns == running /\ cur = None /\ ended = "no"

\* lua_tcpserver_onconnection: a new userdata, anchored; served, or closed at once.
Accept(s, c, served) ==
    /\ LoopRuns /\ hnd[s] = "open" /\ Fresh(c)
    /\ \E q \in Refs(Registry, c) :
        /\ RegistryIs(q.after)
        /\ self' = [self EXCEPT ![c] = q.slot]
    /\ mem' = [mem EXCEPT ![c] = "live"]
    /\ dref' = [dref EXCEPT ![c] = NoRef]
    /\ decoder' = [decoder EXCEPT ![c] = None]
    /\ hnd' = [hnd EXCEPT ![c] = IF served THEN "open" ELSE "closing"]
    /\ connHeap' = IF served THEN connHeap \cup {c} ELSE connHeap
    /\ UNCHANGED <<held, running, cur, cb, loopHeap, misuse, ended>>

\* The idle timer takes a connection out of the heap, data puts it back.
IdleKick(c) ==
    /\ LoopRuns /\ c \in connHeap
    /\ connHeap' = connHeap \ {c}
    /\ UNCHANGED <<mem, held, running, cur, reg, top, self, cb, dref, decoder, hnd, loopHeap,
                   misuse, ended>>

HeardFrom(c) ==
    /\ LoopRuns /\ hnd[c] = "open" /\ c \notin connHeap
    /\ connHeap' = connHeap \cup {c}
    /\ UNCHANGED <<mem, held, running, cur, reg, top, self, cb, dref, decoder, hnd, loopHeap,
                   misuse, ended>>

\* Mutant: the anchor goes when the handle is closed, not when the close is done.
CloseConnForgets(c) ==
    /\ LoopRuns /\ hnd[c] = "open"
    /\ hnd' = [hnd EXCEPT ![c] = "closing"]
    /\ RegistryIs(Unref(Registry, self[c]))
    /\ UNCHANGED <<mem, held, running, cur, self, cb, dref, decoder, loopHeap, connHeap, misuse,
                   ended>>

\* uv_conn_shutdown_cb
CloseConn(c) ==
    /\ LoopRuns /\ hnd[c] = "open"
    /\ hnd' = [hnd EXCEPT ![c] = "closing"]
    /\ UNCHANGED <<mem, held, running, cur, reg, top, self, cb, dref, decoder, loopHeap, connHeap,
                   misuse, ended>>

\* Mutant: every handle's close callback is the connections'.
FinishCloseCallsBack(o) ==
    /\ LoopRuns /\ hnd[o] = "closing"
    /\ hnd' = [hnd EXCEPT ![o] = "closed"]
    /\ cur' = o
    /\ UNCHANGED <<mem, held, running, reg, top, self, cb, dref, decoder, loopHeap, connHeap,
                   misuse, ended>>

\* uv__finish_close; a connection's close callback starts and calls onclose.
FinishClose(o) ==
    /\ LoopRuns /\ hnd[o] = "closing"
    /\ hnd' = [hnd EXCEPT ![o] = "closed"]
    /\ cur' = IF o \in Conns THEN o ELSE None
    /\ UNCHANGED <<mem, held, running, reg, top, self, cb, dref, decoder, loopHeap, connHeap,
                   misuse, ended>>

\* Mutants: the connection's own slot is unreferenced twice; it stays in the heap.
UnrefsTwice ==
    /\ cur \in Conns /\ ended = "no"
    /\ connHeap' = connHeap \ {cur} /\ RegistryIs(Unref(Unref(Registry, self[cur]), self[cur]))
    /\ cur' = None
    /\ UNCHANGED <<mem, held, running, self, cb, dref, decoder, hnd, loopHeap, misuse, ended>>
StaysInHeap ==
    /\ cur \in Conns /\ ended = "no"
    /\ RegistryIs(Unref(Unref(Registry, self[cur]), dref[cur])) /\ cur' = None
    /\ UNCHANGED <<mem, held, running, self, cb, dref, decoder, hnd, loopHeap, connHeap, misuse, ended>>

\* uv_tcpserver_onconnclose, after onclose: decoder_ref is not reset.
OnConnCloseReturns ==
    /\ cur \in Conns /\ ended = "no"
    /\ connHeap' = connHeap \ {cur}
    /\ RegistryIs(Unref(Unref(Registry, self[cur]), dref[cur]))
    /\ cur' = None
    /\ UNCHANGED <<mem, held, running, self, cb, dref, decoder, hnd, loopHeap, misuse, ended>>

-----------------------------------------------------------------------------
(* The collector and the end of the Lua state *)

\* The first of the loop's heap has the smallest ev_timeout, which is its reference.
FirstOf(heap) == {o \in heap : \A x \in heap : self[o] <= self[x]}

\* The loop's __gc: the first pass of its loop empties the heap, so there is no second.
FinalizeLoop ==
    /\ ended = "no" /\ mem[Loop] = "live" /\ ~Anchored(Loop)
    /\ \/ /\ loopHeap = {}
          /\ UNCHANGED <<reg, top>>
       \/ \E o \in FirstOf(loopHeap) : RegistryIs(Unref(Registry, self[o]))
    /\ loopHeap' = {}
    /\ mem' = [mem EXCEPT ![Loop] = "final"]
    /\ UNCHANGED <<held, running, cur, self, cb, dref, decoder, hnd, connHeap, misuse, ended>>

\* The server's __gc; its connections are closed only by the end of the state,
\* as no connection outlives uv_run and uv_run outlives no server.
FinalizeServer(s) ==
    /\ ended = "no" /\ mem[s] = "live" /\ ~Anchored(s) /\ self[s] # NoRef
    /\ mem' = [mem EXCEPT ![s] = "final"]
    /\ UNCHANGED <<held, running, cur, reg, top, self, cb, dref, decoder, hnd, loopHeap, connHeap,
                   misuse, ended>>

\* Userdata that nothing anchors and that has no __gc to run first is freed.
Collect(o) ==
    /\ ended = "no" /\ ~Anchored(o)
    /\ \/ mem[o] = "final"
       \/ mem[o] = "live" /\ (o \in Timers \cup Conns \/ (o \in Servers /\ self[o] = NoRef))
    /\ mem' = [mem EXCEPT ![o] = "none"]
    /\ IF o \in Objects /\ hnd[o] = "closed" THEN hnd' = [hnd EXCEPT ![o] = "none"] /\ self' = [self EXCEPT ![o] = NoRef]
       ELSE UNCHANGED <<hnd, self>>
    /\ cb' = [x \in DOMAIN cb |-> IF x = o THEN NoRef ELSE cb[x]]
    /\ dref' = [c \in Conns |-> IF c = o THEN NoRef ELSE dref[c]]
    /\ decoder' = [c \in Conns |-> IF c = o THEN None ELSE decoder[c]]
    /\ UNCHANGED <<held, running, cur, reg, top, loopHeap, connHeap, misuse, ended>>

\* lua_close, at the end of the script or by os.exit in it: the servers' __gc run
\* before the loop's, which was made first, and everything is freed.  uv_close
\* asserts that no connection in their heap is closing or closed.
CloseState ==
    /\ ended = "no"
    /\ ended' = IF \E c \in connHeap : hnd[c] # "open" THEN "aborted" ELSE "clean"
    /\ mem' = [o \in Userdata |-> "none"] /\ held' = {} /\ running' = FALSE /\ cur' = None
    /\ reg' = [n \in 0..MaxSlots |-> NoRef] /\ top' = 0
    /\ self' = [o \in Objects |-> NoRef] /\ hnd' = [o \in Objects |-> "none"]
    /\ cb' = [o \in Servers \cup Timers |-> NoRef] /\ dref' = [c \in Conns |-> NoRef]
    /\ decoder' = [c \in Conns |-> None]
    /\ loopHeap' = {} /\ connHeap' = {} /\ UNCHANGED misuse

-----------------------------------------------------------------------------
ScriptStep ==
    \/ CreateLoop \/ Run
    \/ \E s \in Servers, given \in BOOLEAN : CreateServer(s, given) \/ CreateServerFails(s, given)
    \/ \E t \in Timers, given \in BOOLEAN : CreateTimer(t, given)
    \/ \E o \in Userdata : Drop(o)
    \/ \E c \in Conns : Keep(c) \/ \E d \in Decoders : SetDecoder(c, d)

LoopStep ==
    \/ RunReturns \/ OnConnCloseReturns
    \/ \E s \in Servers, c \in Conns, served \in BOOLEAN : Accept(s, c, served)
    \/ \E c \in Conns : IdleKick(c) \/ HeardFrom(c) \/ CloseConn(c)
    \/ \E o \in Servers \cup Conns : FinishClose(o)

CollectorStep ==
    \/ FinalizeLoop \/ CloseState
    \/ \E s \in Servers : FinalizeServer(s)
    \/ \E o \in Userdata : Collect(o)

Next == ScriptStep \/ LoopStep \/ CollectorStep

ObjSpec == Init /\ [][Next]_objVars
-----------------------------------------------------------------------------
(* Properties *)

TypeOK ==
    /\ mem \in [Userdata -> {"none", "live", "final"}]
    /\ held \subseteq Userdata
    /\ running \in BOOLEAN /\ cur \in Conns \cup {None}
    /\ reg \in [0..MaxSlots -> Values \cup 0..MaxSlots] /\ top \in 0..MaxSlots
    /\ self \in [Objects -> 0..MaxSlots]
    /\ cb \in [Servers \cup Timers -> 0..MaxSlots]
    /\ dref \in [Conns -> 0..MaxSlots]
    /\ decoder \in [Conns -> Decoders \cup {None}]
    /\ hnd \in [Objects -> {"none", "open", "closing", "closed"}]
    /\ loopHeap \subseteq Servers \cup Timers /\ connHeap \subseteq Conns
    /\ misuse \subseteq {"late decoder", "failed create"}
    /\ ended \in {"no", "clean", "aborted"}

\* c is anchored: from its acceptance until onconnclose has unreferenced it.
Linked(c) == hnd[c] \in {"open", "closing"} \/ (hnd[c] = "closed" /\ cur = c)

\* What a handler is given as its connection, registry[conn->ref], is the connection
\* the event is about.
HandlersGetTheirConn == \A c \in Conns : Linked(c) => reg[self[c]] = c

\* Every reference C holds names what was put there: of a connection it still knows
\* the connection itself and the decoder that was given last, of a server or timer of
\* a live loop the object and its callback.  A script that gives a decoder to a
\* connection it has been told is closed breaks this, as decoder_ref is not reset.
RefsHold ==
    /\ HandlersGetTheirConn
    /\ \A c \in Conns : Linked(c) =>
        IF decoder[c] = None THEN dref[c] = NoRef ELSE reg[dref[c]] = decoder[c]
    /\ \A o \in loopHeap : reg[self[o]] = o /\ (cb[o] # NoRef => reg[cb[o]] = Func)

\* Memory that libuv links is not freed: while its loop lives, the userdata of an open
\* or closing handle is there, unless create_server failed on it and told nobody.
LinkedMemoryIsAlive ==
    mem[Loop] = "live" =>
        \A o \in Objects : hnd[o] \in {"open", "closing"} /\ self[o] # NoRef => mem[o] = "live"

\* The list head and the slots of a registry R that hold no value, but the next of them.
\* The list does not branch, ends at its head, and no part of it runs in a circle.
FreeIn(R) == {n \in 0..R.top : R.reg[n] \in 0..MaxSlots}
NoCircle(R) ==
    \A part \in SUBSET (FreeIn(R) \ {0}) : part # {} => \E n \in part : R.reg[n] \notin part
ListIntact(R) ==
    /\ 0 \in FreeIn(R)
    /\ \A n \in FreeIn(R) : R.reg[n] \in FreeIn(R)
    /\ \A m, n \in FreeIn(R) : R.reg[m] = R.reg[n] => m = n
    /\ \A n \in 0..MaxSlots : n > R.top => R.reg[n] = NoRef
    /\ NoCircle(R)

\* Slots of the registry that hold no value, and the fields that name a slot.
FreeSlots == FreeIn(Registry) \ {0}
UsedSlots ==
    {self[o] : o \in loopHeap} \cup {cb[o] : o \in loopHeap}
        \cup UNION {{self[c], dref[c]} : c \in {x \in Conns : Linked(x)}}

\* Until a create_server fails, a server or timer that was made keeps its reference, so
\* there is no second loop after one with any; and what a slot holds while the loop
\* lives, a field of a known object names.
SlotsNamed ==
    misuse = {} =>
        /\ \A o \in Servers \cup Timers : hnd[o] # "none" => hnd[o] = "open" /\ self[o] # NoRef
        /\ (\A o \in Servers \cup Timers : hnd[o] = "none") => \A n \in Slots : reg[n] \notin Values
        /\ mem[Loop] = "live" => \A n \in Slots : reg[n] \in Values => n \in UsedSlots

\* The inductive invariant behind RefsHold and the others: the list is intact, no two
\* connections share the slot of a decoder, what is referenced is alive, objects are
\* forgotten before their userdata can be reused, and no slot is lost.
ObjInv ==
    /\ TypeOK
    /\ ListIntact(Registry)
    /\ RefsHold
    /\ \A b, c \in Conns : Linked(b) /\ Linked(c) /\ decoder[b] # None /\ decoder[c] # None /\ b # c
            => dref[b] # dref[c]
    /\ \A o \in loopHeap : mem[o] = "live"
    /\ \A c \in Conns : Linked(c) => mem[c] = "live"
    /\ \A c \in connHeap : Linked(c)
    /\ \A c \in Conns : c \in held => hnd[c] # "none"
    /\ cur # None => hnd[cur] = "closed"
    /\ \A o \in Objects : hnd[o] = "none" => self[o] = NoRef
    /\ mem[Loop] = "live" =>
        \A o \in Servers \cup Timers : hnd[o] \in {"open", "closing"} /\ self[o] # NoRef => o \in loopHeap
    /\ SlotsNamed

\* The free list runs through all slots without a value, once each; and while the loop
\* lives and no create_server has failed, no slot is lost: one that no field of a
\* known object names is on the list.
RegistryIsAccounted ==
    /\ reg[0] \in FreeSlots \cup {NoRef}
    /\ \A n \in FreeSlots : reg[n] \in FreeSlots \cup {NoRef}
    /\ \A n \in FreeSlots : n = reg[0] \/ Cardinality({m \in FreeSlots : reg[m] = n}) = 1
    /\ FreeSlots # {} => Cardinality({n \in FreeSlots : reg[n] = NoRef}) = 1
    /\ misuse = {} /\ mem[Loop] = "live" => 1..top = FreeSlots \cup (UsedSlots \ {NoRef})

\* At the end of the Lua state the servers' __gc close every connection once, unless
\* the script ends it in a handler while one of them is being closed: a connection
\* leaves the heap before the next handler could run.
OnlyMidCloseAborts ==
    [][ended' = "aborted" => \E c \in Conns : hnd[c] = "closing" \/ cur = c]_objVars

=============================================================================
