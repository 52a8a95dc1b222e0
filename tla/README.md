# A TLA+ model of libuv-lua

libuv-lua (`src/libuv-lua`) lets a Lua script run a TCP server on libuv. This
directory holds TLA+ modules that model it, TLC configurations that check them
on small instances, and theorems about them that TLAPS checks for every instance.

All paths below are relative to `src/`; `T` is `libuv-lua/src/tcpserver.c`.

## 1. The system

One operating-system thread runs a Lua state. The script makes a loop, servers
and timers, and calls `loop:run()`, which is `uv_run`: from then on everything
happens in callbacks of libuv, and the script runs only inside its handlers.

| part | state | operations |
|---|---|---|
| TCP server (`T`) | `uv_tcpserver_t`: listening stream, idle heap, `idle_timeout`, repeating timer, registry references of `onconn`, `ondata`, `onclose` and of itself | `lua_tcpserver_onconnection`, `uv_tcpserver_ontimer`, `set_timeout`, `__gc` |
| TCP connection (`T`) | `uv_tcpconn_t`, a Lua userdata: stream, shutdown request, heap node with `ev_timeout`, `ref` (its anchor in the registry), `decoder_ref` | `uv_tcpserver_onread`, `echo`, `set_decoder`, `uv_conn_shutdown_cb`, `uv_tcpserver_onconnclose`, `uv_tcpconn_after_sendmem` |
| idle heap (`minheap.c`) | array of node pointers, each node knows its index | push, pop, erase, adjust |
| decoder (`lua-decoder.c`) | kept bytes, offset into them, state, announced size | `lua_default_decoder`, `lua_defparser_push` |
| value format (`lua-decoder.c`) | none | `pack`, `unpack`, 29-bit lengths |
| growable buffer (`automem.c`) | data, size, buffer size | append, alloc, erase, attach, detach |
| Lua timer (`timer.c`) | libuv timer, references of callback and self | start, stop, interval, callback |
| Lua objects (`uvlua.c`) | loop userdata with a heap of what it anchors | `loop`, `create_server`, `create_timer`, `run`, `__gc` |
| libuv (`libuv/src/unix`), Lua (`lua/`) | vendored | loop phases, streams, timers; registry, collector |

How they interact: libuv calls the server's callbacks in the phases of an
iteration (timers, pending, poll, closing). The callbacks call Lua handlers,
which call back into the server (`echo`, `set_timeout`, `set_decoder`) on any
connection the script holds, not only the one the handler is about. A connection
is userdata that C reaches through the heap, the loop's queues and libuv's
handles, while only the registry reference `ref` keeps the collector away.

What is hard: the same connection is reached by the reader, the writer, the idle
timer and other connections' handlers; a close takes several steps (shutdown
request, drained queue, close callback) during which all the others go on;
peers send, half-close, reset or stop reading at any time; a write may be cut in
pieces or fail; a short or an empty read means different things.

What makes each part correct:

* server and connections: the lifecycle a script sees; no pointer to collected
  userdata; libuv's assertions; nothing queued is lost by a close; every owed
  callback has a wakeup; a served connection is watched; only silent connections
  are kicked and every silent one is; every buffer has an owner and is freed;
* idle heap: its first element is a smallest one, it holds what was pushed, and
  every node knows its place;
* decoder: what arrives in any pieces is delivered as the packets that were sent;
* value format: unpack after pack gives back the values;
* growable buffer: the appended bytes fit and stay;
* Lua timers: a started timer fires, a stopped one does not;
* Lua objects: what C still points at is anchored, what is dropped is closed.

## 2. Modules

| module | models |
|---|---|
| `TcpServer` | the server and its connections on libuv's loop and streams |
| `ConnLifecycle` | the abstract promise to the script about its handlers |
| `ServerLifecycle` | the refinement mapping from `TcpServer` to `ConnLifecycle` |
| `LuaObjects` | loops, servers, timers, connections and decoders as userdata; the registry's slots; collection and the end of the state |
| `IdleSet` | what the idle timer needs of a heap: a set from which a longest-waiting node is taken |
| `MinHeap` | the array heap of `minheap.c` that implements it |
| `TimerQueue` | what a loop's timers promise: who fires, and when |
| `TimerHeap` | libuv's pointer heap (`heap-inl.h`), as functions |
| `Timers` | `timer.c` on libuv's timers, the loop's clock and its poll timeout |
| `Decoder` | the framing of `lua-decoder.c` on segmented input |
| `DefLength` | the 29-bit length of `lua-decoder.c`, byte by byte |
| `Serial` | the value format: what of a value stands in a packed string, and what unpack makes of it |
| `AutoMem` | the growable buffer |
| `Packing` | pack's loops over an `AutoMem` buffer and unpack's calls on a Lua stack |
| `MCTcpServer`, `MCLuaObjects`, `MCMinHeap`, `MCTimers`, `MCDecoder`, `MCPacking` | symmetry, and the small inputs of the runs |
| `TcpServerProofs` | theorems about `TcpServer` and its refinement of `ConnLifecycle` |
| `LuaObjectsProofs`, `MinHeapProofs`, `DecoderProofs`, `AutoMemProofs`, `TimerHeapProofs`, `TimersProofs` | theorems about the module each is named after |
| `PackingProofs` | theorems about `Packing`, and those about lengths and values it rests on |

### TcpServer

`Conns` are slots for connection userdata, reused after collection, so runs go
on for ever with finitely many connections alive. The state:

* `pc`, `cur`, `evs`, `partial`, `count`: where the thread is: a phase of `uv_run`
  (`pending`, `events`, `closing`), a callback of an event (`accept`, `read`,
  `write`), or the name of the Lua handler that runs; the connection it is about;
  the events, read budget and READ_PARTIAL flag of the `uv__stream_io` call.
* `ready`, `srvReady`: events epoll has returned and not dispatched; `pending`:
  fed watchers; `closing`: handles waiting for their close callback.
* `handlers`: what the three handler fields hold. `create_server` does not
  initialise a field whose argument is no function, so it may read as LUA_NOREF
  or as any other number.
* `idle`, `timer`, `heap`: `idle_timeout`, the libuv timer, the members of the heap.
* `hnd`, `ref`, `age`: the handle's state, the registry anchor, and the
  time since `ev_timeout`. `silent` is history: time since data last arrived.
* `reading`, `pollout`, `shutting`: the watcher's events, a pending shutdown.
* `wq`, `split`, `wdone`, `werr`: write requests queued (the first one partly
  sent), written and failed, the latter two until their callbacks have run.
* `echoes` counts echo calls up to a bound; `lost` counts buffers nothing owns.
* `peer`, `avail`, `full`: the other end, unread data, no room to send.

Every action is one call from libuv into the server, or the part of one up to
the point where a Lua handler starts or returns. A running handler may do any
number of `Echo` and `SetTimeout` steps before it returns. The environment
(`Connect`, `Send`, `Leave`, `Drain`, `Tick`, `TimerDue`, `Collect`) acts at any
time. Abstracted: bytes to units; the order inside the pending queue and the list
of closing handles (their callbacks commute); errors that only follow from
memory or descriptors running out; the event order of one poll (any).

### ConnLifecycle

At most one handler runs at a time. Per connection: offered to onconn, then serving
or refused, data while it serves, then ended, and then told to onclose exactly
once; also for a refused connection. Under its fairness handlers return and an
ended connection is reported. `ServerLifecycle` instantiates it with a mapping from
`hnd`, `ref` and `pc`; `LifecycleOrder` is its safety part and `LifecycleKept` the
whole abstract specification, liveness included. A connection nobody was asked about may be
served or refused (`RefuseUnasked`): the code means to serve it when there is no `onconn`
(`T:253`), but `create_server` leaves that field uninitialised (`uvlua.c:75`), and then the
refusal is what may happen. The lifecycle allows that and so says nothing against it.

### LuaObjects

`mem` is what a userdata's memory is (none, live, or finalised), `held` what the
script's variables reach, `hnd` the libuv handle in it. The registry is modelled as
`luaL_ref` and `luaL_unref` keep it: `reg` maps a slot to a Lua value or to the next
free slot, slot 0 is the head of the list, `top` the border. `self`, `cb` and `dref`
are the fields `ref`, the handlers' or the timer's callback reference, and
`decoder_ref`. A freed slot is the next one handed out, so a reference given up twice
shows as two owners of one slot. Actions are the calls of the script (`CreateLoop`,
`CreateServer` and its failure, `CreateTimer`, `Run`, `SetDecoder`), those of libuv
(`Accept`, `CloseConn`, `FinishClose`, `OnConnCloseReturns`), the script's own
assignments (`Drop`, `Keep`), and the collector's (`FinalizeLoop`, `FinalizeServer`,
`Collect`, `CloseState`). What `TcpServer` knows of a connection in between is
abstracted to open and closing; `TcpServer` in turn has one bit `ref` for the
anchor. `Script` says what scripts may run into, and `misuse` records that they
did: a create_server that fails loses the handlers' references and the anchor
of a handle that is still closing, and a decoder given to a connection after its
onclose (`late decoder`) frees a slot that belongs to another by then. The loop's
`__gc` gives up the reference of one object of its heap only, as it empties the heap
inside the loop over it (`uvlua.c:142`); `RegistryIsAccounted` therefore ends
with the loop.

### Timers, TimerHeap and TimerQueue

Times are relative to the loop's clock (`due`), and `lag` is how far the wall clock
is ahead of it, so that the loop may run for ever in finitely many states; `line` is
the order of `start_id`. `RunTimer` is one pass of the loop in `uv__run_timers` up to
the callback, in which, as in any handler, the script may create, stop, start or change
any timer, or make a server; `TimersRun` is the end of that loop. `closing` says that
`loop->closing_handles` is not empty: a server that cannot listen is closed by
`create_server`, in whatever handler, and connections are closed in the pending phase
(`RunPending`) and in the poll (`PollHasEvent`), which is all `Timers` keeps of them. It keeps the
loop alive and makes `uv_backend_timeout` zero. The server's own timer is in libuv's heap
too, but is the subject of `TcpServer`; here it may make the poll shorter (`own`) and close a
connection. A poll ends by its timeout, late, or early with events of the server, after which
`RunClosing` runs the close callbacks, an `onclose` of the script among them; what that
closes waits for the next iteration. `TimerHeap` is the tree of `heap-inl.h` with its
three pointers per node: insertion by the path of bits, removal by replacing the node with
the last one, and the walks with `heap_node_swap`. A walk is a function from the number of
passes to the heap after so many, up to `nelts`: each pass moves the node one row, and
one that moves it no more changes nothing. `less_than` comes as sets, `before[b]` those
earlier than `b`; `Before` is `timer_less_than`. `TimersFireInOrder` maps all this to
`TimerQueue`, which knows no tree: in a pass the timers that are due fire, the
longest due first and those due alike in the order they were started, none twice.

### DefLength, Serial, AutoMem and Packing

`DefLength` writes a length in one to four bytes of seven bits (eight in the last) and reads it
back as the code does, by shifting and extending the sign. `Serial` says what stands in a
packed string: a row of marks, one for a scalar, one for the beginning of a table and `End` for
its end. A mark knows how many bytes it takes (`Bytes`), in which pieces they are appended
(`Appends`), and for how many unpack takes them (`Used`), which is not the same for a long
string. The text of a string is its length. Numbers are counted in halves so that some have a
fraction, and the limits of `int`, `unsigned` and `int64_t` are constants in the same order as
the real ones.

`AutoMem` has `size`, `buffersize` and `block`, the memory that is really there,
modulo `M`; `asked` and `newsize` are the locals of `automem_ensure_newspace`, whose
doubling loop is one step per iteration. `broken` records which rule of the buffer a user has
broken: attaching without room, adding to memory that `automem_init_by_ptr` took over (it
leaves `buffersize` unset), or asking for so much that doubling wraps to zero (see section 3).

`Packing` walks as the code does. `writer` is where pack is: the argument, and a loop for every
table it is in (`loops`: the table's pairs, those done, the one `lua_next` gave last, key or
value). `lua_next` may give the pairs in any order. `PackArg`, `PackKey`, `PackValue`,
`PackTableEnds` and `PackArgsEnd` each begin a mark, `marks[o]` at the offset `o` the buffer
has then, and `PackAppends` appends its pieces, for each of which the buffer may have to
grow. A function or userdata raises the error of `lua_def_serialone`, and the buffer stays
behind. `PackEnds` writes the size in front. A buffer that overflowed on the way is `spoilt`.
unpack has an offset (`at`), its Lua stack (`stack`) and for every `lua_pushtable` it is in
whether a key or a value is next (`calls`): `ReadScalar`, `ReadTable`, `ReadTableEnd` and
`UnpackEnds` are the ways out of `lua_pushdata`, and `Returns` is what its caller does then,
`lua_settable(L, -3)` with whatever lies there included. Instead of pack, others may use
the buffer in any way (`OtherUse`).

### MinHeap and IdleSet

`TcpServer` uses the heap as a set with ages; `MinHeap` is the array. `p`, `n`
and `a` are `minheap_t`; `idx` and `ev` are the two fields of every node. All
four operations put one node `e` into a hole, so each is a first action (`Push`,
`Adjust`, `Pop`, `Erase`) that opens the hole, and then `ShiftUp` or `ShiftDown`
once per iteration of the loop that runs (`pc`), and `Place` at its end. `lift` is
`shift_up_unconditional`, whose first iteration tests nothing. `out` is the node
whose `minheap_idx` becomes -1 at the end of a pop or erase. `p` is defined on the
used slots only, so a read behind them would be an error of the run.

`IdleSet` has `Touch`, `TakeOldest` and `Drop`. `IdleSetKept` maps the heap to it
with `Members`, the nodes that will be in the heap once the running operation has
ended: each first action is a step of `IdleSet`, all other steps stutter.

### Decoder

One delivery of the network is one call of `lua_default_decoder` (`Deliver`), which
calls `lua_defparser_push` (`pc = "push"`) while bytes are left; the inner loop
over values is `pc = "parse"`. `mem`, `off`, `st` and `size` are `luadecoder_t`. The
peer is correct: it sends whole packets as `pack` makes them. How TCP cuts the
stream is the environment's choice; `CutAt` says where deliveries may end. The
history `cuts` and `crossed` records what it chose, since most of what one would
expect of the decoder holds only for kind cuts, and the properties say for which:
`ValuesOnce` if every delivery ends with a packet (one that ends behind the next
length drops the values before it, `lua-decoder.c:388`), `OneCallPerPacket` if none
holds parts of two packets (they become one call, 384) and each ends with a packet
or with its length, `WholeCallsReturn` if each ends so. Values are nil and the
booleans, the smallest ones; bytes are numbers, since a decoder that is out of
step takes lengths for values. A pass with fewer bytes than the length asks for
(`Spin`) changes nothing, as in the code.

## 3. Runs

| run | instance | what it shows |
|---|---|---|
| `conn_pair` | 2 connections (symmetric), echo to each other | the inductive invariant and the safety properties it implies; `LifecycleOrder` |
| `conn_script` | 1 connection, only `ondata` given, set_timeout in handlers | the uninitialised handler fields; stopping and starting the timer; `LifecycleKept` with its liveness |
| `conn_live` | 1 connection, timeout 0 or 1, 2 echoes, peers that read | the timer kicks only silent connections; closed ends, idle connections and buffers are dealt with in the end |
| `objects` | 1 loop, server, timer; 2 connections (symmetric), 2 decoders (symmetric); 5 slots; create_server may fail | `ObjInv`, every reference names its object, linked memory stays, no slot is lost or free twice, when `lua_close` aborts |
| `heap_order` | 6 nodes (symmetric), 3 times | `HeapInv`, the order, the indices, the end of the loops, `IdleSetKept` |
| `timers` | 3 timers, 2 intervals, servers made or failing to listen in any handler, connections that close; all heaps of up to 6 nodes | the tree stays a heap, timers fire in order, polls wait neither past a timer nor for handles to close, active timers fire for ever |
| `pack` | all kinds of values around every limit, tables of up to 3 pairs in any order, nested ones; 3 uses of the buffer by others | a packed string is whole, what unpack gives back, the buffer's rules |
| `decoder_any` | up to 2 packets, cut anywhere | the kept bytes are the latest that came; with kind cuts every value is passed on once, a packet is a call, calls return |

Bounds. `BufSize` 1 or 2 with `MaxAvail` up to 2 gives reads that fill the
buffer exactly, short reads, and reads that need a second call; `ReadBudget` 1
lets the budget run out at once and 2 after a second read. One echo per connection
suffices for a queued, a partly written and a failed request; `conn_live` adds a second
behind the first. Ages saturate one above the largest timeout, which no comparison can
tell from later. Two connections are enough for handlers acting on another connection
and for one poll with several events. Six nodes give a heap of three levels in which the
last element can be earlier than the parent of an erased one, so that an erase
moves it up; with `FirstCap` 2 the allocation grows twice. Six is also the smallest
libuv tree in which a removal must walk up; `HeapAlgorithmsAreRight` looks at every
heap of up to six, while the running timers of the same run are three, enough for two due
alike and one between them. `MaxLag` 2 with intervals 1 and 3 and an `INT_MAX` of 2 gives
timers that are overdue by more than their interval and polls that are cut short. In
`objects` five slots hold a server with its callback, two connections and a decoder, or a
server, a timer and their callbacks, so slots pass from one kind of object to another, and
`uv_close`'s assertion can be reached; a script that would need a sixth slot at once is cut
off there, and `LuaObjectsProofs` needs no bound. `pack` has lengths around
every step of the encoding up to 2^29 and the one that makes a payload of exactly 2^24
bytes, and tables of up to three pairs nested up to three deep. TLC's own
integers have 32 bits, so `M` is 1.5 * 2^30 instead of 2^32; three strings of
2^28 - 1 bytes then ask for more than half of it, and the doubling wraps. `PackingProofs` needs
none of these bounds. Packets of `Decoder` have 0, 1 or 3 values, hence lengths of 1, 2 and 6, below
and above the four bytes of a length: a length read as values, or the four bytes counted
as data, then matter. Deadlock is not checked where the system may stop: a peer that has
sent everything sends no more (`Decoder`), a Lua state ends (`LuaObjects`), a script packs
once (`Packing`).

Fairness. `WF(LoopStep)`: the one thread does not stop between callbacks.
`WF(LuaReturns)`: handlers return (a script that loops for ever stops
everything). `WF(Tick)`, `WF(TimerDue)`: both clocks advance. Nothing is assumed of
peers, except in `DrainSpec`, where a peer goes on reading. `Decoder`
assumes only that a call that runs goes on running (`WF(DecStep)`). `Timers` assumes that
while `uv_run` is alive the thread goes on, callbacks returning, and that the clock
advances: not every poll is ended at once by an event. It is strong fairness, since between
two polls no poll step is enabled. `MinHeap`, `LuaObjects` and `Packing` state no
fairness: their properties need none.

Runs that refute what the repository says (each is a finding in `PROJECT.json`):

| run | said | what happens |
|---|---|---|
| `full_read` | libuv, for nread = 0: "Wait for the next one." | after a read that exactly fills the buffer the connection is shut down (`T:210`) |
| `broadcast` | `T:100`: the request carries the data to be freed | echo to a closing connection loses buffer and request (`T:101`) |
| `late_decoder` | `T:195`: `registry[conn->ref]` is the current connection | set_decoder after onclose frees a slot twice; the decoder then takes the place of another connection (`T:120`) |
| `decoder_hang` | `lua-decoder.h:18`: incomplete data is kept | a delivery that ends inside a packet loops for ever (338) |

Three more disagreements show with a change of a configuration:

* `tcpserver.h:25` says that the idle timeout disconnects after no activity. With
  `LuaTimeouts = {1}` `conn_live` violates `TimerKicksOnlySilent`: a set_timeout in a handler
  kicks an active connection, as `ev_timeout` is not kept while there is no timeout (`T:168`).
* `server.lua:42` says that idle clients are kicked automatically. With `SPECIFICATION Spec`
  instead of `DrainSpec` `conn_live` violates `IdleConnsAreClosed`: with a peer that does not
  read, the shutdown never completes (`T:298`).
* `lua-decoder.c:409` says that what is parsed in `mem` needs only its offset saved. Used-up
  bytes keep their old offset and are parsed again (411): `ValuesOnce` without its condition on
  `cuts` is violated by `decoder_any`.

Other behaviour of the code that the models have, and no comment contradicts:

* unpack takes a payload of exactly 2^24 bytes for an empty one, as it reads the size in
  the machine's byte order (`lua-decoder.c:305`; the condition of `RoundTrip`);
* negative fractions are cut to integers, and NaN, infinities and integers outside
  `INT_MIN`..`UINT_MAX` push nothing (`lua-decoder.c:188`), so that inside a table keys
  and values change places; `LoneTableIsRightOrRefused` says when that is noticed;
* lengths from 2^28 on come back negative (`LongLengthsTurnNegative`);
* the doubling of the buffer wraps to zero when more than half of the range is asked for
  (`automem.c:53`): with an empty buffer it then never ends, otherwise `0 - size` is large
  enough to end it and the write goes outside the block; `automem_attach` asks for room as if nothing were
  in use (80), and `automem_init_by_ptr` leaves `buffersize` unset: `broken` guards the
  properties of `AutoMem` against each;
* a timer made with interval 0 can never be started, not even after `interval(n)`, as it
  has no callback (`timer.c:54`);
* an unsupported value raises an error out of pack past `automem_uninit`
  (`lua-decoder.c:276`).

## 4. Proofs

`TcpServerProofs` proves, for every set of connections and all values of the
constants that satisfy `ConfigAssumption`:

* `Invariance`: `Spec => []IInv`;
* from it `TypeCorrect`, `NoDanglingPointer`, `NoFailedAssertion`, `NoLostWakeup`,
  `NoZombie` and `GracefulClose`, one for each safety property of the runs.

The safety properties are not inductive alone. `IInv` is `TypeOK`, `ConnInv(c)`
for every connection and `CurInv` for the one whose callback runs. `ConnInv`
joins them per connection: a close is only ever reached through a drained queue,
so a closing handle has no writes; a queued or finished write of an open handle
has POLLOUT or a fed watcher, which `uv__write` re-establishes in each of its
outcomes; what is not open has nothing watched and no shutdown pending, so no
second close comes. `CurInv` says that the callback's connection is open
throughout a read, which fails for a program that closes streams inside `ondata`,
and that a connection in `onconn` is in no heap and owes nothing, which is why
refusing it with an immediate close loses nothing. The lemmas
`UvWriteResult`, `StreamOutType` and `StreamOutInv` state what one `uv__write`
and one POLLOUT callback do; `TypeStep`, `ConnStep` and `CurStep` have one step
per action.

`MinHeapProofs` proves, for every set of nodes, any integer times and any first
allocation: `HeapInvariance` (`HeapSpec => []HeapInv`), and from it `PointersAgree`,
`OrderKept`, `FirstIsOldest`, `LoopsEnd`, and `HeapImplementsIdleSet`, the refinement. While a loop
runs the array is a heap except at the hole. `OrderInv` says what then is
still true: what stands above the hole is not later than what stands below it, and
the node to be placed is out of order on one side only. That is the comment in
`minheap_erase` that the last element "can't need to shift both up and down", as
an invariant. `PointerInv` is the agreement of slots and indices outside the hole.
`FirstIsOldest` needs induction over indices; it is done with the least index
whose node is earlier than the first (`LeastNat`), whose parent contradicts it.
`LoopsEnd` is termination without fairness or `ENABLED`: every iteration takes the
hole strictly nearer to an end of the array.

`AutoMemProofs` proves, for every width of the integers and every set of lengths,
`MemInvariance`, the inductive invariant: `buffersize` is the size of the block and
the doubling under way can still reach what was asked for, unless a user broke a rule. From it
follow `WritesStayInside` and `DoublingEnds`.

`PackingProofs` proves everything the run `pack` checks, for any set of values, tables of any
size and nesting, any argument lists, and integers of any width (`WidthAssumption`,
`ModulusAssumption`) that has room for pack's first 20480 bytes (`BufferAssumption`):
`StringsAreWhole`, `PortableComesBack`, `TablesAreRightOrRefused`, `PackingStaysInside` and
`PackingDoubles`. Its only assumption on values, `ValuesAssumption`, is what Lua's tables are:
no nil in them and no key twice.

* Lengths: for all lengths below 2^28 reading gives back what was written and uses as many bytes
  (`LengthRoundTrip`), by one lemma for each number of bytes, and the limit is exact
  (`LongLengthsTurnNegative`). With it `ScalarRead` says what `lua_pushdata` makes of the mark
  of any scalar: a portable one is pushed as it was; one that is not cut is pushed, or nothing
  is, or an error is raised.
* One would like to say what a packed table is by recursion over the table, and that unpack
  inverts it; but that is an induction over data. Instead the invariant keeps the
  place in the walk: a packed string is right if at every mark there is a writer, a state
  of pack's loops, that writes this mark and then is the writer at the next (`Row`, `Writes`).
  These writers `W` are a history: no variable has them, so `PackingInv` says that they exist,
  and a step of pack adds one (`RowGrows`). A writer is `Good` if every loop is over the
  table that the loop around it is at.
* unpack is then compared with the writer of the mark it reads (`Follows`): as many calls
  of `lua_pushtable` as there were loops, each at the same side of a pair (`InStep`), and the
  stack is `Exact`: the values that are finished, and for each loop a table with exactly the
  pairs that are done, and its key while its value is read. Each kind of mark keeps that
  (`ScalarFollows`, `TableFollows`, `TableEndFollows`), and at the last `End` the
  stack has the arguments (`EndFollows`). The order in which `lua_next` gives the pairs does not
  matter, as what is compared is the set of those done.
* If a scalar is not portable, and pushes nothing, the stack is `Short` from there on: it has
  fewer values than it should, and `lua_settable` makes a pair of the wrong ones. Why is that
  noticed? Nothing that follows pushes more than it should, so the stack stays short; and each
  `lua_settable` needs a table three places down. In a table packed alone the innermost
  pairs may still be set in a table further out, but the last pair of the lone table itself would
  need one below it, and there only unpack's own argument lies, a string
  (`ShortReturns`). Behind another argument that is a table this fails, which is why
  `LoneTableIsRightOrRefused` is about one.

TLC cannot evaluate `PackingInv` (it would have to find `W`); what it checks on the run is what
the theorems draw from it.

`TcpServerProofs` further proves that `TcpServer` implements the safety part of `ConnLifecycle`
(`ServerImplementsLifecycle`). Besides `IInv` it needs `HandlersInv`: the handlers a script
gave are called, and no others, for ever, as nothing writes those fields again. Each action is
then one step of the lifecycle or a stutter: an accepted connection is offered
(`AcceptOffers`), onconn's return serves or refuses it, a read delivers, POLLOUT ends it or
changes nothing to see (`StreamOutEnds`), and the close callback reports it
(`FinishCloseTells`). That most steps stutter is one lemma (`SameStages`).

Its third part proves `TimerIsFair`, that the idle timer kicks only connections silent
for longer than the timeout, under `SetInTime`: a timeout is given before the loop runs, or
none ever is. `AgeInv` says why: while there is a timeout, `ev_timeout` follows the last
data. Without the assumption it is false (section 3).

`LuaObjectsProofs` proves `ObjInv`, and from it `RefsHold`, `LinkedMemoryIsAlive`,
`OnlyMidCloseAborts` and `RegistryIsAccounted`, for any number of servers, timers, connections, decoders and registry
slots, of scripts without `late decoder` (with it they are false: `late_decoder`). The
argument has two layers. `ListIntact` says that the registry's list of free slots never
branches and ends at its head; on such a list `luaL_ref` takes a slot that holds no value
(`RefGives`), `luaL_unref` of a slot that holds one keeps the list (`UnrefGives`), and both
leave every other value where it is (`Kept`). Above it, `ConnOK` and `HeapOK` say for
each known connection, and each member of the loop's heap, that its fields name what was put
there; as different values lie in different slots, giving up the slots of one object cannot
disturb another (`SlotsDiffer`). Only two connections with the same decoder could share a slot,
hence `NoneShares`. What a slot anchors is not collected (`KnownIsAnchored`), which closes the
circle: userdata is reused only once no field that counts names its slots.

`RegistryIsAccounted` needs two facts more. That the list does not branch leaves room for a
second list that runs in a circle, whose slots would never be handed out again; `NoCircle`
rules it out: no set of free slots is closed under "next". So some free slot has no next, and by
the pigeonhole principle there is one only, and every other is the next of exactly one
(`EachIsNextOfOne`). `SlotsNamed` says that a slot with a value is named by a field
of a known object, until a script misuses the registry or the loop is finalised; this is
where a forgotten `luaL_unref` would show (`NoSlotIsLost`, `NamedStep`).

`DecoderProofs` proves, for streams of any number of packets with any number of values,
that the decoder keeps the latest bytes (`DecoderKeepsLatest`), passes on every value once
(`DecoderPassesValuesOnce`) and calls `ondata` once per packet
(`DecoderCallsOncePerPacket`), each under its condition on where TCP cuts the stream. The
inductive invariant is `DecInv`. `NetOK`: what was delivered and what is still to come make up
the stream's bytes. `Kept`: the kept bytes are an end of what was delivered, whatever the
decoder made of them. `Tracked`, for kind cuts only: the decoder's position is the place on the wire
behind so many packets and so many values of the next, the values on the stack are those, and
the calls made are the packets before. That the bytes of a packet are found where they were put
is a fact about `FlattenSeq`, a recursive function over sequences of any length. The induction
theorems of the library cannot be used (they take an operator), so it is proved by induction
over sets of numbers, each with its least element (`LeastNat`, `UpToAll`, `FlattenStep`,
`UptoRest`). With them `PacketReads` and `ValueReads` say what the decoder sees at such a
place, and `DecInvStep` has one step per action. The case that takes thought is the delivery
that ends behind a length: the next call must go on in `DATASTART` with that length, and be
the packet's only call.

`TimerHeapProofs` proves libuv's heap right for trees of any size and every strict weak order
(`Ordering`): `InsertKeepsHeap`, `RemoveKeepsHeap`, and that `heap_min` is a first node
(`MinIsFirst`). Pointers are hard to reason about one by one, so a tree is described by its
layout, the array of its positions: `LaidOut(H, p)` says that the pointers of `H` put node
`p[i]` at position `i`. With it `SwapKeeps` says what the assignments of
`heap_node_swap` do, exchange two entries of that array; `NodeAtIs` that the path of bits leads to
position `i`; and `Unlinked` and `Replaced` do the same for the two halves of a removal,
also where the replaced node is the parent of the last. The rest is about arrays. While a
walk runs the tree is `Loose` at one position: in order but for the node there, whose
children are not earlier than its parent. A pass of a walk moves that position one row
(`StepUp`, `StepDown`), so that it ends within `nelts` passes (`WalkUpSorts`,
`WalkDownEnds`). Loose is what is left after the walk down of a removal, and why the walk up
that follows needs no second one down. `HeapIsHeap` leads back from layouts to the pointers:
`HeapAs`, a heap by its layout, implies `IsHeapOf`, which the runs check. That the walks and
the path are recursive functions costs a proof by least elements for each (`WalkUpIs`,
`WalkDownIs`, `NodeAtIs`).

`TimersProofs` proves, for any finite set of timers, all intervals and bounds, the invariants
of the run `timers` and `TimersImplementQueue`, the refinement of `TimerQueue`. The inductive
invariant is `TimersInv`. `QueueOK`: the line has no timer twice, a timer outside it
has no time left, and the heap is one of the timers in line, ordered by `Before`. That order
changes all the time, with every clock read and every start; but a heap cares only about
how its members compare (`HeapReordered`), a clock read moves all of them alike, and a
start or stop changes it for a timer that is not in the tree at that moment (`SameOrder`,
`StopIs`, `StartIs`), which is why the code must take a timer out before it touches its time.
`ScriptOK`: an active timer has a callback and an interval, so the one armed again in
`RunTimer` is due later. `FiredWait` is what that gives: a timer that has fired in this
pass is not due any more, whatever callbacks did, hence none fires twice. `NoneDue` carries
from the end of the pass to the poll that all timers left have time left; with it and
`UvBackendTimeout`, `RunPendingInv` gives `PollEndsInTime`, in three cases: a handle closes or
nothing is active, only a server is, or a timer is. `ClockOK` is the rest of the types. One lemma per action shows that it is kept, another which step of
`TimerQueue` it is: `FirstTimer` turns the node in `heap.min` into the timer that has waited
longest. The only assumption on the set of timers is that it is finite (`NodesAssumption`);
all a program has made are. `Fairness` plays no part.

Only model-checked: all liveness (`LifecycleKept`, `WholeCallsReturn`, `ActiveTimersFire`,
`IdleConnsAreClosed`, `BuffersAreFreed`, `GonePeersAreForgotten`), which rests on fairness and
`ENABLED`; and `HeapAlgorithmsAreRight`, which names the positions of small heaps one by one, for
TLC: `InsertKeepsHeap` and `RemoveKeepsHeap` say the same for all heaps.

## 5. Plan

1. done: `TcpServer`, `ConnLifecycle` and their runs; `TcpServerProofs`.
2. done: `IdleSet`, `MinHeap`, `MinHeapProofs`.
3. done: `Decoder` with proofs.
4. done: `DefLength`, `Serial`, `Packing` with proofs.
5. done: `AutoMem` with proofs.
6. done: `Timers` on `TimerHeap`, implementing `TimerQueue`, with proofs.
7. done: `LuaObjects` with proofs.
8. done: the safety part of the refinement, and `TimerKicksOnlySilent` for a timeout set in
   time, as theorems.
9. open: several loops in `LuaObjects`; the decoder `scripts/decoder/line.lua`; packets of all
   kinds of values in `Decoder`, which now has the marks of `Serial` to build on.

## 6. Not modelled

The program itself is 2 % of the repository's lines; the rest is vendored libuv and Lua, most of it
for other systems and for uses this program does not make of them. What the program uses of
libuv on Linux (loop, streams, timers, their heap) and of Lua (registry references, the end
of the state) is modelled; the rest of both is not, and would say nothing about this
program: Windows, libuv's other handles, the Lua compiler, virtual machine, libraries and the
inside of its collector. Of the program itself: the text of `tostring`, `ip` and the messages
that are printed; `automem_detach`, which nothing calls; the empty udp class; coroutines, of
which a server keeps a pointer without an anchor (`uvlua.c:94`); several loops at a time;
failing memory allocation, which the code does not handle either; clocks that are set back.
