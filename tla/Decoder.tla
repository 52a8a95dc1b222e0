------------------------------- MODULE Decoder -------------------------------
(***************************************************************************)
(* Framing of the default decoder, libuv-lua/src/lua-decoder.c: from bytes *)
(* as they arrive to one call of the script's ondata per packet.           *)
(*                                                                         *)
(* A packet is four bytes of length, its values, and 0xFF (see pack).  The *)
(* peer sends a stream of packets; the network hands it over in deliveries *)
(* that may end anywhere.  Each delivery is a call of lua_default_decoder, *)
(* which calls lua_defparser_push until the bytes are used up or kept.     *)
(* The values are nil and booleans, of one and two bytes.                  *)
(***************************************************************************)
EXTENDS Integers, Sequences, SequencesExt

CONSTANTS
    Streams,    \* the streams a peer may send, sequences of packets (of values)
    CutAt       \* where a delivery may end: "end" of a packet, "inHeader",
                \* "afterHeader" or "inBody"

EndData == 255
HeaderLen == 4
Huge == 65536   \* stands for every length above 255

Scalars == {"nil", "true", "false"}
Bytes(v) == IF v = "nil" THEN <<0>> ELSE <<1, IF v = "true" THEN 1 ELSE 0>>
Payload(pkt) == FlattenSeq([i \in DOMAIN pkt |-> Bytes(pkt[i])]) \o <<EndData>>
Pack(pkt) == <<0, 0, 0, Len(Payload(pkt))>> \o Payload(pkt)

\* A length byte taken for a value must not be the tag of a type left out here.
ASSUME StreamAssumption ==
    /\ Streams \subseteq Seq(Seq(Scalars))
    /\ \A s \in Streams : \A i \in DOMAIN s : Len(Payload(s[i])) \in {1, 2} \cup 6..254

VARIABLES
    stream, left, done,     \* packets sent; those not delivered whole; bytes of the first delivered
    mem, off, st, size,     \* luadecoder_t: kept bytes, offset into them, state, announced length
    pc,                     \* idle; push: the loop of defparser_push; parse: its inner loop
    data, offset, inMem, p, \* bytes at hand, how many are used, are they mem's; p of defparser_push
    vals,                   \* values pushed on the Lua stack and not passed on yet
    calls, seen,            \* history: argument lists of ondata; all bytes delivered;
    cuts, crossed           \* where deliveries ended; one held parts of two packets

netVars == <<stream, left, done, seen, cuts, crossed>>
decVars == <<netVars, mem, off, st, size, pc, data, offset, inMem, p, vals, calls>>

DecInit ==
    /\ stream \in Streams /\ left = stream /\ done = 0
    /\ mem = <<>> /\ off = 0 /\ st = "START" /\ size = 0
    /\ pc = "idle" /\ data = <<>> /\ offset = 0 /\ inMem = FALSE /\ p = 0
    /\ vals = <<>> /\ calls = <<>> /\ seen = <<>>
    /\ cuts = {} /\ crossed = FALSE

-----------------------------------------------------------------------------
(* The network *)

Wire == FlattenSeq([i \in DOMAIN left |-> Pack(left[i])])

\* Where a delivery ends that takes w whole packets and i bytes of the next one.
Place(w, i) ==
    IF i = 0 THEN "end"
    ELSE IF i < HeaderLen THEN "inHeader" ELSE IF i = HeaderLen THEN "afterHeader" ELSE "inBody"

Delivery(w, i) ==
    /\ w + i > 0 /\ (w = 0 => i > done)
    /\ Place(w, i) \in CutAt
    /\ left' = SubSeq(left, w + 1, Len(left))
    /\ done' = i
    /\ cuts' = cuts \cup {Place(w, i)}
    /\ crossed' = (crossed \/ w > 1 \/ (w = 1 /\ i > 0))
    /\ UNCHANGED stream

\* Length of the first w packets of the stream still to come.
WholeLen(w) == Len(FlattenSeq([j \in 1..w |-> Pack(left[j])]))

\* lua_default_decoder starts: the bytes join the kept ones, if there are any.
Deliver ==
    \E w \in 0..Len(left) : \E i \in 0..(IF w < Len(left) THEN Len(Pack(left[w + 1])) - 1 ELSE 0) :
        LET chunk == SubSeq(Wire, done + 1, WholeLen(w) + i)
        IN  /\ pc = "idle"
            /\ Delivery(w, i)
            /\ seen' = seen \o chunk
            /\ inMem' = (Len(mem) > off)
            /\ mem' = IF Len(mem) > off THEN mem \o chunk ELSE mem
            /\ data' = IF Len(mem) > off THEN mem \o chunk ELSE chunk
            /\ offset' = IF Len(mem) > off THEN off ELSE 0
            /\ pc' = "push" /\ p' = 0 /\ vals' = <<>>
            /\ UNCHANGED <<off, st, size, calls>>

-----------------------------------------------------------------------------
(* lua_default_decoder, once lua_defparser_push has returned *)

\* The unused bytes are kept, or stay where they are in mem behind the offset
\* (mutant: the offset is kept in either case).
KeptOffsetAlways == offset
KeptOffset == IF inMem THEN offset ELSE 0
Rest == SubSeq(data, offset + 1, Len(data))

\* defparser_push returned u with state s and the values vs on the stack: between
\* packets they are passed on; the stack is cleared when the call ends.
Returned(u, s, vs) ==
    /\ st' = s
    /\ \/ /\ u > 0
          /\ offset' = offset + u
          /\ pc' = IF Len(data) > offset + u THEN "push" ELSE "idle"
          /\ p' = 0
          /\ calls' = IF s = "START" THEN Append(calls, vs) ELSE calls
          /\ vals' = IF s = "START" \/ pc' = "idle" THEN <<>> ELSE vs
          /\ UNCHANGED <<mem, off>>
       \/ /\ u <= 0
          /\ mem' = IF inMem THEN mem ELSE mem \o Rest
          /\ off' = KeptOffset
          /\ pc' = "idle" /\ p' = 0 /\ vals' = <<>>
          /\ UNCHANGED <<offset, calls>>
    /\ UNCHANGED <<netVars, size, data, inMem>>

-----------------------------------------------------------------------------
(* lua_defparser_push *)

Size == Len(data) - offset
Byte(i) == data[offset + i + 1]

\* SWAP_U32 of the four bytes at p.
Length == IF Byte(p) = 0 /\ Byte(p + 1) = 0 /\ Byte(p + 2) = 0 THEN Byte(p + 3) ELSE Huge

PushEnds ==
    /\ pc = "push" /\ p >= Size
    /\ Returned(p, st, vals)

\* Is the length there? (mutant: one byte more is asked for)
HasLengthAndOne == Size > p + HeaderLen
HasLength == Size >= p + HeaderLen

HeaderMissing ==
    /\ pc = "push" /\ p < Size /\ st = "START"
    /\ ~HasLength
    /\ Returned(p, st, vals)

Header ==
    /\ pc = "push" /\ p < Size /\ st = "START"
    /\ HasLength
    /\ size' = Length
    /\ p' = p + HeaderLen
    /\ st' = "DATASTART"
    /\ UNCHANGED <<netVars, mem, off, pc, data, offset, inMem, vals, calls>>

\* Are there enough bytes for the packet?  The four of the length count too.
Enough == Size >= size

DataStart ==
    /\ pc = "push" /\ p < Size /\ st = "DATASTART"
    /\ Enough
    /\ pc' = "parse"
    /\ UNCHANGED <<netVars, mem, off, st, size, data, offset, inMem, p, vals, calls>>

\* Too few bytes, or an error earlier on: nothing changes and the loop goes on.
Spin ==
    /\ pc = "push" /\ p < Size
    /\ (st = "DATASTART" /\ ~Enough) \/ st = "ERRORDATA"
    /\ UNCHANGED decVars

Values == pc = "parse" /\ p < Size /\ Byte(p) # EndData

\* lua_pushdata: a value; past the end it reads the terminator of a Lua string,
\* or whatever follows in mem.
PushData ==
    /\ Values
    /\ \/ /\ Byte(p) = 0
          /\ vals' = Append(vals, "nil")
          /\ p' = p + 1
       \/ /\ Byte(p) = 1
          /\ \E b \in IF p + 1 < Size THEN {Byte(p + 1)} ELSE IF inMem THEN {0, 1} ELSE {0} :
                vals' = Append(vals, IF b = 0 THEN "false" ELSE "true")
          /\ p' = p + 2
    /\ UNCHANGED <<netVars, mem, off, st, size, pc, data, offset, inMem, calls>>

BadData ==
    /\ Values /\ Byte(p) \notin {0, 1}
    /\ Returned(-1, "ERRORDATA", vals)

\* The end mark is skipped and the next length expected (mutants: it is not).
SkipNothing(i) == i
Skip(i) == i + 1
StateKept == st
StateAfter == "START"

EndOfPacket ==
    /\ pc = "parse" /\ ~Values
    /\ p' = Skip(p)
    /\ st' = StateAfter
    /\ pc' = "push"
    /\ UNCHANGED <<netVars, mem, off, size, data, offset, inMem, vals, calls>>

DecStep == PushEnds \/ HeaderMissing \/ Header \/ DataStart \/ Spin \/ PushData \/ BadData \/ EndOfPacket

DecNext == Deliver \/ DecStep

\* The thread goes on with a call it is in.
DecSpec == DecInit /\ [][DecNext]_decVars /\ WF_decVars(DecStep)

-----------------------------------------------------------------------------
(* Properties *)

\* Packets that have been delivered whole.
Arrived == SubSeq(stream, 1, Len(stream) - Len(left))

\* The kept bytes are always the latest that came, with the unused ones still
\* ahead of the offset: none is lost or kept twice.
KeptAreLatest ==
    pc = "idle" =>
        /\ mem = SubSeq(seen, Len(seen) - Len(mem) + 1, Len(seen))
        /\ mem # <<>> => off < Len(mem)

\* Every value of the packets that have arrived is passed on once, in order - as
\* long as every delivery has ended with a packet.
ValuesOnce ==
    pc = "idle" /\ cuts \subseteq {"end"} => FlattenSeq(calls) = FlattenSeq(Arrived)

\* Each packet that has arrived is passed on in a call of its own - as long as no
\* delivery held parts of two and each ended with a packet or with its length.
OneCallPerPacket ==
    pc = "idle" /\ ~crossed /\ cuts \subseteq {"end", "afterHeader"} => calls = Arrived

\* A call returns, whatever it was given before, if all deliveries have ended with
\* a packet or with a length of which nothing is missing.
WholeCallsReturn ==
    (pc # "idle" /\ cuts \subseteq {"end", "afterHeader"}) ~> (pc = "idle")

\* A call of the decoder returns, wherever the network cuts the stream.
EveryCallReturns == (pc # "idle") ~> (pc = "idle")
=============================================================================
