-------------------------------- MODULE Packing --------------------------------
(***************************************************************************)
(* pack and unpack (lua_defparser_serial, lua_defparser_deserial in        *)
(* lua-decoder.c).  pack walks its arguments, a loop for every table it is *)
(* in, and appends their marks piece by piece to an AutoMem buffer, which  *)
(* is made a string with its size in front; unpack reads the marks one by  *)
(* one and pushes what it makes of them on the Lua stack, with a call of   *)
(* lua_pushtable for every table it is in.  Instead of packing, somebody   *)
(* else may use the buffer in any way.                                     *)
(***************************************************************************)
EXTENDS Serial, AutoMem

CONSTANTS
    Values,             \* Lua values: those packed, and all in them
    ArgLists,           \* what scripts pack
    MaxUses             \* bound: how often others use the buffer

\* A table has neither a key nor a value that is nil, nor one key twice.
IsValue(v) ==
    \/ v \in {Nil, NaN, Other, Bool(0), Bool(1)}
    \/ v[1] = "number" /\ v = Num(v[2]) /\ v[2] \in Int
    \/ v[1] = "string" /\ v = Str(v[2]) /\ v[2] \in Nat
    \/ /\ v[1] = "table" /\ v = Tab(v[2]) /\ v[2] \subseteq (Values \ {Nil}) \X (Values \ {Nil})
       /\ \A p, q \in v[2] : p[1] = q[1] => p = q

ASSUME ValuesAssumption == (\A v \in Values : IsValue(v)) /\ ArgLists \subseteq Seq(Values)
ASSUME BufferAssumption == 20480 \in Sizes

VARIABLES
    doing,              \* "nothing", "pack", "unpack", "reading", "done"; or "raised" by pack,
                        \* "spoilt": the buffer overflowed, "other": used by others
    args,               \* pack's arguments
    writer,             \* where pack is: the argument, and the loops over tables in it
    todo,               \* the sizes of what it has yet to append of the mark it is at
    marks,              \* what stands at the offset where a mark begins
    header, ls,         \* of the packed string: the size written in front, and its length
    at, stack, calls, count, \* of unpack: offset, Lua stack, what each lua_pushtable is at, i
    result,             \* of unpack
    uses                \* of the buffer by others, so far

packed == <<args, writer, todo, marks, header, ls>>
reader == <<at, stack, calls, count>>
packVars == <<memVars, doing, packed, reader, result, uses>>

Idle == <<"none">>
Start == [arg |-> 1, loops |-> <<>>]
Packed == <<"packed">>          \* unpack's argument, at the bottom of its stack

Init ==
    /\ MemInit
    /\ doing = "nothing" /\ args = <<>> /\ writer = Start /\ todo = <<>> /\ marks = <<>>
    /\ header = 0 /\ ls = 0
    /\ at = 0 /\ stack = <<>> /\ calls = <<>> /\ count = 0 /\ result = Idle
    /\ uses = 0

-----------------------------------------------------------------------------
(* pack *)

\* lua_defparser_serial up to its first append, of four bytes for the size.
Pack(list) ==
    /\ doing = "nothing" /\ Renew(20480)
    /\ doing' = "pack" /\ args' = list /\ todo' = <<4>>
    /\ UNCHANGED <<writer, marks, header, ls, reader, result, uses>>

PackAppends ==
    /\ doing = "pack" /\ todo # <<>>
    /\ AppendBytes(Head(todo))
    /\ todo' = Tail(todo)
    /\ UNCHANGED <<doing, args, writer, marks, header, ls, reader, result, uses>>

\* A loop of _lua_defparser_serialtable: the pairs it has done, the one lua_next gave
\* last, and whether its key or its value is next.
Loop(pairs, done, now, side) == [pairs |-> pairs, done |-> done, now |-> now, side |-> side]
Top(w) == w.loops[Len(w.loops)]
WithTop(w, loop) == [w EXCEPT !.loops = [@ EXCEPT ![Len(w.loops)] = loop]]
Pop(w) == [w EXCEPT !.loops = SubSeq(@, 1, Len(@) - 1)]

\* lua_def_serialone returns to the loop over the table or to that over the arguments.
Finished(w) ==
    IF w.loops = <<>> THEN [w EXCEPT !.arg = @ + 1]
    ELSE LET t == Top(w)
         IN IF t.side = "key" THEN WithTop(w, Loop(t.pairs, t.done, t.now, "value"))
            ELSE WithTop(w, Loop(t.pairs, t.done \cup {t.now}, t.now, "key"))

\* It begins with v: a table's loop is entered, a scalar is finished.
Begun(w, v) ==
    IF v[1] = "table" THEN [w EXCEPT !.loops = Append(@, Loop(v[2], {}, <<>>, "key"))] ELSE Finished(w)

\* Mark m is next, and then pack will be at w.
Puts(m, w) ==
    /\ marks' = [o \in DOMAIN marks \cup {size} |-> IF o = size THEN m ELSE marks[o]]
    /\ todo' = Appends(m)
    /\ writer' = w
    /\ UNCHANGED <<memVars, doing, args, header, ls, reader, result, uses>>

\* What has no form in the format raises an error, which nothing catches on the way
\* out: automem_uninit is not called.
SerialOne(v, w) ==
    \/ v # Other /\ Puts(Mark(v), Begun(w, v))
    \/ v = Other /\ doing' = "raised" /\ UNCHANGED <<memVars, packed, reader, result, uses>>

Between == doing = "pack" /\ mpc = "ready" /\ todo = <<>>

PackArg ==
    /\ Between /\ writer.loops = <<>> /\ writer.arg <= Len(args)
    /\ SerialOne(args[writer.arg], writer)

\* lua_next gives any pair it has not given yet.
PackKey ==
    /\ Between /\ writer.loops # <<>>
    /\ LET t == Top(writer)
       IN /\ t.side = "key"
          /\ \E p \in t.pairs \ t.done : SerialOne(p[1], WithTop(writer, Loop(t.pairs, t.done, p, "key")))

PackValue ==
    /\ Between /\ writer.loops # <<>> /\ Top(writer).side = "value"
    /\ SerialOne(Top(writer).now[2], writer)

PackTableEnds ==
    /\ Between /\ writer.loops # <<>>
    /\ Top(writer).side = "key" /\ Top(writer).done = Top(writer).pairs
    /\ Puts(End, Finished(Pop(writer)))

PackArgsEnd ==
    /\ Between /\ writer.loops = <<>> /\ writer.arg = Len(args) + 1
    /\ Puts(End, Finished(writer))

\* Mutant: the size counts its own bytes.
HeaderOfAll == size

HeaderSize == (size - 4) % M

\* The size is written, the string is made, the buffer freed.
PackEnds ==
    /\ Between /\ writer.arg = Len(args) + 2 /\ Uninit
    /\ header' = HeaderSize /\ ls' = size
    /\ doing' = IF broken = {} THEN "unpack" ELSE "spoilt"
    /\ UNCHANGED <<args, writer, todo, marks, reader, result, uses>>

-----------------------------------------------------------------------------
(* unpack *)

Goes(to, s, c, n) == at' = to /\ stack' = s /\ calls' = c /\ count' = n /\ UNCHANGED <<doing, result>>
Ends(r) == doing' = "done" /\ result' = r /\ UNCHANGED reader

UnpackStarts ==
    /\ doing = "unpack"
    /\ IF ls > 5 /\ AboveOne(header)
       THEN /\ doing' = "reading" /\ at' = 4 /\ stack' = <<Packed>>
            /\ UNCHANGED <<calls, count, result>>
       ELSE Ends(<<"ok", <<>>>>)
    /\ UNCHANGED <<memVars, packed, uses>>

\* lua_pushdata returns with its value, or without one, on the stack: to the loop over
\* the string, or to a lua_pushtable, which reads the value after the key and sets the
\* pair after the value.
Returns(s, c, to) ==
    LET n == Len(c)
    IN \/ c = <<>> /\ Goes(to, s, c, count + 1)
       \/ c # <<>> /\ c[n] = "key" /\ Goes(to, s, [c EXCEPT ![n] = "value"], count)
       \/ c # <<>> /\ c[n] = "value" /\ CanSet(s) /\ Goes(to, SetTable(s), [c EXCEPT ![n] = "key"], count)
       \/ c # <<>> /\ c[n] = "value" /\ ~CanSet(s) /\ Ends(<<"raised">>)

Reading == doing = "reading" /\ at \in DOMAIN marks /\ UNCHANGED <<memVars, packed, uses>>

\* A length below zero is a block too big for lua_pushlstring.
ReadScalar ==
    /\ Reading
    /\ LET m == marks[at]
       IN /\ m \notin {<<"table">>, End}
          /\ IF m[1] = "string" /\ ReadLength(m[2]) < 0 THEN Ends(<<"raised">>)
             ELSE Returns(stack \o Pushed(m), calls, at + Used(m))

ReadTable ==
    /\ Reading /\ marks[at] = <<"table">>
    /\ Goes(at + 1, Append(stack, Tab({})), Append(calls, "key"), count)

\* lua_pushtable returns if it looks for a key; End is no value.
ReadTableEnd ==
    /\ Reading /\ marks[at] = End /\ calls # <<>>
    /\ IF calls[Len(calls)] = "key" THEN Returns(stack, SubSeq(calls, 1, Len(calls) - 1), at + 1)
       ELSE Ends(<<"raised">>)

\* unpack returns as many values as it counted, from the top of the stack down, be it
\* below what was pushed.
UnpackEnds ==
    /\ Reading /\ marks[at] = End /\ calls = <<>>
    /\ Ends(IF count > Len(stack) THEN <<"garbage">>
            ELSE <<"ok", SubSeq(stack, Len(stack) - count + 1, Len(stack))>>)

\* Behind a string whose length was cut unpack reads the middle of the string, and what
\* comes of that is anything.
ReadsText ==
    /\ doing = "reading" /\ at \notin DOMAIN marks /\ Ends(<<"garbage">>)
    /\ UNCHANGED <<memVars, packed, uses>>

-----------------------------------------------------------------------------
MemGrows == Grows /\ UNCHANGED <<doing, packed, reader, result, uses>>

OtherUse ==
    /\ doing \in {"nothing", "other"} /\ uses < MaxUses /\ MemUse
    /\ doing' = "other" /\ uses' = uses + 1
    /\ UNCHANGED <<packed, reader, result>>

PackNext ==
    \/ \E list \in ArgLists : Pack(list)
    \/ PackAppends \/ PackArg \/ PackKey \/ PackValue \/ PackTableEnds \/ PackArgsEnd \/ PackEnds
UnpackNext ==
    UnpackStarts \/ ReadScalar \/ ReadTable \/ ReadTableEnd \/ UnpackEnds \/ ReadsText

Next == PackNext \/ UnpackNext \/ MemGrows \/ OtherUse

PackingSpec == Init /\ [][Next]_packVars

-----------------------------------------------------------------------------
(* Properties *)

\* The size in front of a packed string is that of the bytes behind it, which is what
\* the decoder at the other end of a connection cuts packets by; and these bytes are
\* marks, one right behind the other from the fourth byte to the last, through every
\* growth of the buffer.
PackedIsWhole ==
    doing \in {"unpack", "reading", "done"} =>
        /\ header + 4 = ls /\ 4 \in DOMAIN marks
        /\ \A o \in DOMAIN marks :
            /\ 4 <= o /\ o + Bytes(marks[o]) \in DOMAIN marks \cup {ls}
            /\ \A q \in DOMAIN marks : o < q => o + Bytes(marks[o]) <= q
            /\ o + Bytes(marks[o]) <= ls

\* unpack gives back what pack was given if all scalars are portable, and unless exactly
\* 2^24 bytes were packed: their size read the wrong way round is one, and unpack takes
\* the string for an empty one.
RoundTrip ==
    doing = "done" /\ header # 16777216 /\ (\A o \in DOMAIN marks : Portable(marks[o])) =>
        result = <<"ok", args>>

\* A number that is not portable pushes nothing, so that in a table every later key and
\* value is one place off.  For a table packed alone that is always noticed: unpack
\* gives the table back or raises an error.  Not so for what is cut, nor behind another
\* table, which then is changed.
LoneTableIsRightOrRefused ==
    doing = "done" /\ header # 16777216 /\ Len(args) = 1 /\ args[1][1] = "table"
      /\ (\A o \in DOMAIN marks : Uncut(marks[o])) =>
        result \in {<<"raised">>, <<"ok", args>>}
=============================================================================
