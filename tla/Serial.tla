-------------------------------- MODULE Serial --------------------------------
(***************************************************************************)
(* The value format of pack and unpack (lua-decoder.c): what of a value    *)
(* stands in a packed string, and what unpack makes of it.                 *)
(*                                                                         *)
(* A Lua value is a tuple that starts with its type.  A number is given in *)
(* halves, so that some have a fraction; int and int64_t are as narrow as  *)
(* the constants say.  A string is its length.  A table is the set of its  *)
(* pairs, so that two tables with the same pairs are one key.              *)
(***************************************************************************)
EXTENDS DefLength, FiniteSets, SequencesExt

CONSTANTS
    IntMin, IntMax, UintMax,    \* INT_MIN, INT_MAX, UINT_MAX
    Int64Min                    \* INT64_MIN, which x86 makes of what is out of range

ASSUME WidthAssumption ==
    /\ IntMin \in Int /\ IntMax \in Int /\ UintMax \in Int /\ Int64Min \in Int
    /\ Int64Min < IntMin /\ IntMin < 0 /\ 0 < IntMax /\ IntMax < UintMax

Nil == <<"nil">>
Bool(b) == <<"boolean", b>>             \* 0 or 1, as lua_toboolean gives it
Num(h) == <<"number", h>>
NaN == <<"nan">>
Str(n) == <<"string", n>>
Tab(pairs) == <<"table", pairs>>
Other == <<"other">>                    \* a function, a thread or user data

-----------------------------------------------------------------------------
(* Marks: a packed string is a row of them.  A scalar is one mark, a table *)
(* one, the marks of its keys and values, and the mark End.                *)

End == <<"end">>
Mark(v) ==
    IF v[1] = "string" THEN <<"string", WriteLength(v[2]), v[2]>>
    ELSE IF v[1] = "table" THEN <<"table">>
    ELSE v

\* The sizes of the pieces lua_def_serialone appends for a mark; the bytes of a length,
\* which are appended one by one or four at once, are taken for one piece.
Appends(m) ==
    IF m[1] = "string" THEN IF m[3] > 0 THEN <<1, Len(m[2]), m[3]>> ELSE <<1, Len(m[2])>>
    ELSE IF m[1] = "boolean" THEN <<1, 1>>
    ELSE IF m[1] \in {"number", "nan"} THEN <<1, 8>>
    ELSE <<1>>

Bytes(m) ==
    IF m[1] = "string" THEN 1 + Len(m[2]) + m[3]
    ELSE IF m[1] = "boolean" THEN 2
    ELSE IF m[1] \in {"number", "nan"} THEN 9
    ELSE 1

-----------------------------------------------------------------------------
(* unpack *)

\* How many bytes lua_pushdata takes a scalar for.
Used(m) == IF m[1] = "string" THEN 1 + UsedBytes(m[2]) + ReadLength(m[2]) ELSE Bytes(m)

\* (int64_t)d and (int)d of h halves
Truncated(h) == IF h >= 0 THEN h \div 2 ELSE -((-h) \div 2)
ToInt64(h) == IF Int64Min <= Truncated(h) /\ Truncated(h) < -Int64Min THEN Truncated(h) ELSE Int64Min

\* Mutant: zero for what is out of range.
PushNumberZero(v) ==
    IF v # NaN /\ 2 * IntMin <= v[2] /\ v[2] <= 2 * UintMax /\ v[2] % 2 = 0 THEN <<v>> ELSE <<Num(0)>>

\* What lua_pushdata pushes for a double, if anything.
PushNumber(v) ==
    IF v = NaN THEN <<>>
    ELSE IF v[2] - 2 * ToInt64(v[2]) > 0 THEN <<v>>
    ELSE IF 2 * IntMin <= v[2] /\ v[2] <= 2 * IntMax THEN <<Num(2 * Truncated(v[2]))>>
    ELSE IF 0 <= v[2] /\ v[2] <= 2 * UintMax THEN <<Num(2 * Truncated(v[2]))>>
    ELSE <<>>

\* What lua_pushdata pushes for a scalar.
Pushed(m) ==
    IF m[1] = "string" THEN <<Str(ReadLength(m[2]))>>
    ELSE IF m[1] \in {"number", "nan"} THEN PushNumber(m)
    ELSE <<m>>

\* lua_settable(L, -3): whether it raises no error, and the stack after it.
CanSet(s) == Len(s) >= 3 /\ s[Len(s) - 2][1] = "table" /\ s[Len(s) - 1] # Nil
SetTable(s) ==
    LET n == Len(s)
        others == {p \in s[n - 2][2] : p[1] # s[n - 1]}
    IN Append(SubSeq(s, 1, n - 3),
              Tab(IF s[n] = Nil THEN others ELSE others \cup {<<s[n - 1], s[n]>>}))

\* The size stands in the packed string with its highest byte first; unpack reads it
\* as the machine does, lowest byte first, and asks whether it is above one.
AboveOne(n) == n % 256 # 0 \/ (n \div 256) % 65536 # 0 \/ n \div 16777216 > 1

-----------------------------------------------------------------------------
(* What comes back *)

\* Scalars that unpack gives back: integers from INT_MIN to UINT_MAX and positive
\* numbers with a fraction; strings whose length fits in 28 bits.
Portable(m) ==
    /\ m # NaN
    /\ m[1] = "number" => IF m[2] % 2 = 0 THEN 2 * IntMin <= m[2] /\ m[2] <= 2 * UintMax ELSE m[2] > 0
    /\ m[1] = "string" => m[3] < SignBit

\* Scalars that are given back, or nothing is, or an error is raised: no negative
\* fractions, which are cut, and no strings that are taken for shorter ones.
Uncut(m) ==
    /\ m[1] = "number" => m[2] >= 0 \/ m[2] % 2 = 0
    /\ m[1] = "string" => m[3] < Mask
=============================================================================
