----------------------------- MODULE PackingProofs -----------------------------
(* Theorems about lengths (DefLength) and about what pack and unpack do with values *)
(* of any depth, for ints and lengths of any width (Packing).                       *)
EXTENDS Packing, AutoMemProofs

-----------------------------------------------------------------------------
(* Lengths: what is written is read back. *)

\* b begins with the bytes w; what follows is of no account.
BeginsWith(b, w) == \A i \in 1..Len(w) : b[i] = w[i]

\* The digits of v in base 128, and below the fourth byte in base 256, make v again.
LEMMA Digits2 ==
    ASSUME NEW v \in Nat, v < 16384
    PROVE  /\ (v \div 128) % 128 = v \div 128
           /\ v \div 128 \in 0..127 /\ v % 128 \in 0..127
           /\ (v \div 128) * 128 + (v % 128) = v
  BY SMT

LEMMA Digits3 ==
    ASSUME NEW v \in Nat, v < 2097152
    PROVE  /\ v \div 16384 \in 0..127 /\ (v \div 16384) % 128 = v \div 16384
           /\ (v \div 128) % 128 \in 0..127 /\ v % 128 \in 0..127
           /\ ((v \div 16384) * 128 + ((v \div 128) % 128)) * 128 + (v % 128) = v
  BY SMT

LEMMA Digits4 ==
    ASSUME NEW v \in Nat, v < Mask
    PROVE  /\ v \div 4194304 \in 0..127 /\ (v \div 4194304) % 128 = v \div 4194304
           /\ (v \div 32768) % 128 \in 0..127 /\ (v \div 256) % 128 \in 0..127
           /\ v % 256 \in 0..255
           /\ (((v \div 4194304) * 128 + ((v \div 32768) % 128)) * 128 + ((v \div 256) % 128)) * 256
                + (v % 256) = v
<1>1. PICK q \in Nat, r \in 0..255 : v = 256 * q + r
  <2>1. v \div 256 \in Nat /\ v % 256 \in 0..255 /\ v = 256 * (v \div 256) + (v % 256)
    BY SMT
  <2> QED
    BY <2>1, Zenon
<1>2. v \div 256 = q /\ v % 256 = r /\ q < 2097152
  BY <1>1, SMT DEF Mask
<1>3. v \div 32768 = q \div 128
  BY <1>1, SMT
<1>4. v \div 4194304 = q \div 16384
  BY <1>1, SMT
<1>5. /\ q \div 16384 \in 0..127 /\ (q \div 16384) % 128 = q \div 16384
      /\ (q \div 128) % 128 \in 0..127 /\ q % 128 \in 0..127
      /\ ((q \div 16384) * 128 + ((q \div 128) % 128)) * 128 + (q % 128) = q
  BY <1>2, Digits3, SMT
<1> QED
  BY <1>1, <1>2, <1>3, <1>4, <1>5, SMT

\* A byte with its top bit set is not below 128, and 0x7f takes the bit away again.
LEMMA MoreBytes ==
    ASSUME NEW x \in Nat
    PROVE  More(x) \in 128..255 /\ More(x) % 128 = x % 128
  BY SMT DEF More

\* What luadef_read_length makes of four such bytes.
LEMMA FourBytes ==
    ASSUME NEW v \in Nat, v < Mask, NEW b,
           b[1] % 128 = v \div 4194304, b[2] % 128 = (v \div 32768) % 128,
           b[3] % 128 = (v \div 256) % 128, b[4] = v % 256
    PROVE  Read4(b) = v
<1>1. Read4(b) = (((v \div 4194304) * 128 + ((v \div 32768) % 128)) * 128 + ((v \div 256) % 128)) * 256
                   + (v % 256)
  BY SMT DEF Read4
<1> QED
  BY <1>1, Digits4, SMT

\* luadef_read_length reads what luadef_write_length wrote, of every length below 2^28,
\* and uses as many bytes, whatever stands behind them.
THEOREM LengthRoundTrip ==
    ASSUME NEW n \in Nat, n < SignBit, NEW b, BeginsWith(b, WriteLength(n))
    PROVE  ReadLength(b) = n /\ UsedBytes(b) = Len(WriteLength(n))
<1>0. n % Mask = n /\ n < Mask
  BY SMT DEF SignBit, Mask
<1>1. CASE n < 128
  <2>1. WriteLength(n) = <<n>>
    BY <1>0, <1>1, SMT DEF WriteLength
  <2>2. b[1] = n
    BY <2>1, SMT DEF BeginsWith
  <2> QED
    BY <1>1, <2>1, <2>2, SMT DEF ReadLength, UsedBytes, Read1
<1>2. CASE n >= 128 /\ n < 16384
  <2>1. WriteLength(n) = <<More(n \div 128), n % 128>>
    BY <1>0, <1>2, SMT DEF WriteLength
  <2>2. b[1] = More(n \div 128) /\ b[2] = n % 128
    BY <2>1, SMT DEF BeginsWith
  <2>3. b[1] \in 128..255 /\ b[1] % 128 = n \div 128 /\ b[2] \in 0..127
    BY <1>2, <2>2, Digits2, MoreBytes, SMT
  <2>4. Read2(b) = n
    BY <1>2, <2>2, <2>3, Digits2, SMT DEF Read2
  <2> QED
    BY <1>2, <2>1, <2>3, <2>4, SMT DEF ReadLength, UsedBytes, SignExtend, SignBit
<1>3. CASE n >= 16384 /\ n < 2097152
  <2>1. WriteLength(n) = <<More(n \div 16384), More(n \div 128), n % 128>>
    BY <1>0, <1>3, SMT DEF WriteLength
  <2>2. b[1] = More(n \div 16384) /\ b[2] = More(n \div 128) /\ b[3] = n % 128
    BY <2>1, SMT DEF BeginsWith
  <2>3. n \div 16384 \in Nat /\ n \div 128 \in Nat
    BY SMT
  <2>4. /\ b[1] \in 128..255 /\ b[1] % 128 = n \div 16384
        /\ b[2] \in 128..255 /\ b[2] % 128 = (n \div 128) % 128 /\ b[3] \in 0..127
    BY <1>3, <2>2, <2>3, Digits3, MoreBytes, SMT
  <2>5. Read3(b) = n
    BY <1>3, <2>2, <2>4, Digits3, SMT DEF Read3
  <2> QED
    BY <1>3, <2>1, <2>4, <2>5, SMT DEF ReadLength, UsedBytes, SignExtend, SignBit
<1>4. CASE n >= 2097152
  <2>1. WriteLength(n) = <<More(n \div 4194304), More(n \div 32768), More(n \div 256), n % 256>>
    BY <1>0, <1>4, SMT DEF WriteLength
  <2>2. /\ b[1] = More(n \div 4194304) /\ b[2] = More(n \div 32768)
        /\ b[3] = More(n \div 256) /\ b[4] = n % 256
    BY <2>1, SMT DEF BeginsWith
  <2>3. n \div 4194304 \in Nat /\ n \div 32768 \in Nat /\ n \div 256 \in Nat
    BY SMT
  <2>4. /\ b[1] \in 128..255 /\ b[1] % 128 = n \div 4194304
        /\ b[2] \in 128..255 /\ b[2] % 128 = (n \div 32768) % 128
        /\ b[3] \in 128..255 /\ b[3] % 128 = (n \div 256) % 128
    BY <1>0, <2>2, <2>3, Digits4, MoreBytes, SMT
  <2>5. Read4(b) = n
    BY <1>0, <2>2, <2>4, FourBytes, SMT
  <2> QED
    BY <2>1, <2>4, <2>5, SMT DEF ReadLength, UsedBytes, SignExtend, SignBit
<1> QED
  BY <1>1, <1>2, <1>3, <1>4, SMT

\* From 2^28 to 2^29 - 1 the length comes back negative.
THEOREM LongLengthsTurnNegative ==
    ASSUME NEW n \in Nat, n >= SignBit, n < Mask, NEW b, BeginsWith(b, WriteLength(n))
    PROVE  ReadLength(b) < 0
<1>0. n % Mask = n /\ n >= 2097152
  BY SMT DEF SignBit, Mask
<1>1. WriteLength(n) = <<More(n \div 4194304), More(n \div 32768), More(n \div 256), n % 256>>
  BY <1>0, SMT DEF WriteLength
<1>2. /\ b[1] = More(n \div 4194304) /\ b[2] = More(n \div 32768)
      /\ b[3] = More(n \div 256) /\ b[4] = n % 256
  BY <1>1, SMT DEF BeginsWith
<1>3. n \div 4194304 \in Nat /\ n \div 32768 \in Nat /\ n \div 256 \in Nat
  BY SMT
<1>4. /\ b[1] \in 128..255 /\ b[1] % 128 = n \div 4194304
      /\ b[2] \in 128..255 /\ b[2] % 128 = (n \div 32768) % 128
      /\ b[3] \in 128..255 /\ b[3] % 128 = (n \div 256) % 128
  BY <1>2, <1>3, Digits4, MoreBytes, SMT
<1>5. Read4(b) = n
  BY <1>0, <1>2, <1>4, FourBytes, SMT
<1> QED
  BY <1>4, <1>5, SMT DEF ReadLength, SignExtend, SignBit, Mask

-----------------------------------------------------------------------------
(* Values and their marks. *)

Content == Values \ {Nil}

LEMMA ValueKinds ==
    ASSUME NEW v \in Values
    PROVE  \/ v \in {Nil, NaN, Other, Bool(0), Bool(1)}
           \/ \E h \in Int : v = Num(h)
           \/ \E n \in Nat : v = Str(n)
           \/ \E pairs \in SUBSET (Content \X Content) :
                v = Tab(pairs) /\ \A p, q \in pairs : p[1] = q[1] => p = q
<1>1. IsValue(v)
  BY ValuesAssumption
<1> QED
  BY <1>1, Zenon DEF IsValue, Content

LEMMA KindsDiffer ==
    /\ Nil[1] = "nil" /\ NaN[1] = "nan" /\ Other[1] = "other" /\ End[1] = "end"
    /\ \A b : Bool(b)[1] = "boolean" /\ Bool(b)[2] = b
    /\ \A h : Num(h)[1] = "number" /\ Num(h)[2] = h
    /\ \A n : Str(n)[1] = "string" /\ Str(n)[2] = n
    /\ \A t : Tab(t)[1] = "table" /\ Tab(t)[2] = t
  BY DEF Nil, NaN, Other, Bool, Num, Str, Tab, End

LEMMA LengthOfLength ==
    ASSUME NEW n \in Nat
    PROVE  Len(WriteLength(n)) \in {1, 2, 3, 4}
  BY DEF WriteLength

\* The sum of up to three numbers.
Total(s) ==
    (IF Len(s) > 0 THEN s[1] ELSE 0) + (IF Len(s) > 1 THEN s[2] ELSE 0) + (IF Len(s) > 2 THEN s[3] ELSE 0)

\* The pieces of a mark make the mark, which is not empty.
LEMMA PiecesMakeMark ==
    ASSUME NEW m, NEW v \in Values, v # Other, m = Mark(v) \/ m = End
    PROVE  /\ Bytes(m) \in Nat /\ Bytes(m) > 0
           /\ Appends(m) \in Seq(Nat) /\ Len(Appends(m)) <= 3
           /\ Total(Appends(m)) = Bytes(m)
<1>1. CASE m[1] = "string" /\ m[3] \in Nat /\ Len(m[2]) \in {1, 2, 3, 4}
  <2>1. Bytes(m) = 1 + Len(m[2]) + m[3]
    BY <1>1 DEF Bytes
  <2>2. CASE m[3] > 0
    <3>1. Appends(m) = <<1, Len(m[2]), m[3]>>
      BY <1>1, <2>2 DEF Appends
    <3> QED
      BY <1>1, <2>1, <3>1 DEF Total
  <2>3. CASE m[3] = 0
    <3>1. Appends(m) = <<1, Len(m[2])>>
      BY <1>1, <2>3 DEF Appends
    <3> QED
      BY <1>1, <2>1, <2>3, <3>1 DEF Total
  <2> QED
    BY <1>1, <2>2, <2>3
<1>2. CASE m[1] = "boolean"
  BY <1>2 DEF Bytes, Appends, Total
<1>3. CASE m[1] \in {"number", "nan"}
  BY <1>3 DEF Bytes, Appends, Total
<1>4. CASE m[1] \in {"nil", "table", "end"}
  BY <1>4 DEF Bytes, Appends, Total
<1>5. CASE m = End
  BY <1>4, <1>5, KindsDiffer
<1>6. CASE m = Mark(v)
  <2>1. CASE v \in {Nil, NaN, Other, Bool(0), Bool(1)}
    <3>1. v[1] \in {"nil", "nan", "boolean"} /\ m = v
      BY <1>6, <2>1, KindsDiffer DEF Mark
    <3> QED
      BY <1>2, <1>3, <1>4, <3>1
  <2>2. CASE \E h \in Int : v = Num(h)
    BY <1>3, <1>6, <2>2, KindsDiffer DEF Mark
  <2>3. CASE \E n \in Nat : v = Str(n)
    <3>1. PICK n \in Nat : v = Str(n)
      BY <2>3
    <3>2. m = <<"string", WriteLength(n), n>>
      BY <1>6, <3>1, KindsDiffer DEF Mark
    <3> QED
      BY <1>1, <3>2, LengthOfLength
  <2>4. CASE \E pairs : v = Tab(pairs)
    <3>1. m = <<"table">>
      BY <1>6, <2>4, KindsDiffer DEF Mark
    <3> QED
      BY <1>4, <3>1
  <2> QED
    BY <2>1, <2>2, <2>3, <2>4, ValueKinds
<1> QED
  BY <1>5, <1>6

\* A number is pushed as it is, or not at all unless it is portable.
LEMMA NumberPushed ==
    ASSUME NEW h \in Int, Uncut(Num(h))
    PROVE  PushNumber(Num(h)) = <<Num(h)>> \/ (PushNumber(Num(h)) = <<>> /\ ~Portable(Num(h)))
<1> DEFINE v == Num(h)
<1>1. v # NaN /\ v[1] = "number" /\ v[2] = h
  BY KindsDiffer DEF Num, NaN
<1>2. h >= 0 \/ h % 2 = 0
  BY <1>1, KindsDiffer DEF Uncut
<1>3. h % 2 = 0 => 2 * Truncated(h) = h
  BY SMT DEF Truncated
<1>4. h % 2 # 0 => h - 2 * ToInt64(h) > 0
  <2>1. CASE h % 2 # 0
    <3>1. h \in Nat /\ Truncated(h) = h \div 2 /\ h - 2 * (h \div 2) = 1
      BY <1>2, <2>1, SMT DEF Truncated
    <3>2. CASE ToInt64(h) = Truncated(h)
      BY <3>1, <3>2
    <3>3. CASE ToInt64(h) = Int64Min
      BY <3>1, <3>3, WidthAssumption
    <3> QED
      BY <3>2, <3>3 DEF ToInt64
  <2> QED
    BY <2>1
<1>5. PushNumber(v) = IF h - 2 * ToInt64(h) > 0 THEN <<v>>
                      ELSE IF 2 * IntMin <= h /\ h <= 2 * IntMax THEN <<Num(2 * Truncated(h))>>
                      ELSE IF 0 <= h /\ h <= 2 * UintMax THEN <<Num(2 * Truncated(h))>>
                      ELSE <<>>
  BY <1>1 DEF PushNumber
<1>6. CASE h - 2 * ToInt64(h) > 0
  BY <1>5, <1>6
<1>7. CASE ~(h - 2 * ToInt64(h) > 0)
  <2>1. h % 2 = 0 /\ Num(2 * Truncated(h)) = v
    BY <1>3, <1>4, <1>7
  <2>2. PushNumber(v) = IF (2 * IntMin <= h /\ h <= 2 * IntMax) \/ (0 <= h /\ h <= 2 * UintMax)
                        THEN <<v>> ELSE <<>>
    BY <1>5, <1>7, <2>1
  <2>3. Portable(v) => 2 * IntMin <= h /\ h <= 2 * UintMax
    BY <1>1, <2>1 DEF Portable
  <2>4. 2 * IntMin <= h /\ h <= 2 * UintMax => (2 * IntMin <= h /\ h <= 2 * IntMax) \/ (0 <= h /\ h <= 2 * UintMax)
    BY WidthAssumption, SMT
  <2> QED
    BY <2>2, <2>3, <2>4
<1> QED
  BY <1>6, <1>7

\* What lua_pushdata makes of the mark of a scalar that is not cut: it raises an error,
\* or takes it for as many bytes as it has and pushes the value or nothing.  The mark
\* of a portable one makes it push the value.
LEMMA ScalarRead ==
    ASSUME NEW v \in Values, v # Other, v[1] # "table", Uncut(Mark(v))
    PROVE  LET m == Mark(v)
           IN /\ m \notin {<<"table">>, End}
              /\ \/ m[1] = "string" /\ ReadLength(m[2]) < 0 /\ ~Portable(m)
                 \/ /\ ~(m[1] = "string" /\ ReadLength(m[2]) < 0)
                    /\ Used(m) = Bytes(m)
                    /\ Pushed(m) = <<v>> \/ (Pushed(m) = <<>> /\ ~Portable(m))
<1> DEFINE m == Mark(v)
<1>1. CASE v \in {Nil, Bool(0), Bool(1)}
  <2>1. m = v /\ m[1] \in {"nil", "boolean"}
    BY <1>1, KindsDiffer DEF Mark
  <2> QED
    BY <2>1, KindsDiffer DEF Used, Pushed
<1>2. CASE v = NaN
  <2>1. m = NaN /\ m[1] = "nan"
    BY <1>2, KindsDiffer DEF Mark
  <2> QED
    BY <2>1, KindsDiffer DEF Used, Pushed, PushNumber, Portable
<1>3. CASE \E h \in Int : v = Num(h)
  <2>1. PICK h \in Int : v = Num(h)
    BY <1>3
  <2>2. m = v /\ m[1] = "number"
    BY <2>1, KindsDiffer DEF Mark
  <2> QED
    BY <2>1, <2>2, NumberPushed, KindsDiffer DEF Used, Pushed
<1>4. CASE \E n \in Nat : v = Str(n)
  <2>1. PICK n \in Nat : v = Str(n)
    BY <1>4
  <2>2. m = <<"string", WriteLength(n), n>> /\ n < Mask
    BY <2>1, KindsDiffer DEF Mark, Uncut
  <2>3. m[1] = "string" /\ m[2] = WriteLength(n) /\ m[3] = n
    BY <2>2
  <2>4. BeginsWith(m[2], WriteLength(n)) /\ Len(WriteLength(n)) \in {1, 2, 3, 4}
    BY <2>3, LengthOfLength DEF BeginsWith
  <2>5. CASE n < SignBit
    <3>1. ReadLength(m[2]) = n /\ UsedBytes(m[2]) = Len(m[2])
      BY <2>3, <2>4, <2>5, LengthRoundTrip
    <3> QED
      BY <2>1, <2>3, <3>1, KindsDiffer DEF Used, Pushed, Bytes
  <2>6. CASE n >= SignBit
    <3>1. ReadLength(m[2]) < 0
      BY <2>2, <2>3, <2>4, <2>6, LongLengthsTurnNegative
    <3> QED
      BY <2>3, <2>6, <3>1, KindsDiffer DEF Portable, SignBit
  <2> QED
    BY <2>5, <2>6 DEF SignBit
<1> QED
  BY <1>1, <1>2, <1>3, <1>4, ValueKinds, KindsDiffer

\* A portable mark is not cut.
LEMMA PortableIsUncut ==
    ASSUME NEW v \in Values, Portable(Mark(v)) PROVE Uncut(Mark(v))
<1>1. CASE v \in {Nil, NaN, Other, Bool(0), Bool(1)}
  BY <1>1, KindsDiffer DEF Mark, Uncut
<1>2. CASE \E h \in Int : v = Num(h)
  BY <1>2, KindsDiffer DEF Mark, Uncut, Portable
<1>3. CASE \E n \in Nat : v = Str(n)
  BY <1>3, KindsDiffer DEF Mark, Uncut, Portable, SignBit, Mask
<1>4. CASE \E pairs : v = Tab(pairs)
  BY <1>4, KindsDiffer DEF Mark, Uncut
<1> QED
  BY <1>1, <1>2, <1>3, <1>4, ValueKinds

-----------------------------------------------------------------------------
(* Where pack may be, and how it goes on. *)

Frames == [pairs : SUBSET (Content \X Content), done : SUBSET (Content \X Content),
           now : (Content \X Content) \cup {<<>>}, side : {"key", "value"}]
Writers == [arg : Nat, loops : Seq(Frames)]

\* What is written in a loop, after lua_next gave it a pair.
Due(t) == IF t.side = "key" THEN t.now[1] ELSE t.now[2]

\* Writer w is somewhere in the arguments a: every loop is over the table that the loop
\* around it is at.
Good(a, w) ==
    /\ w \in Writers /\ w.arg >= 1 /\ w.arg <= Len(a) + 2
    /\ w.loops # <<>> => w.arg <= Len(a)
    /\ \A j \in 1..Len(w.loops) :
        LET t == w.loops[j]
        IN /\ Tab(t.pairs) \in Values /\ t.done \subseteq t.pairs
           /\ t.side = "value" \/ j < Len(w.loops) => t.now \in t.pairs \ t.done
           /\ Tab(t.pairs) = IF j = 1 THEN a[w.arg] ELSE Due(w.loops[j - 1])

\* It is in lua_def_serialone for v.
Awaits(a, w, v) ==
    IF w.loops = <<>> THEN w.arg <= Len(a) /\ v = a[w.arg]
    ELSE Top(w).now \in Top(w).pairs \ Top(w).done /\ v = Due(Top(w))

\* lua_next gives the loop a pair.
Chooses(w, u) ==
    \/ u = w
    \/ /\ w.loops # <<>> /\ Top(w).side = "key"
       /\ \E p : u = WithTop(w, Loop(Top(w).pairs, Top(w).done, p, "key"))

\* From w mark m is written, and then the writer is at x.
WritesValue(a, w, m, x) ==
    \E u, v : Chooses(w, u) /\ Awaits(a, u, v) /\ v # Other /\ m = Mark(v) /\ x = Begun(u, v)
WritesTableEnd(w, m, x) ==
    w.loops # <<>> /\ Top(w).side = "key" /\ Top(w).done = Top(w).pairs /\ m = End /\ x = Finished(Pop(w))
WritesEnd(a, w, m, x) ==
    w.loops = <<>> /\ w.arg = Len(a) + 1 /\ m = End /\ x = Finished(w)
Writes(a, w, m, x) == WritesValue(a, w, m, x) \/ WritesTableEnd(w, m, x) \/ WritesEnd(a, w, m, x)

LEMMA LoopIs ==
    ASSUME NEW p, NEW d, NEW n, NEW s
    PROVE  /\ Loop(p, d, n, s).pairs = p /\ Loop(p, d, n, s).done = d
           /\ Loop(p, d, n, s).now = n /\ Loop(p, d, n, s).side = s
  BY DEF Loop

LEMMA LoopsCounted ==
    ASSUME NEW w \in Writers
    PROVE  /\ Len(w.loops) \in Nat /\ w.loops \in Seq(Frames) /\ w.arg \in Nat
           /\ w.loops = <<>> <=> Len(w.loops) = 0
           /\ w.loops # <<>> => Len(w.loops) >= 1 /\ Len(w.loops) \in 1..Len(w.loops) /\ Top(w) \in Frames
  BY DEF Writers, Top

\* Replacing the innermost loop.
LEMMA WithTopIs ==
    ASSUME NEW w \in Writers, w.loops # <<>>, NEW t \in Frames
    PROVE  LET u == WithTop(w, t)
           IN /\ u \in Writers /\ u.arg = w.arg /\ u.loops # <<>> /\ Len(u.loops) = Len(w.loops)
              /\ Top(u) = t
              /\ \A j \in 1..Len(w.loops) : u.loops[j] = IF j = Len(w.loops) THEN t ELSE w.loops[j]
<1> DEFINE u == WithTop(w, t)
           ls2 == [w.loops EXCEPT ![Len(w.loops)] = t]
<1>1. u.arg = w.arg /\ u.loops = ls2 /\ u = [arg |-> w.arg, loops |-> ls2]
  BY DEF WithTop, Writers
<1>2. ls2 \in Seq(Frames) /\ Len(ls2) = Len(w.loops)
      /\ \A j \in 1..Len(w.loops) : ls2[j] = IF j = Len(w.loops) THEN t ELSE w.loops[j]
  BY LoopsCounted
<1> QED
  BY <1>1, <1>2, LoopsCounted DEF Top, Writers

LEMMA GoodWithTop ==
    ASSUME NEW a, NEW w, Good(a, w), w.loops # <<>>, NEW t \in Frames,
           t.pairs = Top(w).pairs, t.done \subseteq t.pairs,
           t.side = "value" => t.now \in t.pairs \ t.done
    PROVE  Good(a, WithTop(w, t))
<1> DEFINE u == WithTop(w, t)
           n == Len(w.loops)
<1>0. w \in Writers
  BY DEF Good
<1>1. /\ u \in Writers /\ u.arg = w.arg /\ u.loops # <<>> /\ Len(u.loops) = n
      /\ \A j \in 1..n : u.loops[j] = IF j = n THEN t ELSE w.loops[j]
  BY <1>0, WithTopIs
<1>2. n \in Nat /\ n >= 1 /\ Top(w) = w.loops[n]
  BY <1>0, LoopsCounted DEF Top
<1> HIDE DEF u
<1>3. ASSUME NEW j \in 1..n
      PROVE  LET l == u.loops[j]
             IN /\ Tab(l.pairs) \in Values /\ l.done \subseteq l.pairs
                /\ l.side = "value" \/ j < n => l.now \in l.pairs \ l.done
                /\ Tab(l.pairs) = IF j = 1 THEN a[w.arg] ELSE Due(u.loops[j - 1])
  <2>1. /\ Tab(w.loops[j].pairs) \in Values /\ w.loops[j].done \subseteq w.loops[j].pairs
        /\ w.loops[j].side = "value" \/ j < n => w.loops[j].now \in w.loops[j].pairs \ w.loops[j].done
        /\ Tab(w.loops[j].pairs) = IF j = 1 THEN a[w.arg] ELSE Due(w.loops[j - 1])
    BY DEF Good
  <2>2. j # 1 => u.loops[j - 1] = w.loops[j - 1]
    BY <1>1, <1>2
  <2>3. CASE j = n
    <3>1. u.loops[j] = t /\ w.loops[j] = Top(w) /\ ~(j < n)
      BY <1>1, <1>2, <2>3
    <3> QED
      BY <2>1, <2>2, <3>1
  <2>4. CASE j # n
    BY <1>1, <2>1, <2>2, <2>4
  <2> QED
    BY <2>3, <2>4
<1>4. w.arg >= 1 /\ w.arg <= Len(a)
  BY DEF Good
<1> QED
  BY <1>1, <1>3, <1>4 DEF Good, u

LEMMA TopIsGood ==
    ASSUME NEW a, NEW w, Good(a, w), w.loops # <<>>
    PROVE  LET t == Top(w)
           IN /\ t \in Frames /\ Tab(t.pairs) \in Values /\ t.done \subseteq t.pairs
              /\ t.side = "value" => t.now \in t.pairs \ t.done
              /\ t.pairs \subseteq Content \X Content
              /\ t.side \in {"key", "value"}
<1>1. w \in Writers
  BY DEF Good
<1>2. Top(w) \in Frames /\ Top(w) = w.loops[Len(w.loops)] /\ Len(w.loops) \in 1..Len(w.loops)
  BY <1>1, LoopsCounted DEF Top
<1>3. Top(w).pairs \subseteq Content \X Content /\ Top(w).side \in {"key", "value"}
  BY <1>2 DEF Frames
<1> QED
  BY <1>2, <1>3 DEF Good

LEMMA ChoosesGood ==
    ASSUME NEW a, NEW w, Good(a, w), NEW u, Chooses(w, u), NEW v, Awaits(a, u, v)
    PROVE  Good(a, u) /\ u.arg = w.arg /\ Len(u.loops) = Len(w.loops)
           /\ (u.loops = <<>> <=> w.loops = <<>>)
<1>1. CASE u = w
  BY <1>1
<1>2. CASE /\ w.loops # <<>> /\ Top(w).side = "key"
           /\ \E p : u = WithTop(w, Loop(Top(w).pairs, Top(w).done, p, "key"))
  <2>1. PICK p : u = WithTop(w, Loop(Top(w).pairs, Top(w).done, p, "key"))
    BY <1>2
  <2> DEFINE t == Loop(Top(w).pairs, Top(w).done, p, "key")
  <2>2. w \in Writers /\ Len(w.loops) \in 1..Len(w.loops) /\ Len(w.loops) \in Nat
    BY <1>2, LoopsCounted DEF Good
  <2>3. u.loops # <<>> /\ Top(u) = t
    BY <1>2, <2>1, <2>2 DEF WithTop, Writers, Top
  <2>4. p \in Top(w).pairs
    BY <2>3, LoopIs DEF Awaits
  <2>5. t \in Frames
    BY <1>2, <2>4, TopIsGood DEF Frames, Loop
  <2>6. /\ t.pairs = Top(w).pairs /\ t.done \subseteq t.pairs /\ t.side = "key"
        /\ w \in Writers /\ u = WithTop(w, t)
    BY <1>2, <2>1, <2>2, LoopIs, TopIsGood
  <2> HIDE DEF t
  <2>7. Good(a, u)
    BY <1>2, <2>5, <2>6, GoodWithTop
  <2>8. u.arg = w.arg /\ Len(u.loops) = Len(w.loops) /\ u.loops # <<>>
    BY <1>2, <2>5, <2>6, WithTopIs
  <2> QED
    BY <1>2, <2>7, <2>8
<1> QED
  BY <1>1, <1>2 DEF Chooses

LEMMA AwaitedIsValue ==
    ASSUME NEW a \in Seq(Values), NEW w, Good(a, w), NEW v, Awaits(a, w, v)
    PROVE  v \in Values /\ (w.loops # <<>> => v # Nil)
<1>1. CASE w.loops = <<>>
  <2>1. w.arg \in Nat /\ w.arg >= 1 /\ w.arg <= Len(a) /\ v = a[w.arg]
    BY <1>1 DEF Awaits, Good, Writers
  <2> QED
    BY <1>1, <2>1
<1>2. CASE w.loops # <<>>
  <2>1. Top(w).now \in Content \X Content /\ v = Due(Top(w))
    BY <1>2, TopIsGood DEF Awaits
  <2>2. v \in Content
    BY <2>1 DEF Due
  <2> QED
    BY <2>2 DEF Content
<1> QED
  BY <1>1, <1>2

\* What Finished does.
LEMMA FinishedIs ==
    ASSUME NEW a, NEW w, Good(a, w), NEW v, Awaits(a, w, v)
    PROVE  /\ w.loops = <<>> => Finished(w) = [arg |-> w.arg + 1, loops |-> <<>>]
           /\ w.loops # <<>> =>
                LET t == Top(w)
                    l == IF t.side = "key" THEN Loop(t.pairs, t.done, t.now, "value")
                         ELSE Loop(t.pairs, t.done \cup {t.now}, t.now, "key")
                IN Finished(w) = WithTop(w, l) /\ l \in Frames
<1>1. CASE w.loops = <<>>
  BY <1>1 DEF Finished, Good, Writers
<1>2. CASE w.loops # <<>>
  <2> DEFINE t == Top(w)
             l == IF t.side = "key" THEN Loop(t.pairs, t.done, t.now, "value")
                  ELSE Loop(t.pairs, t.done \cup {t.now}, t.now, "key")
  <2>1. Finished(w) = WithTop(w, l)
    BY <1>2 DEF Finished
  <2>2. t.now \in t.pairs /\ t.pairs \subseteq Content \X Content /\ t.done \subseteq t.pairs
    BY <1>2, TopIsGood DEF Awaits
  <2>3. l \in Frames
    BY <2>2 DEF Frames, Loop
  <2> QED
    BY <1>2, <2>1, <2>3
<1> QED
  BY <1>1, <1>2

LEMMA FinishedGood ==
    ASSUME NEW a \in Seq(Values), NEW w, Good(a, w), NEW v, Awaits(a, w, v)
    PROVE  Good(a, Finished(w)) /\ Finished(w).arg <= Len(a) + 1
<1>1. CASE w.loops = <<>>
  <2>1. Finished(w) = [arg |-> w.arg + 1, loops |-> <<>>]
    BY <1>1, FinishedIs
  <2>2. w.arg \in Nat /\ w.arg <= Len(a) /\ w.arg >= 1
    BY <1>1 DEF Good, Awaits, Writers
  <2>3. Finished(w).loops = <<>> /\ Finished(w).arg = w.arg + 1 /\ Finished(w) \in Writers
    BY <2>1, <2>2 DEF Writers
  <2> QED
    BY <2>2, <2>3 DEF Good
<1>2. CASE w.loops # <<>>
  <2> DEFINE t == Top(w)
             l == IF t.side = "key" THEN Loop(t.pairs, t.done, t.now, "value")
                  ELSE Loop(t.pairs, t.done \cup {t.now}, t.now, "key")
  <2>1. Finished(w) = WithTop(w, l) /\ l \in Frames
    BY <1>2, FinishedIs
  <2>2. t.now \in t.pairs \ t.done /\ t.done \subseteq t.pairs
    BY <1>2, TopIsGood DEF Awaits
  <2>3. l.pairs = t.pairs /\ l.done \subseteq l.pairs /\ (l.side = "value" => l.now \in l.pairs \ l.done)
    BY <2>2, LoopIs
  <2> HIDE DEF l
  <2>4. Good(a, WithTop(w, l))
    BY <1>2, <2>1, <2>3, GoodWithTop
  <2>5. WithTop(w, l).arg = w.arg /\ w.arg <= Len(a) /\ w.arg \in Nat
    BY <1>2, <2>1, WithTopIs DEF Good, Writers
  <2> QED
    BY <2>1, <2>4, <2>5
<1> QED
  BY <1>1, <1>2

\* A table's loop is entered.
LEMMA EnteredIs ==
    ASSUME NEW w \in Writers, NEW t \in Frames
    PROVE  LET x == [w EXCEPT !.loops = Append(@, t)]
           IN /\ x \in Writers /\ x.arg = w.arg /\ x.loops # <<>>
              /\ Len(x.loops) = Len(w.loops) + 1 /\ x.loops[Len(w.loops) + 1] = t
              /\ \A j \in 1..Len(w.loops) : x.loops[j] = w.loops[j]
<1> DEFINE x == [w EXCEPT !.loops = Append(@, t)]
<1>1. x = [arg |-> w.arg, loops |-> Append(w.loops, t)]
  BY DEF Writers
<1>2. Append(w.loops, t) \in Seq(Frames) /\ Len(Append(w.loops, t)) = Len(w.loops) + 1
      /\ Append(w.loops, t)[Len(w.loops) + 1] = t
      /\ \A j \in 1..Len(w.loops) : Append(w.loops, t)[j] = w.loops[j]
  BY LoopsCounted
<1>3. x.loops = Append(w.loops, t) /\ x.arg = w.arg /\ x \in Writers
  BY <1>1, <1>2 DEF Writers
<1> QED
  BY <1>2, <1>3, LoopsCounted

LEMMA EnteredGood ==
    ASSUME NEW a \in Seq(Values), NEW w, Good(a, w), NEW v, Awaits(a, w, v), v[1] = "table"
    PROVE  /\ Good(a, Begun(w, v)) /\ Begun(w, v).arg <= Len(a) + 1
           /\ Begun(w, v) = [w EXCEPT !.loops = Append(@, Loop(v[2], {}, <<>>, "key"))]
           /\ v = Tab(v[2]) /\ Loop(v[2], {}, <<>>, "key") \in Frames
<1> DEFINE t == Loop(v[2], {}, <<>>, "key")
           x == [w EXCEPT !.loops = Append(@, t)]
           n == Len(w.loops)
<1>1. Begun(w, v) = x
  BY DEF Begun
<1>2. v \in Values /\ v = Tab(v[2]) /\ v[2] \in SUBSET (Content \X Content)
  BY AwaitedIsValue, ValueKinds, KindsDiffer
<1>3. t \in Frames
  BY <1>2 DEF Frames, Loop
<1>4. w \in Writers /\ w.arg >= 1 /\ w.arg \in Nat /\ Len(a) \in Nat /\ n \in Nat
  BY LoopsCounted DEF Good, Writers
<1>5. /\ x \in Writers /\ x.arg = w.arg /\ x.loops # <<>>
      /\ Len(x.loops) = n + 1 /\ x.loops[n + 1] = t
      /\ \A j \in 1..n : x.loops[j] = w.loops[j]
  BY <1>3, <1>4, EnteredIs
<1>6. w.arg <= Len(a)
  BY DEF Good, Awaits
<1>7. n # 0 => Top(w) = w.loops[n] /\ Top(w).now \in Top(w).pairs \ Top(w).done /\ v = Due(Top(w))
  BY <1>4, LoopsCounted DEF Awaits, Top
<1>8. n = 0 => v = a[w.arg]
  BY <1>4, LoopsCounted DEF Awaits
<1>9. t.pairs = v[2] /\ t.done = {} /\ t.side = "key"
  BY LoopIs
<1> HIDE DEF t, x
<1>10. ASSUME NEW j \in 1..(n + 1)
       PROVE  LET l == x.loops[j]
              IN /\ Tab(l.pairs) \in Values /\ l.done \subseteq l.pairs
                 /\ l.side = "value" \/ j < n + 1 => l.now \in l.pairs \ l.done
                 /\ Tab(l.pairs) = IF j = 1 THEN a[w.arg] ELSE Due(x.loops[j - 1])
  <2>1. CASE j = n + 1
    <3>1. x.loops[j] = t /\ ~(j < n + 1)
      BY <1>5, <2>1
    <3>2. j # 1 => n # 0 /\ x.loops[j - 1] = w.loops[n]
      BY <1>4, <1>5, <2>1
    <3> QED
      BY <1>2, <1>7, <1>8, <1>9, <2>1, <3>1, <3>2
  <2>2. CASE j # n + 1
    <3>1. j \in 1..n /\ x.loops[j] = w.loops[j]
      BY <1>4, <1>5, <2>2
    <3>2. j # 1 => j - 1 \in 1..n /\ x.loops[j - 1] = w.loops[j - 1]
      BY <1>4, <1>5, <3>1
    <3>3. /\ Tab(w.loops[j].pairs) \in Values /\ w.loops[j].done \subseteq w.loops[j].pairs
          /\ w.loops[j].side = "value" \/ j < n => w.loops[j].now \in w.loops[j].pairs \ w.loops[j].done
          /\ Tab(w.loops[j].pairs) = IF j = 1 THEN a[w.arg] ELSE Due(w.loops[j - 1])
      BY <3>1 DEF Good
    <3>4. j = n => w.loops[j].now \in w.loops[j].pairs \ w.loops[j].done
      BY <1>7, <3>1
    <3>5. w.loops[j].now \in w.loops[j].pairs \ w.loops[j].done
      BY <1>4, <3>1, <3>3, <3>4
    <3> QED
      BY <3>1, <3>2, <3>3, <3>5
  <2> QED
    BY <2>1, <2>2
<1>11. Good(a, x)
  BY <1>4, <1>5, <1>6, <1>10 DEF Good
<1> QED
  BY <1>1, <1>2, <1>3, <1>4, <1>5, <1>6, <1>11 DEF t, x

\* The innermost loop is left: then the table it is over is what its loop is at.
LEMMA PoppedIs ==
    ASSUME NEW w \in Writers, w.loops # <<>>
    PROVE  /\ Pop(w) \in Writers /\ Pop(w).arg = w.arg /\ Len(Pop(w).loops) = Len(w.loops) - 1
           /\ \A j \in 1..(Len(w.loops) - 1) : Pop(w).loops[j] = w.loops[j]
<1> DEFINE shorter == SubSeq(w.loops, 1, Len(w.loops) - 1)
<1>1. Pop(w) = [arg |-> w.arg, loops |-> shorter]
  BY DEF Pop, Writers
<1>2. shorter \in Seq(Frames) /\ Len(shorter) = Len(w.loops) - 1
      /\ \A j \in 1..(Len(w.loops) - 1) : shorter[j] = w.loops[j]
  BY LoopsCounted
<1> QED
  BY <1>1, <1>2 DEF Writers

LEMMA PopGood ==
    ASSUME NEW a, NEW w, Good(a, w), w.loops # <<>>
    PROVE  /\ Good(a, Pop(w)) /\ Awaits(a, Pop(w), Tab(Top(w).pairs))
           /\ Pop(w).loops # <<>> => Top(Pop(w)) = w.loops[Len(w.loops) - 1]
<1> DEFINE x == Pop(w)
           n == Len(w.loops)
<1>1. w \in Writers /\ n \in Nat /\ n >= 1 /\ Top(w) = w.loops[n] /\ w.arg \in Nat
  BY LoopsCounted DEF Good, Top
<1>2. /\ x \in Writers /\ x.arg = w.arg /\ Len(x.loops) = n - 1
      /\ \A j \in 1..(n - 1) : x.loops[j] = w.loops[j]
  BY <1>1, PoppedIs
<1>3. w.arg >= 1 /\ w.arg <= Len(a) /\ w.arg <= Len(a) + 2
  BY DEF Good
<1> HIDE DEF x
<1>4. ASSUME NEW j \in 1..(n - 1)
      PROVE  /\ j \in 1..n /\ x.loops[j] = w.loops[j]
             /\ w.loops[j].now \in w.loops[j].pairs \ w.loops[j].done
             /\ Tab(x.loops[j].pairs) \in Values /\ x.loops[j].done \subseteq x.loops[j].pairs
             /\ Tab(x.loops[j].pairs) = IF j = 1 THEN a[w.arg] ELSE Due(x.loops[j - 1])
  <2>1. j \in 1..n /\ x.loops[j] = w.loops[j] /\ j < n
    BY <1>1, <1>2
  <2>2. j # 1 => x.loops[j - 1] = w.loops[j - 1]
    BY <1>1, <1>2
  <2> QED
    BY <2>1, <2>2 DEF Good
<1>5. Good(a, x)
  BY <1>2, <1>3, <1>4 DEF Good
<1>6. Tab(Top(w).pairs) = IF n = 1 THEN a[w.arg] ELSE Due(w.loops[n - 1])
  <2>1. n \in 1..n
    BY <1>1
  <2> QED
    BY <1>1, <2>1 DEF Good
<1>7. CASE n = 1
  <2>1. x.loops = <<>>
    BY <1>2, <1>7, LoopsCounted
  <2> QED
    BY <1>2, <1>3, <1>5, <1>6, <1>7, <2>1 DEF Awaits, x
<1>8. CASE n # 1
  <2> HIDE DEF n
  <2>0. n - 1 \in Nat /\ n - 1 >= 1
    <3>1. n \in Nat /\ n >= 1
      BY <1>1
    <3> QED
      BY <1>8, <3>1
  <2>1. n - 1 \in 1..(n - 1) /\ Len(x.loops) # 0
    BY <1>2, <2>0
  <2>2. x.loops # <<>> /\ Top(x) = x.loops[n - 1]
    BY <1>2, <2>1, LoopsCounted DEF Top
  <2> QED
    BY <1>2, <1>4, <1>5, <1>6, <1>8, <2>1, <2>2 DEF Awaits, x, n
<1> QED
  BY <1>7, <1>8

\* Whatever is written, the writer stays good; only the last End takes it past the
\* arguments.
LEMMA WritesGood ==
    ASSUME NEW a \in Seq(Values), NEW w, Good(a, w), NEW m, NEW x, Writes(a, w, m, x)
    PROVE  /\ Good(a, x)
           /\ m = End \/ \E v \in Values : v # Other /\ m = Mark(v)
           /\ x.arg <= Len(a) + 1 \/ WritesEnd(a, w, m, x)
<1>1. CASE WritesValue(a, w, m, x)
  <2>1. PICK u, v : Chooses(w, u) /\ Awaits(a, u, v) /\ v # Other /\ m = Mark(v) /\ x = Begun(u, v)
    BY <1>1 DEF WritesValue
  <2>2. Good(a, u) /\ v \in Values
    BY <2>1, ChoosesGood, AwaitedIsValue
  <2>3. Good(a, x) /\ x.arg <= Len(a) + 1
    <3>1. CASE v[1] = "table"
      BY <2>1, <2>2, <3>1, EnteredGood
    <3>2. CASE v[1] # "table"
      BY <2>1, <2>2, <3>2, FinishedGood DEF Begun
    <3> QED
      BY <3>1, <3>2
  <2> QED
    BY <2>1, <2>2, <2>3
<1>2. CASE WritesTableEnd(w, m, x)
  <2>1. w.loops # <<>> /\ x = Finished(Pop(w)) /\ m = End
    BY <1>2 DEF WritesTableEnd
  <2> QED
    BY <2>1, PopGood, FinishedGood
<1>3. CASE WritesEnd(a, w, m, x)
  <2>1. w.loops = <<>> /\ w.arg = Len(a) + 1 /\ m = End /\ x = Finished(w) /\ w \in Writers
    BY <1>3 DEF WritesEnd, Good
  <2>2. x = [arg |-> Len(a) + 2, loops |-> <<>>]
    BY <2>1 DEF Finished, Writers
  <2>3. x \in Writers /\ x.arg = Len(a) + 2 /\ x.loops = <<>> /\ Len(a) \in Nat
    BY <2>2 DEF Writers
  <2>4. Good(a, x)
    BY <2>3 DEF Good
  <2> QED
    BY <1>3, <2>1, <2>4
<1> QED
  BY <1>1, <1>2, <1>3 DEF Writes

-----------------------------------------------------------------------------
(* The Lua stack of unpack. *)

IsStack(s) == \E S : s \in Seq(S)

LEMMA StackPush ==
    ASSUME NEW s, IsStack(s), NEW v
    PROVE  /\ IsStack(s \o <<v>>) /\ Len(s) \in Nat /\ Len(s \o <<v>>) = Len(s) + 1
           /\ (s \o <<v>>)[Len(s) + 1] = v
           /\ \A i \in 1..Len(s) : (s \o <<v>>)[i] = s[i]
           /\ Append(s, v) = s \o <<v>>
           /\ s \o <<>> = s
<1>1. PICK S : s \in Seq(S)
  BY DEF IsStack
<1>2. s \in Seq(S \cup {v}) /\ v \in S \cup {v}
  BY <1>1
<1>3. s \o <<v>> \in Seq(S \cup {v})
  BY <1>2
<1> QED
  BY <1>2, <1>3 DEF IsStack

LEMMA StackPop ==
    ASSUME NEW s, IsStack(s), NEW k \in Nat, k <= Len(s)
    PROVE  /\ IsStack(SubSeq(s, 1, k)) /\ Len(SubSeq(s, 1, k)) = k
           /\ \A i \in 1..k : SubSeq(s, 1, k)[i] = s[i]
<1>1. PICK S : s \in Seq(S)
  BY DEF IsStack
<1>2. SubSeq(s, 1, k) \in Seq(S) /\ Len(SubSeq(s, 1, k)) = k
      /\ \A i \in 1..k : SubSeq(s, 1, k)[i] = s[i]
  BY <1>1
<1> QED
  BY <1>2 DEF IsStack

LEMMA StackSet ==
    ASSUME NEW s, IsStack(s), Len(s) >= 3
    PROVE  /\ IsStack(SetTable(s)) /\ Len(s) \in Nat /\ Len(SetTable(s)) = Len(s) - 2
           /\ \A i \in 1..(Len(s) - 3) : SetTable(s)[i] = s[i]
           /\ SetTable(s)[Len(s) - 2] =
                LET others == {p \in s[Len(s) - 2][2] : p[1] # s[Len(s) - 1]}
                IN Tab(IF s[Len(s)] = Nil THEN others ELSE others \cup {<<s[Len(s) - 1], s[Len(s)]>>})
<1> DEFINE n == Len(s)
           others == {p \in s[n - 2][2] : p[1] # s[n - 1]}
           t == Tab(IF s[n] = Nil THEN others ELSE others \cup {<<s[n - 1], s[n]>>})
           short == SubSeq(s, 1, n - 3)
<1>1. SetTable(s) = Append(short, t)
  BY DEF SetTable
<1>2. n \in Nat
  BY StackPush
<1>3. n - 3 \in Nat /\ n - 3 <= n
  BY <1>2
<1>4. IsStack(short) /\ Len(short) = n - 3 /\ \A i \in 1..(n - 3) : short[i] = s[i]
  BY <1>3, StackPop
<1> HIDE DEF t, short, n
<1>5. /\ IsStack(Append(short, t)) /\ Len(Append(short, t)) = n - 3 + 1
      /\ Append(short, t)[n - 3 + 1] = t
      /\ \A i \in 1..(n - 3) : Append(short, t)[i] = s[i]
  <2>1. /\ IsStack(short \o <<t>>) /\ Len(short \o <<t>>) = Len(short) + 1
        /\ (short \o <<t>>)[Len(short) + 1] = t
        /\ \A i \in 1..Len(short) : (short \o <<t>>)[i] = short[i]
        /\ Append(short, t) = short \o <<t>>
    BY <1>4, StackPush, Zenon
  <2> QED
    BY <1>4, <2>1, Zenon
<1>6. n - 3 + 1 = n - 2
  BY <1>2
<1> QED
  BY <1>1, <1>2, <1>5, <1>6 DEF t, n

-----------------------------------------------------------------------------
(* unpack reads the marks as pack wrote them: where the writer was in a loop, the *)
(* reader is in a call of lua_pushtable.                                           *)

InStep(w, c, k) ==
    /\ c \in Seq({"key", "value"}) /\ Len(c) = Len(w.loops) /\ k = w.arg - 1
    /\ \A j \in 1..Len(c) : c[j] = w.loops[j].side

\* A table lies on the stack at pos[j], and its key behind it while its value is read.
Keys(t) == IF t.side = "key" THEN 0 ELSE 1
Places(w, pos) ==
    /\ pos \in [Nat -> Nat]
    /\ \A j \in 1..Len(w.loops) :
        /\ pos[j] = IF j = 1 THEN w.arg + 1 ELSE pos[j - 1] + Keys(w.loops[j - 1]) + 1
        /\ w.arg < pos[j]
        /\ \A i \in 1..Len(w.loops) : i < j => pos[i] + Keys(w.loops[i]) < pos[j]
Height(w, pos) == IF w.loops = <<>> THEN w.arg ELSE pos[Len(w.loops)] + Keys(Top(w))

\* The stack has all that was read, or is too short.
Exact(a, s, w, pos) ==
    /\ IsStack(s) /\ Len(s) = Height(w, pos) /\ s[1] = Packed
    /\ \A i \in 1..(w.arg - 1) : s[i + 1] = a[i]
    /\ \A j \in 1..Len(w.loops) :
        /\ s[pos[j]] = Tab(w.loops[j].done)
        /\ w.loops[j].side = "value" => s[pos[j] + 1] = w.loops[j].now[1]
TooShort(s, h) == IsStack(s) /\ Len(s) >= 1 /\ s[1] = Packed /\ Len(s) < h
Short(s, w, pos) ==
    TooShort(s, Height(w, pos)) /\ w.loops # <<>> /\ ~(Len(w.loops) = 1 /\ Top(w).side = "key")

\* The innermost loop after what it is at.
Flip(t) ==
    IF t.side = "key" THEN Loop(t.pairs, t.done, t.now, "value")
    ELSE Loop(t.pairs, t.done \cup {t.now}, t.now, "key")

LEMMA FlipIs ==
    ASSUME NEW t, t.side \in {"key", "value"}
    PROVE  /\ Flip(t).now = t.now /\ Flip(t).pairs = t.pairs
           /\ t.side = "key" => Flip(t).side = "value" /\ Flip(t).done = t.done
           /\ t.side = "value" => Flip(t).side = "key" /\ Flip(t).done = t.done \cup {t.now}
  BY LoopIs DEF Flip

LEMMA FinishedLoops ==
    ASSUME NEW a, NEW w, Good(a, w), NEW v, Awaits(a, w, v), w.loops # <<>>
    PROVE  LET f == Finished(w)
               n == Len(w.loops)
           IN /\ f.arg = w.arg /\ f.loops # <<>> /\ Len(f.loops) = n /\ Top(f) = Flip(Top(w))
              /\ \A j \in 1..n : f.loops[j] = IF j = n THEN Flip(Top(w)) ELSE w.loops[j]
              /\ n \in Nat /\ n >= 1 /\ n \in 1..n /\ Top(w) = w.loops[n] /\ w.arg \in Nat /\ w.arg >= 1
              /\ Top(w).side \in {"key", "value"}
<1>1. w \in Writers /\ w.arg >= 1
  BY DEF Good
<1>2. Finished(w) = WithTop(w, Flip(Top(w))) /\ Flip(Top(w)) \in Frames
  BY FinishedIs DEF Flip
<1> QED
  BY <1>1, <1>2, WithTopIs, LoopsCounted, TopIsGood DEF Top

\* A position in the stack, and that of the key behind it, are below the top.
LEMMA PlacesBelow ==
    ASSUME NEW w \in Writers, NEW pos, Places(w, pos), NEW j \in 1..Len(w.loops)
    PROVE  /\ pos[j] \in Nat /\ pos[j] >= 1 /\ pos[j] + Keys(w.loops[j]) <= Height(w, pos)
           /\ Height(w, pos) \in Nat /\ Height(w, pos) >= w.arg
           /\ j # Len(w.loops) => pos[j] + Keys(w.loops[j]) < pos[Len(w.loops)]
<1> DEFINE n == Len(w.loops)
<1>1. n \in Nat /\ n >= 1 /\ n \in 1..n /\ w.loops # <<>> /\ w.arg \in Nat /\ Top(w) = w.loops[n]
  BY LoopsCounted DEF Top
<1>2. pos[j] \in Nat /\ pos[n] \in Nat
  BY <1>1 DEF Places
<1>3. w.arg < pos[j] /\ w.arg < pos[n] /\ (j < n => pos[j] + Keys(w.loops[j]) < pos[n])
  BY <1>1 DEF Places
<1>4. Keys(w.loops[j]) \in {0, 1} /\ Keys(w.loops[n]) \in {0, 1}
  BY DEF Keys
<1>5. Height(w, pos) = pos[n] + Keys(w.loops[n])
  BY <1>1 DEF Height
<1> HIDE DEF n
<1>6. j = n \/ j < n
  BY <1>1 DEF n
<1> QED
  BY <1>1, <1>2, <1>3, <1>4, <1>5, <1>6 DEF n

LEMMA FinishedPlaces ==
    ASSUME NEW a, NEW w, Good(a, w), NEW v, Awaits(a, w, v), NEW pos, Places(w, pos)
    PROVE  Places(Finished(w), pos)
<1>1. CASE w.loops = <<>>
  <2>1. Finished(w) = [arg |-> w.arg + 1, loops |-> <<>>]
    BY <1>1, FinishedIs
  <2>2. Len(Finished(w).loops) = 0
    BY <2>1
  <2> QED
    BY <2>2 DEF Places
<1>2. CASE w.loops # <<>>
  <2> DEFINE f == Finished(w)
             n == Len(w.loops)
  <2>1. /\ f.arg = w.arg /\ Len(f.loops) = n /\ n \in Nat
        /\ \A j \in 1..n : f.loops[j] = IF j = n THEN Flip(Top(w)) ELSE w.loops[j]
    BY <1>2, FinishedLoops
  <2> HIDE DEF f, n
  <2>2. \A j \in 1..n : j < n => f.loops[j] = w.loops[j]
    BY <2>1
  <2>3. ASSUME NEW j \in 1..n
        PROVE  /\ pos[j] = IF j = 1 THEN f.arg + 1 ELSE pos[j - 1] + Keys(f.loops[j - 1]) + 1
               /\ f.arg < pos[j]
               /\ \A i \in 1..n : i < j => pos[i] + Keys(f.loops[i]) < pos[j]
    <3>1. j # 1 => j - 1 \in 1..n /\ j - 1 < n /\ f.loops[j - 1] = w.loops[j - 1]
      BY <2>1, <2>2
    <3>2. \A i \in 1..n : i < j => f.loops[i] = w.loops[i]
      BY <2>1, <2>2
    <3> QED
      BY <2>1, <3>1, <3>2 DEF Places, n
  <2> QED
    BY <2>1, <2>3 DEF Places, f
<1> QED
  BY <1>1, <1>2

\* lua_pushdata's return takes the calls where pack's return took the loops.
LEMMA ReturnInStep ==
    ASSUME NEW a, NEW w, Good(a, w), NEW v, Awaits(a, w, v), NEW c, InStep(w, c, count),
           NEW s, NEW to, Returns(s, c, to)
    PROVE  \/ Ends(<<"raised">>) /\ w.loops # <<>> /\ Top(w).side = "value" /\ ~CanSet(s)
           \/ /\ at' = to /\ UNCHANGED <<doing, result>> /\ InStep(Finished(w), calls', count')
              /\ stack' = IF w.loops # <<>> /\ Top(w).side = "value" THEN SetTable(s) ELSE s
              /\ w.loops # <<>> /\ Top(w).side = "value" => CanSet(s)
<1>0. w \in Writers /\ c \in Seq({"key", "value"}) /\ Len(c) = Len(w.loops) /\ count = w.arg - 1
      /\ w.arg \in Nat
  BY LoopsCounted DEF Good, InStep
<1>1. CASE w.loops = <<>>
  <2>1. c = <<>>
    BY <1>0, <1>1, LoopsCounted
  <2>2. Goes(to, s, c, count + 1)
    BY <2>1 DEF Returns
  <2>3. Finished(w) = [arg |-> w.arg + 1, loops |-> <<>>]
    BY <1>1, FinishedIs
  <2>4. InStep(Finished(w), c, count + 1)
    BY <1>0, <1>1, <2>1, <2>3 DEF InStep
  <2> QED
    BY <1>1, <2>2, <2>4 DEF Goes
<1>2. CASE w.loops # <<>>
  <2> DEFINE f == Finished(w)
             n == Len(w.loops)
  <2>1. /\ f.arg = w.arg /\ Len(f.loops) = n /\ n \in Nat /\ n >= 1 /\ n \in 1..n
        /\ Top(w) = w.loops[n] /\ Top(w).side \in {"key", "value"}
        /\ \A j \in 1..n : f.loops[j] = IF j = n THEN Flip(Top(w)) ELSE w.loops[j]
    BY <1>2, FinishedLoops
  <2>2. c # <<>> /\ Len(c) = n /\ c[n] = Top(w).side
    BY <1>0, <2>1 DEF InStep
  <2>3. ASSUME NEW next \in {"key", "value"}, Flip(Top(w)).side = next
        PROVE  InStep(f, [c EXCEPT ![n] = next], count)
    <3> DEFINE d == [c EXCEPT ![n] = next]
    <3>1. d \in Seq({"key", "value"}) /\ Len(d) = n
          /\ \A j \in 1..n : d[j] = IF j = n THEN next ELSE c[j]
      BY <1>0, <2>1, <2>2
    <3> HIDE DEF d, f, n
    <3>2. \A j \in 1..n : d[j] = f.loops[j].side
      BY <1>0, <2>1, <2>3, <3>1 DEF InStep, n
    <3> QED
      BY <1>0, <2>1, <3>1, <3>2 DEF InStep, d
  <2> HIDE DEF f, n
  <2>4. CASE Top(w).side = "key"
    <3>1. Goes(to, s, [c EXCEPT ![n] = "value"], count)
      BY <2>2, <2>4 DEF Returns
    <3>2. InStep(f, [c EXCEPT ![n] = "value"], count)
      BY <2>1, <2>3, <2>4, FlipIs
    <3> QED
      BY <2>4, <3>1, <3>2 DEF Goes, f
  <2>5. CASE Top(w).side = "value"
    <3>1. InStep(f, [c EXCEPT ![n] = "key"], count)
      BY <2>1, <2>3, <2>5, FlipIs
    <3>2. CASE CanSet(s)
      <4>1. Goes(to, SetTable(s), [c EXCEPT ![n] = "key"], count)
        BY <2>2, <2>5, <3>2 DEF Returns
      <4> QED
        BY <1>2, <2>5, <3>1, <3>2, <4>1 DEF Goes, f
    <3>3. CASE ~CanSet(s)
      <4>1. Ends(<<"raised">>)
        BY <2>2, <2>5, <3>3 DEF Returns
      <4> QED
        BY <1>2, <2>5, <3>3, <4>1
    <3> QED
      BY <3>2, <3>3
  <2> QED
    BY <2>1, <2>4, <2>5
<1> QED
  BY <1>1, <1>2

\* The pair lua_next gives changes nothing that the reader depends on.
LEMMA ChoosesSame ==
    ASSUME NEW a, NEW w, Good(a, w), NEW u, Chooses(w, u), NEW v, Awaits(a, u, v)
    PROVE  /\ \A pos : Places(w, pos) => Places(u, pos) /\ Height(u, pos) = Height(w, pos)
           /\ \A c, k : InStep(w, c, k) => InStep(u, c, k)
           /\ \A s, pos : Exact(a, s, w, pos) => Exact(a, s, u, pos)
           /\ \A s, pos : Short(s, w, pos) => Short(s, u, pos)
<1> DEFINE n == Len(w.loops)
<1>1. CASE u = w
  BY <1>1
<1>2. CASE u # w
  <2>1. PICK p : /\ w.loops # <<>> /\ Top(w).side = "key"
                 /\ u = WithTop(w, Loop(Top(w).pairs, Top(w).done, p, "key"))
    BY <1>2 DEF Chooses
  <2> DEFINE t == Loop(Top(w).pairs, Top(w).done, p, "key")
  <2>2. w \in Writers /\ n \in Nat /\ n \in 1..n /\ Top(w) = w.loops[n]
    BY <2>1, LoopsCounted DEF Good, Top
  <2>3. u = [w EXCEPT !.loops = [w.loops EXCEPT ![n] = t]]
    BY <2>1 DEF WithTop
  <2>4. u.arg = w.arg /\ u.loops = [w.loops EXCEPT ![n] = t]
    BY <2>2, <2>3 DEF Writers
  <2>5. Len(u.loops) = n /\ \A j \in 1..n : u.loops[j] = IF j = n THEN t ELSE w.loops[j]
    BY <2>2, <2>4, LoopsCounted
  <2>6. t.side = "key" /\ t.done = Top(w).done
    BY LoopIs
  <2>7. u.loops # <<>> /\ Top(u) = t
    BY <2>2, <2>5 DEF Top
  <2>8. /\ \A j \in 1..n : u.loops[j].side = w.loops[j].side /\ u.loops[j].done = w.loops[j].done
        /\ \A j \in 1..n : w.loops[j].side = "value" => u.loops[j] = w.loops[j]
        /\ \A j \in 1..n : Keys(u.loops[j]) = Keys(w.loops[j])
        /\ Keys(Top(u)) = Keys(Top(w))
    BY <2>1, <2>2, <2>5, <2>6, <2>7 DEF Keys
  <2> HIDE DEF t
  <2>9. \A pos : Height(u, pos) = Height(w, pos)
    BY <2>1, <2>5, <2>7, <2>8 DEF Height
  <2>10. ASSUME NEW pos, Places(w, pos) PROVE Places(u, pos)
    <3>1. ASSUME NEW j \in 1..n
          PROVE  /\ pos[j] = IF j = 1 THEN u.arg + 1 ELSE pos[j - 1] + Keys(u.loops[j - 1]) + 1
                 /\ u.arg < pos[j]
                 /\ \A i \in 1..n : i < j => pos[i] + Keys(u.loops[i]) < pos[j]
      <4>1. j # 1 => j - 1 \in 1..n
        BY <2>2
      <4> QED
        BY <2>4, <2>8, <2>10, <4>1 DEF Places
    <3> QED
      BY <2>5, <2>10, <3>1 DEF Places
  <2>11. \A c, k : InStep(w, c, k) => InStep(u, c, k)
    BY <2>4, <2>5, <2>8 DEF InStep
  <2>12. \A s, pos : Exact(a, s, w, pos) => Exact(a, s, u, pos)
    BY <2>4, <2>5, <2>8, <2>9 DEF Exact
  <2>13. \A s, pos : Short(s, w, pos) => Short(s, u, pos)
    BY <2>1, <2>5, <2>6, <2>7, <2>9 DEF Short
  <2> QED
    BY <2>9, <2>10, <2>11, <2>12, <2>13
<1> QED
  BY <1>1, <1>2

\* What is awaited was pushed on a stack that has all.
LEMMA ArgPushed ==
    ASSUME NEW a, NEW w, Good(a, w), NEW v, Awaits(a, w, v), w.loops = <<>>,
           NEW s, NEW pos, Exact(a, s, w, pos)
    PROVE  Exact(a, s \o <<v>>, Finished(w), pos)
<1> DEFINE t == s \o <<v>>
           f == Finished(w)
<1>1. w.arg \in Nat /\ w.arg >= 1 /\ v = a[w.arg]
  BY DEF Good, Awaits, Writers
<1>2. Len(s) = w.arg /\ s[1] = Packed /\ IsStack(s) /\ \A i \in 1..(w.arg - 1) : s[i + 1] = a[i]
  BY DEF Exact, Height
<1>3. IsStack(t) /\ Len(t) = w.arg + 1 /\ t[w.arg + 1] = v /\ \A i \in 1..w.arg : t[i] = s[i]
  <2>1. /\ IsStack(s \o <<v>>) /\ Len(s \o <<v>>) = Len(s) + 1
        /\ (s \o <<v>>)[Len(s) + 1] = v
        /\ \A i \in 1..Len(s) : (s \o <<v>>)[i] = s[i]
    BY <1>2, StackPush, Zenon
  <2> QED
    BY <1>2, <2>1, Zenon
<1>4. f = [arg |-> w.arg + 1, loops |-> <<>>]
  BY FinishedIs
<1>5. f.arg = w.arg + 1 /\ f.loops = <<>> /\ Len(f.loops) = 0
  BY <1>4
<1> HIDE DEF t, f
<1>6. t[1] = Packed
  BY <1>1, <1>2, <1>3
<1>7. ASSUME NEW i \in 1..w.arg PROVE t[i + 1] = a[i]
  <2>1. CASE i = w.arg
    BY <1>1, <1>3, <2>1
  <2>2. CASE i # w.arg
    <3>1. i \in 1..(w.arg - 1) /\ i + 1 \in 1..w.arg
      BY <1>1, <2>2
    <3> QED
      BY <1>2, <1>3, <3>1
  <2> QED
    BY <2>1, <2>2
<1>8. f.arg - 1 = w.arg
  BY <1>1, <1>5
<1>9. Exact(a, t, f, pos)
  <2>1. Len(t) = Height(f, pos)
    BY <1>3, <1>5 DEF Height
  <2>2. \A j \in 1..Len(f.loops) : FALSE
    BY <1>5
  <2> QED
    BY <1>3, <1>6, <1>7, <1>8, <2>1, <2>2, Zenon DEF Exact
<1> QED
  BY <1>9 DEF t, f

LEMMA KeyPushed ==
    ASSUME NEW a, NEW w, Good(a, w), NEW v, Awaits(a, w, v), w.loops # <<>>, Top(w).side = "key",
           NEW s, NEW pos, Places(w, pos), Exact(a, s, w, pos)
    PROVE  Exact(a, s \o <<v>>, Finished(w), pos)
<1> DEFINE t == s \o <<v>>
           f == Finished(w)
           n == Len(w.loops)
<1>0. w \in Writers
  BY DEF Good
<1>1. /\ f.arg = w.arg /\ f.loops # <<>> /\ Len(f.loops) = n /\ Top(f) = Flip(Top(w))
      /\ \A j \in 1..n : f.loops[j] = IF j = n THEN Flip(Top(w)) ELSE w.loops[j]
      /\ n \in Nat /\ n >= 1 /\ n \in 1..n /\ Top(w) = w.loops[n] /\ w.arg \in Nat /\ w.arg >= 1
  BY FinishedLoops
<1>2. Flip(Top(w)).side = "value" /\ Flip(Top(w)).done = Top(w).done /\ Flip(Top(w)).now = Top(w).now
  BY FlipIs
<1>3. v = Top(w).now[1]
  BY DEF Awaits, Due
<1>4. IsStack(s) /\ Len(s) = pos[n] /\ pos[n] \in Nat /\ pos[n] > w.arg
  <2>1. pos[n] \in Nat /\ pos[n] > w.arg
    BY <1>1 DEF Places
  <2>2. IsStack(s) /\ Len(s) = Height(w, pos)
    BY DEF Exact
  <2>3. Height(w, pos) = pos[n] + 0
    BY Zenon DEF Height, Keys
  <2> QED
    BY <2>1, <2>2, <2>3
<1>5. IsStack(t) /\ Len(t) = pos[n] + 1 /\ t[pos[n] + 1] = v /\ \A i \in 1..pos[n] : t[i] = s[i]
  <2>1. /\ IsStack(s \o <<v>>) /\ Len(s \o <<v>>) = Len(s) + 1
        /\ (s \o <<v>>)[Len(s) + 1] = v
        /\ \A i \in 1..Len(s) : (s \o <<v>>)[i] = s[i]
    BY <1>4, StackPush, Zenon
  <2> QED
    BY <1>4, <2>1, Zenon
<1> HIDE DEF t, f
<1>6. Height(f, pos) = pos[n] + 1
  BY <1>1, <1>2 DEF Height, Keys
<1>7. t[1] = Packed /\ \A i \in 1..(w.arg - 1) : t[i + 1] = a[i]
  <2>1. s[1] = Packed /\ \A i \in 1..(w.arg - 1) : s[i + 1] = a[i]
    BY DEF Exact
  <2>2. 1 \in 1..pos[n] /\ \A i \in 1..(w.arg - 1) : i + 1 \in 1..pos[n]
    BY <1>1, <1>4
  <2> QED
    BY <1>5, <2>1, <2>2
<1>8. ASSUME NEW j \in 1..n
      PROVE  t[pos[j]] = Tab(f.loops[j].done)
             /\ (f.loops[j].side = "value" => t[pos[j] + 1] = f.loops[j].now[1])
  <2>1. s[pos[j]] = Tab(w.loops[j].done) /\ (w.loops[j].side = "value" => s[pos[j] + 1] = w.loops[j].now[1])
    BY DEF Exact
  <2>2. CASE j = n
    <3>1. f.loops[j] = Flip(Top(w)) /\ pos[n] \in 1..pos[n]
      BY <1>1, <1>4, <2>2
    <3> QED
      BY <1>1, <1>2, <1>3, <1>5, <2>1, <2>2, <3>1
  <2>3. CASE j # n
    <3>1. f.loops[j] = w.loops[j]
      BY <1>1, <2>3
    <3>2. pos[j] \in Nat /\ pos[j] >= 1 /\ pos[j] + Keys(w.loops[j]) < pos[n]
      BY <1>0, <2>3, PlacesBelow
    <3>3. pos[j] \in 1..pos[n] /\ pos[j] + 1 \in 1..pos[n]
      BY <1>4, <3>2 DEF Keys
    <3> QED
      BY <1>5, <2>1, <3>1, <3>3
  <2> QED
    BY <2>2, <2>3
<1>9. Exact(a, t, f, pos)
  BY <1>1, <1>5, <1>6, <1>7, <1>8 DEF Exact
<1> QED
  BY <1>9 DEF t, f

LEMMA ValuePushed ==
    ASSUME NEW a \in Seq(Values), NEW w, Good(a, w), NEW v, Awaits(a, w, v), w.loops # <<>>,
           Top(w).side = "value", NEW s, NEW pos, Places(w, pos), Exact(a, s, w, pos)
    PROVE  CanSet(s \o <<v>>) /\ Exact(a, SetTable(s \o <<v>>), Finished(w), pos)
<1> DEFINE t == s \o <<v>>
           f == Finished(w)
           n == Len(w.loops)
           l == Top(w)
           h == pos[n]
<1>0. w \in Writers
  BY DEF Good
<1>1. /\ f.arg = w.arg /\ f.loops # <<>> /\ Len(f.loops) = n /\ Top(f) = Flip(l)
      /\ \A j \in 1..n : f.loops[j] = IF j = n THEN Flip(l) ELSE w.loops[j]
      /\ n \in Nat /\ n >= 1 /\ n \in 1..n /\ l = w.loops[n] /\ w.arg \in Nat /\ w.arg >= 1
  BY FinishedLoops
<1>2. Flip(l).side = "key" /\ Flip(l).done = l.done \cup {l.now}
  BY FlipIs
<1>3. v = l.now[2] /\ v # Nil
  BY AwaitedIsValue DEF Awaits, Due
<1>4. IsStack(s) /\ Len(s) = h + 1 /\ h \in Nat /\ h > w.arg
  BY <1>1 DEF Exact, Height, Keys, Places
<1>5. s[h] = Tab(l.done) /\ s[h + 1] = l.now[1]
  BY <1>1 DEF Exact
<1>6. IsStack(t) /\ Len(t) = h + 2 /\ t[h + 2] = v /\ t[h + 1] = l.now[1] /\ t[h] = Tab(l.done)
      /\ \A i \in 1..(h + 1) : t[i] = s[i]
  <2>1. IsStack(t) /\ Len(t) = h + 2 /\ t[h + 2] = v /\ \A i \in 1..(h + 1) : t[i] = s[i]
    <3>1. /\ IsStack(s \o <<v>>) /\ Len(s \o <<v>>) = Len(s) + 1
          /\ (s \o <<v>>)[Len(s) + 1] = v
          /\ \A i \in 1..Len(s) : (s \o <<v>>)[i] = s[i]
      BY <1>4, StackPush, Zenon
    <3>2. h + 1 + 1 = h + 2
      BY <1>4
    <3> QED
      BY <1>4, <3>1, <3>2, Zenon
  <2>2. h + 1 \in 1..(h + 1) /\ h \in 1..(h + 1)
    BY <1>1, <1>4
  <2> QED
    BY <1>5, <2>1, <2>2
<1>7. l.now \in Content \X Content /\ l.now \in l.pairs /\ l.now \notin l.done /\ l.done \subseteq l.pairs
      /\ l.now[1] # Nil /\ l.now = <<l.now[1], l.now[2]>>
  <2>1. l.now \in Content \X Content /\ l.now \in l.pairs \ l.done /\ l.done \subseteq l.pairs
    BY TopIsGood
  <2> QED
    BY <2>1 DEF Content
<1>8. \A p \in l.done : p[1] # l.now[1]
  <2>1. Tab(l.pairs) \in Values
    BY TopIsGood
  <2>2. \A p, q \in l.pairs : p[1] = q[1] => p = q
    BY <2>1, ValueKinds, KindsDiffer
  <2> QED
    BY <1>7, <2>2
<1> HIDE DEF t, f, n, l, h
<1>9. (h + 2) - 2 = h /\ (h + 2) - 1 = h + 1 /\ h + 2 >= 3 /\ (h + 2) - 3 = h - 1
  BY <1>1, <1>4
<1>10. CanSet(t)
  <2>1. t[Len(t) - 2] = Tab(l.done) /\ t[Len(t) - 1] = l.now[1] /\ Len(t) >= 3
    BY <1>6, <1>9, Zenon
  <2>2. Tab(l.done)[1] = "table" /\ l.now[1] # Nil
    BY <1>7, KindsDiffer
  <2> QED
    BY <2>1, <2>2, Zenon DEF CanSet
<1> DEFINE x == SetTable(t)
<1>11. IsStack(x) /\ Len(x) = h /\ x[h] = Tab(l.done \cup {l.now}) /\ \A i \in 1..(h - 1) : x[i] = s[i]
  <2>1. IsStack(x) /\ Len(x) = h /\ (\A i \in 1..(h - 1) : x[i] = t[i])
        /\ x[h] = LET others == {p \in t[h][2] : p[1] # t[h + 1]}
                  IN Tab(IF t[h + 2] = Nil THEN others ELSE others \cup {<<t[h + 1], t[h + 2]>>})
    <3>1. /\ IsStack(SetTable(t)) /\ Len(SetTable(t)) = Len(t) - 2
          /\ \A i \in 1..(Len(t) - 3) : SetTable(t)[i] = t[i]
          /\ SetTable(t)[Len(t) - 2] =
               LET others == {p \in t[Len(t) - 2][2] : p[1] # t[Len(t) - 1]}
               IN Tab(IF t[Len(t)] = Nil THEN others ELSE others \cup {<<t[Len(t) - 1], t[Len(t)]>>})
      BY <1>6, <1>9, StackSet, Zenon
    <3>2. Len(t) - 2 = h /\ Len(t) - 1 = h + 1 /\ Len(t) - 3 = h - 1 /\ Len(t) = h + 2
      BY <1>6, <1>9, Zenon
    <3> QED
      BY <3>1, <3>2, Zenon
  <2>2. t[h][2] = l.done
    BY <1>6, KindsDiffer
  <2>3. {p \in t[h][2] : p[1] # t[h + 1]} = l.done
    BY <1>6, <1>8, <2>2
  <2>4. <<t[h + 1], t[h + 2]>> = l.now /\ t[h + 2] # Nil
    BY <1>3, <1>6, <1>7
  <2>5. x[h] = Tab(l.done \cup {l.now})
    BY <2>1, <2>3, <2>4
  <2>6. \A i \in 1..(h - 1) : i \in 1..(h + 1)
    BY <1>4
  <2> QED
    BY <1>6, <2>1, <2>5, <2>6
<1> HIDE DEF x
<1>12. Height(f, pos) = h
  BY <1>1, <1>2, <1>4 DEF Height, Keys, n, h
<1>13. x[1] = Packed /\ \A i \in 1..(w.arg - 1) : x[i + 1] = a[i]
  <2>1. s[1] = Packed /\ \A i \in 1..(w.arg - 1) : s[i + 1] = a[i]
    BY DEF Exact
  <2>2. 1 \in 1..(h - 1) /\ \A i \in 1..(w.arg - 1) : i + 1 \in 1..(h - 1)
    BY <1>1, <1>4
  <2> QED
    BY <1>11, <2>1, <2>2
<1>14. ASSUME NEW j \in 1..n
       PROVE  x[pos[j]] = Tab(f.loops[j].done)
              /\ (f.loops[j].side = "value" => x[pos[j] + 1] = f.loops[j].now[1])
  <2>1. CASE j = n
    <3>1. f.loops[j] = Flip(l) /\ pos[j] = h
      BY <1>1, <2>1 DEF h
    <3> QED
      BY <1>2, <1>11, <3>1
  <2>2. CASE j # n
    <3>1. s[pos[j]] = Tab(w.loops[j].done)
          /\ (w.loops[j].side = "value" => s[pos[j] + 1] = w.loops[j].now[1])
      BY DEF Exact, n
    <3>2. f.loops[j] = w.loops[j]
      BY <1>1, <2>2
    <3>3. pos[j] \in Nat /\ pos[j] >= 1 /\ pos[j] + Keys(w.loops[j]) < h
      BY <1>0, <2>2, PlacesBelow DEF n, h
    <3>4. pos[j] \in 1..(h - 1) /\ (w.loops[j].side = "value" => pos[j] + 1 \in 1..(h - 1))
      BY <1>4, <3>3 DEF Keys
    <3> QED
      BY <1>11, <3>1, <3>2, <3>4
  <2> QED
    BY <2>1, <2>2
<1>15. Exact(a, x, f, pos)
  BY <1>1, <1>11, <1>12, <1>13, <1>14 DEF Exact, n
<1> QED
  BY <1>10, <1>15 DEF t, f, x

LEMMA CallsCounted ==
    ASSUME NEW c \in Seq({"key", "value"})
    PROVE  /\ Len(c) \in Nat /\ (c = <<>> <=> Len(c) = 0)
           /\ Append(c, "key") \in Seq({"key", "value"}) /\ Len(Append(c, "key")) = Len(c) + 1
           /\ Append(c, "key")[Len(c) + 1] = "key"
           /\ \A j \in 1..Len(c) : Append(c, "key")[j] = c[j]
           /\ c # <<>> => LET d == SubSeq(c, 1, Len(c) - 1)
                          IN /\ d \in Seq({"key", "value"}) /\ Len(d) = Len(c) - 1
                             /\ \A j \in 1..(Len(c) - 1) : d[j] = c[j]
<1>1. Len(c) \in Nat /\ (c = <<>> <=> Len(c) = 0)
  OBVIOUS
<1>2. /\ Append(c, "key") \in Seq({"key", "value"}) /\ Len(Append(c, "key")) = Len(c) + 1
      /\ Append(c, "key")[Len(c) + 1] = "key"
      /\ \A j \in 1..Len(c) : Append(c, "key")[j] = c[j]
  OBVIOUS
<1>3. ASSUME c # <<>>
      PROVE  /\ SubSeq(c, 1, Len(c) - 1) \in Seq({"key", "value"})
             /\ Len(SubSeq(c, 1, Len(c) - 1)) = Len(c) - 1
             /\ \A j \in 1..(Len(c) - 1) : SubSeq(c, 1, Len(c) - 1)[j] = c[j]
  <2>1. Len(c) >= 1 /\ Len(c) - 1 \in Nat /\ Len(c) - 1 <= Len(c)
    BY <1>1, <1>3
  <2> DEFINE k == Len(c) - 1
  <2>2. k \in Nat /\ k <= Len(c)
    BY <2>1
  <2> HIDE DEF k
  <2>3. SubSeq(c, 1, k) \in Seq({"key", "value"}) /\ Len(SubSeq(c, 1, k)) = k
        /\ \A j \in 1..k : SubSeq(c, 1, k)[j] = c[j]
    BY <1>1, <2>2
  <2> QED
    BY <2>3 DEF k
<1> QED
  BY <1>1, <1>2, <1>3, Zenon

\* A table is entered: it lies on the stack, and has a call of lua_pushtable.
LEMMA EnteredReader ==
    ASSUME NEW a \in Seq(Values), NEW w, Good(a, w), NEW v, Awaits(a, w, v), v[1] = "table",
           NEW pos, Places(w, pos), NEW c, NEW k, InStep(w, c, k)
    PROVE  \E pos2 :
            /\ Places(Begun(w, v), pos2) /\ InStep(Begun(w, v), Append(c, "key"), k)
            /\ \A s : Exact(a, s, w, pos) => Exact(a, Append(s, Tab({})), Begun(w, v), pos2)
            /\ \A s : TooShort(s, Height(w, pos)) /\ w.loops # <<>> =>
                        Short(Append(s, Tab({})), Begun(w, v), pos2)
<1> DEFINE x == Begun(w, v)
           t == Loop(v[2], {}, <<>>, "key")
           n == Len(w.loops)
           h == Height(w, pos)
           pos2 == [pos EXCEPT ![n + 1] = h + 1]
<1>1. w \in Writers /\ t \in Frames /\ x = [w EXCEPT !.loops = Append(@, t)]
  BY EnteredGood DEF Good
<1>2. n \in Nat /\ w.arg \in Nat /\ w.arg >= 1 /\ (w.loops = <<>> <=> n = 0)
      /\ (n # 0 => n \in 1..n)
  BY <1>1, LoopsCounted DEF Good
<1>3. /\ x \in Writers /\ x.arg = w.arg /\ x.loops # <<>> /\ Len(x.loops) = n + 1
      /\ x.loops[n + 1] = t /\ \A j \in 1..n : x.loops[j] = w.loops[j]
  <2> DEFINE y == [w EXCEPT !.loops = Append(@, t)]
  <2>1. /\ y \in Writers /\ y.arg = w.arg /\ y.loops # <<>> /\ Len(y.loops) = n + 1
        /\ y.loops[n + 1] = t /\ \A j \in 1..n : y.loops[j] = w.loops[j]
    BY <1>1, EnteredIs
  <2> HIDE DEF y
  <2>2. x = y
    BY <1>1 DEF y
  <2> QED
    BY <2>1, <2>2
<1>4. t.side = "key" /\ t.done = {}
  BY LoopIs
<1>5. h \in Nat /\ h >= w.arg /\ \A j \in 1..n : pos[j] \in Nat /\ pos[j] >= 1 /\ pos[j] + Keys(w.loops[j]) <= h
  <2>1. CASE n = 0
    BY <1>2, <2>1 DEF Height
  <2>2. CASE n # 0
    BY <1>1, <1>2, <2>2, PlacesBelow
  <2> QED
    BY <2>1, <2>2
<1>6. n # 0 => h = pos[n] + Keys(w.loops[n])
  BY <1>1, <1>2 DEF Height, Top
<1>0. pos2 \in [Nat -> Nat] /\ pos2[n + 1] = h + 1 /\ \A j \in 1..n : pos2[j] = pos[j]
  <2>1. pos \in [Nat -> Nat]
    BY DEF Places
  <2>2. n + 1 \in Nat /\ h + 1 \in Nat /\ \A j \in 1..n : j \in Nat /\ j # n + 1
    BY <1>2, <1>5
  <2> QED
    BY <2>1, <2>2
<1> HIDE DEF x, t, n, h, pos2
<1>7. pos2[n + 1] = h + 1 /\ \A j \in 1..n : pos2[j] = pos[j]
  BY <1>0, Zenon
<1>8. Top(x) = t /\ Height(x, pos2) = h + 1
  <2>1. Top(x) = t
    BY <1>3 DEF Top
  <2> QED
    BY <1>3, <1>4, <1>5, <1>7, <2>1 DEF Height, Keys
<1>9. ASSUME NEW j \in 1..(n + 1)
      PROVE  /\ pos2[j] = IF j = 1 THEN x.arg + 1 ELSE pos2[j - 1] + Keys(x.loops[j - 1]) + 1
             /\ x.arg < pos2[j]
             /\ \A i \in 1..(n + 1) : i < j => pos2[i] + Keys(x.loops[i]) < pos2[j]
  <2>1. CASE j = n + 1
    <3>1. j # 1 => n # 0 /\ j - 1 = n
      BY <1>2, <2>1
    <3>2. CASE n = 0
      <4>1. h = w.arg
        BY <1>2, <3>2 DEF Height, h
      <4> QED
        BY <1>2, <1>3, <1>7, <2>1, <3>2, <4>1
    <3>3. CASE n # 0
      <4>0. n \in 1..n
        BY <1>2, <3>3
      <4>1. pos2[n] = pos[n] /\ x.loops[n] = w.loops[n] /\ j # 1
        BY <1>2, <1>3, <1>7, <2>1, <3>3, <4>0
      <4>2. \A i \in 1..(n + 1) : i < j => i \in 1..n
        BY <1>2, <2>1
      <4>3. \A i \in 1..n : pos2[i] + Keys(x.loops[i]) < h + 1
        <5> SUFFICES ASSUME NEW i \in 1..n PROVE pos2[i] + Keys(x.loops[i]) < h + 1
          OBVIOUS
        <5>1. Keys(w.loops[i]) \in {0, 1} /\ pos[i] \in Nat /\ pos[i] + Keys(w.loops[i]) <= h
          BY <1>5 DEF Keys
        <5> QED
          BY <1>3, <1>5, <1>7, <5>1
      <4>4. pos2[j] = h + 1 /\ x.arg < pos2[j]
        BY <1>2, <1>3, <1>5, <1>7, <2>1
      <4>5. pos2[j] = pos2[j - 1] + Keys(x.loops[j - 1]) + 1
        <5>1. pos2[j - 1] = pos[n] /\ x.loops[j - 1] = w.loops[n]
          BY <3>1, <4>1
        <5>2. h + 1 = pos[n] + Keys(w.loops[n]) + 1
          BY <1>6, <3>3
        <5> QED
          BY <4>4, <5>1, <5>2, Zenon
      <4>6. \A i \in 1..(n + 1) : i < j => pos2[i] + Keys(x.loops[i]) < pos2[j]
        BY <4>2, <4>3, <4>4, Zenon
      <4> QED
        BY <4>1, <4>4, <4>5, <4>6, Zenon
    <3> QED
      BY <3>2, <3>3
  <2>2. CASE j # n + 1
    <3>1. j \in 1..n /\ pos2[j] = pos[j]
      BY <1>2, <1>7, <2>2
    <3>2. j # 1 => j - 1 \in 1..n /\ pos2[j - 1] = pos[j - 1] /\ x.loops[j - 1] = w.loops[j - 1]
      BY <1>2, <1>3, <1>7, <3>1
    <3>3. \A i \in 1..(n + 1) : i < j => i \in 1..n /\ pos2[i] = pos[i] /\ x.loops[i] = w.loops[i]
      BY <1>2, <1>3, <1>7, <3>1
    <3> QED
      BY <1>3, <3>1, <3>2, <3>3 DEF Places, n
  <2> QED
    BY <2>1, <2>2
<1>10. Places(x, pos2)
  BY <1>0, <1>3, <1>9 DEF Places
<1>11. InStep(x, Append(c, "key"), k)
  <2> DEFINE d == Append(c, "key")
  <2>1. c \in Seq({"key", "value"}) /\ Len(c) = n /\ k = w.arg - 1 /\ \A j \in 1..n : c[j] = w.loops[j].side
    BY DEF InStep, n
  <2>2. d \in Seq({"key", "value"}) /\ Len(d) = n + 1 /\ d[n + 1] = "key" /\ \A j \in 1..n : d[j] = c[j]
    BY <2>1, CallsCounted, Zenon
  <2> HIDE DEF d
  <2>3. ASSUME NEW j \in 1..(n + 1) PROVE d[j] = x.loops[j].side
    <3>1. j = n + 1 \/ j \in 1..n
      BY <1>2
    <3> QED
      BY <1>3, <1>4, <2>1, <2>2, <3>1
  <2> QED
    BY <1>3, <2>1, <2>2, <2>3 DEF InStep, d
<1>12. ASSUME NEW s, IsStack(s)
       PROVE  /\ IsStack(Append(s, Tab({}))) /\ Len(Append(s, Tab({}))) = Len(s) + 1
              /\ Append(s, Tab({}))[Len(s) + 1] = Tab({}) /\ Len(s) \in Nat
              /\ \A i \in 1..Len(s) : Append(s, Tab({}))[i] = s[i]
  <2> DEFINE r == s \o <<Tab({})>>
  <2>1. /\ IsStack(r) /\ Len(r) = Len(s) + 1 /\ r[Len(s) + 1] = Tab({}) /\ Len(s) \in Nat
        /\ \A i \in 1..Len(s) : r[i] = s[i]
    BY <1>12, StackPush
  <2>2. Append(s, Tab({})) = r
    BY <1>12, StackPush
  <2> HIDE DEF r
  <2> QED
    BY <2>1, <2>2, Zenon
<1>13. ASSUME NEW s, Exact(a, s, w, pos) PROVE Exact(a, Append(s, Tab({})), x, pos2)
  <2> DEFINE r == Append(s, Tab({}))
  <2>1. /\ IsStack(s) /\ Len(s) = h /\ s[1] = Packed /\ \A i \in 1..(w.arg - 1) : s[i + 1] = a[i]
        /\ \A j \in 1..n : /\ s[pos[j]] = Tab(w.loops[j].done)
                           /\ w.loops[j].side = "value" => s[pos[j] + 1] = w.loops[j].now[1]
    BY <1>13 DEF Exact, h, n
  <2>2. IsStack(r) /\ Len(r) = h + 1 /\ r[h + 1] = Tab({}) /\ \A i \in 1..h : r[i] = s[i]
    BY <1>12, <2>1, Zenon
  <2> HIDE DEF r
  <2>3. r[1] = Packed /\ \A i \in 1..(w.arg - 1) : r[i + 1] = a[i]
    <3>1. 1 \in 1..h /\ \A i \in 1..(w.arg - 1) : i + 1 \in 1..h
      BY <1>2, <1>5
    <3> QED
      BY <2>1, <2>2, <3>1
  <2>4. ASSUME NEW j \in 1..(n + 1)
        PROVE  r[pos2[j]] = Tab(x.loops[j].done)
               /\ (x.loops[j].side = "value" => r[pos2[j] + 1] = x.loops[j].now[1])
    <3>1. CASE j = n + 1
      BY <1>3, <1>4, <1>7, <2>2, <3>1
    <3>2. CASE j # n + 1
      <4>1. j \in 1..n /\ pos2[j] = pos[j] /\ x.loops[j] = w.loops[j]
        BY <1>2, <1>3, <1>7, <3>2
      <4>2. pos[j] \in 1..h /\ (w.loops[j].side = "value" => pos[j] + 1 \in 1..h)
        BY <1>5, <4>1 DEF Keys
      <4> QED
        BY <2>1, <2>2, <4>1, <4>2
    <3> QED
      BY <3>1, <3>2
  <2>5. Exact(a, r, x, pos2)
    BY <1>3, <1>8, <2>2, <2>3, <2>4 DEF Exact
  <2> QED
    BY <2>5 DEF r
<1>14. ASSUME NEW s, TooShort(s, h), w.loops # <<>> PROVE Short(Append(s, Tab({})), x, pos2)
  <2> DEFINE r == Append(s, Tab({}))
  <2>1. IsStack(s) /\ Len(s) >= 1 /\ s[1] = Packed /\ Len(s) < h
    BY <1>14 DEF TooShort
  <2>2. IsStack(r) /\ Len(r) = Len(s) + 1 /\ Len(s) \in Nat /\ \A i \in 1..Len(s) : r[i] = s[i]
    BY <1>12, <2>1, Zenon
  <2> HIDE DEF r
  <2>3. r[1] = Packed /\ Len(r) >= 1 /\ Len(r) < h + 1
    BY <1>5, <2>1, <2>2
  <2>4. Len(x.loops) # 1
    BY <1>2, <1>3, <1>14
  <2>5. Short(r, x, pos2)
    BY <1>3, <1>8, <2>2, <2>3, <2>4 DEF Short, TooShort
  <2> QED
    BY <2>5 DEF r
<1> QED
  BY <1>10, <1>11, <1>13, <1>14 DEF x, h

\* A table's End is read: without the table, the reader is at what awaits it.
LEMMA PoppedReader ==
    ASSUME NEW a, NEW w, Good(a, w), w.loops # <<>>, Top(w).side = "key",
           NEW pos, Places(w, pos), NEW c, NEW k, InStep(w, c, k)
    PROVE  /\ Places(Pop(w), pos) /\ InStep(Pop(w), SubSeq(c, 1, Len(c) - 1), k)
           /\ c # <<>> /\ c[Len(c)] = "key"
           /\ Height(w, pos) = Height(Pop(w), pos) + 1 /\ Height(Pop(w), pos) \in Nat
           /\ \A s : Exact(a, s, w, pos) =>
                \E s0 : Exact(a, s0, Pop(w), pos) /\ s = s0 \o <<Tab(Top(w).done)>>
<1> DEFINE x == Pop(w)
           n == Len(w.loops)
           h == Height(x, pos)
<1>1. w \in Writers
  BY DEF Good
<1>2. n \in Nat /\ n >= 1 /\ n \in 1..n /\ Top(w) = w.loops[n] /\ w.arg \in Nat /\ w.arg >= 1
  BY <1>1, LoopsCounted DEF Good, Top
<1>3. x \in Writers /\ x.arg = w.arg /\ Len(x.loops) = n - 1 /\ \A j \in 1..(n - 1) : x.loops[j] = w.loops[j]
  BY <1>1, PoppedIs
<1>4. x.loops # <<>> => Top(x) = w.loops[n - 1]
  BY PopGood
<1>5. x.loops = <<>> <=> n = 1
  <2>1. x.loops = <<>> <=> Len(x.loops) = 0
    BY <1>3, LoopsCounted
  <2> QED
    BY <1>2, <1>3, <2>1
<1> HIDE DEF x, n, h
<1>6. pos[n] = h + 1 /\ h \in Nat /\ h >= w.arg
  <2>1. pos[n] \in Nat /\ w.arg < pos[n]
        /\ pos[n] = IF n = 1 THEN w.arg + 1 ELSE pos[n - 1] + Keys(w.loops[n - 1]) + 1
    BY <1>2 DEF Places, n
  <2>2. h = IF n = 1 THEN w.arg ELSE pos[n - 1] + Keys(w.loops[n - 1])
    BY <1>3, <1>4, <1>5 DEF Height, h
  <2>3. n # 1 => pos[n - 1] \in Nat /\ Keys(w.loops[n - 1]) \in Nat
    BY <1>2 DEF Places, Keys
  <2> QED
    BY <1>2, <2>1, <2>2, <2>3
<1>7. Height(w, pos) = h + 1
  BY <1>2, <1>6 DEF Height, Keys, n
<1>8. Places(x, pos)
  <2>1. ASSUME NEW j \in 1..(n - 1)
        PROVE  /\ pos[j] = IF j = 1 THEN x.arg + 1 ELSE pos[j - 1] + Keys(x.loops[j - 1]) + 1
               /\ x.arg < pos[j]
               /\ \A i \in 1..(n - 1) : i < j => pos[i] + Keys(x.loops[i]) < pos[j]
    <3>1. j \in 1..n /\ \A i \in 1..(n - 1) : i \in 1..n
      BY <1>2
    <3>2. j # 1 => x.loops[j - 1] = w.loops[j - 1]
      BY <1>2, <1>3
    <3> QED
      BY <1>3, <3>1, <3>2 DEF Places, n
  <2> QED
    BY <1>3, <2>1 DEF Places
<1>9. InStep(x, SubSeq(c, 1, Len(c) - 1), k) /\ c # <<>> /\ c[Len(c)] = "key"
  <2> DEFINE d == SubSeq(c, 1, Len(c) - 1)
  <2>1. c \in Seq({"key", "value"}) /\ Len(c) = n /\ k = w.arg - 1 /\ \A j \in 1..n : c[j] = w.loops[j].side
    BY DEF InStep, n
  <2>2. c # <<>>
    BY <1>2, <2>1, CallsCounted
  <2>3. d \in Seq({"key", "value"}) /\ Len(d) = n - 1 /\ \A j \in 1..(n - 1) : d[j] = c[j]
    BY <2>1, <2>2, CallsCounted, Zenon
  <2> HIDE DEF d
  <2>4. \A j \in 1..(n - 1) : j \in 1..n
    BY <1>2
  <2>5. InStep(x, d, k)
    BY <1>3, <2>1, <2>3, <2>4 DEF InStep
  <2> QED
    BY <1>2, <2>1, <2>2, <2>5 DEF d
<1>10. ASSUME NEW s, Exact(a, s, w, pos)
       PROVE  \E s0 : Exact(a, s0, x, pos) /\ s = s0 \o <<Tab(Top(w).done)>>
  <2> DEFINE s0 == SubSeq(s, 1, h)
  <2>1. /\ IsStack(s) /\ Len(s) = h + 1 /\ s[1] = Packed /\ \A i \in 1..(w.arg - 1) : s[i + 1] = a[i]
        /\ \A j \in 1..n : /\ s[pos[j]] = Tab(w.loops[j].done)
                           /\ w.loops[j].side = "value" => s[pos[j] + 1] = w.loops[j].now[1]
    BY <1>7, <1>10 DEF Exact, n
  <2>2. IsStack(s0) /\ Len(s0) = h /\ \A i \in 1..h : s0[i] = s[i]
    BY <1>6, <2>1, StackPop
  <2>3. s = s0 \o <<Tab(Top(w).done)>>
    <3>1. s[h + 1] = Tab(Top(w).done)
      BY <1>2, <1>6, <2>1
    <3>2. PICK S : s \in Seq(S)
      BY <2>1 DEF IsStack
    <3>3. s = SubSeq(s, 1, h) \o <<s[h + 1]>>
      BY <1>6, <2>1, <3>2
    <3> QED
      BY <3>1, <3>3
  <2> HIDE DEF s0
  <2>4. s0[1] = Packed /\ \A i \in 1..(w.arg - 1) : s0[i + 1] = a[i]
    <3>1. 1 \in 1..h /\ \A i \in 1..(w.arg - 1) : i + 1 \in 1..h
      BY <1>2, <1>6
    <3> QED
      BY <2>1, <2>2, <3>1
  <2>5. ASSUME NEW j \in 1..(n - 1)
        PROVE  s0[pos[j]] = Tab(x.loops[j].done)
               /\ (x.loops[j].side = "value" => s0[pos[j] + 1] = x.loops[j].now[1])
    <3>1. j \in 1..n /\ j # n /\ x.loops[j] = w.loops[j]
      BY <1>2, <1>3
    <3>2. pos[j] \in Nat /\ pos[j] >= 1 /\ pos[j] + Keys(w.loops[j]) < pos[n]
      BY <1>1, <3>1, PlacesBelow DEF n
    <3>3. pos[j] \in 1..h /\ (w.loops[j].side = "value" => pos[j] + 1 \in 1..h)
      BY <1>6, <3>2 DEF Keys
    <3> QED
      BY <2>1, <2>2, <3>1, <3>3
  <2>6. Exact(a, s0, x, pos)
    BY <1>3, <2>2, <2>4, <2>5 DEF Exact, h
  <2> QED
    BY <2>3, <2>6
<1> QED
  BY <1>6, <1>7, <1>8, <1>9, <1>10 DEF x, h

\* A value was pushed on a stack that has all before it: so it has after the return.
LEMMA ExactReturns ==
    ASSUME NEW a \in Seq(Values), NEW w, Good(a, w), NEW v, Awaits(a, w, v),
           NEW pos, Places(w, pos), NEW c, InStep(w, c, count),
           NEW s, Exact(a, s, w, pos), NEW to, Returns(s \o <<v>>, c, to)
    PROVE  /\ at' = to /\ UNCHANGED <<doing, result>>
           /\ Places(Finished(w), pos) /\ InStep(Finished(w), calls', count')
           /\ Exact(a, stack', Finished(w), pos)
<1>1. Places(Finished(w), pos)
  BY FinishedPlaces
<1> DEFINE t == s \o <<v>>
<1>2. \/ Ends(<<"raised">>) /\ w.loops # <<>> /\ Top(w).side = "value" /\ ~CanSet(t)
      \/ /\ at' = to /\ UNCHANGED <<doing, result>> /\ InStep(Finished(w), calls', count')
         /\ stack' = IF w.loops # <<>> /\ Top(w).side = "value" THEN SetTable(t) ELSE t
  BY ReturnInStep
<1>3. CASE w.loops = <<>>
  <2>1. Exact(a, t, Finished(w), pos)
    BY <1>3, ArgPushed
  <2> QED
    BY <1>1, <1>2, <1>3, <2>1
<1>4. CASE w.loops # <<>> /\ Top(w).side = "key"
  <2>1. Exact(a, t, Finished(w), pos)
    BY <1>4, KeyPushed
  <2> QED
    BY <1>1, <1>2, <1>4, <2>1
<1>5. CASE w.loops # <<>> /\ Top(w).side = "value"
  <2>1. CanSet(t) /\ Exact(a, SetTable(t), Finished(w), pos)
    BY <1>5, ValuePushed
  <2> QED
    BY <1>1, <1>2, <1>5, <2>1
<1> QED
  BY <1>3, <1>4, <1>5, TopIsGood

\* On a stack that is too short, a pair is set in the table it belongs to only while
\* another table is below: in a table packed alone the last pair raises an error.
LEMMA ShortReturns ==
    ASSUME NEW a \in Seq(Values), Len(a) = 1, NEW w, Good(a, w), NEW v, Awaits(a, w, v), w.loops # <<>>,
           NEW pos, Places(w, pos), NEW c, InStep(w, c, count),
           NEW s, TooShort(s, Height(w, pos) + 1), NEW to, Returns(s, c, to)
    PROVE  \/ Ends(<<"raised">>)
           \/ /\ at' = to /\ UNCHANGED <<doing, result>>
              /\ Places(Finished(w), pos) /\ InStep(Finished(w), calls', count')
              /\ Short(stack', Finished(w), pos)
<1> DEFINE f == Finished(w)
           n == Len(w.loops)
           l == Top(w)
           h == pos[n]
<1>1. /\ f.arg = w.arg /\ f.loops # <<>> /\ Len(f.loops) = n /\ Top(f) = Flip(l)
      /\ n \in Nat /\ n >= 1 /\ n \in 1..n /\ w.arg \in Nat /\ w.arg >= 1
      /\ l.side \in {"key", "value"}
  BY FinishedLoops
<1>2. Places(f, pos)
  BY FinishedPlaces
<1>3. \/ Ends(<<"raised">>)
      \/ /\ at' = to /\ UNCHANGED <<doing, result>> /\ InStep(f, calls', count')
         /\ stack' = IF l.side = "value" THEN SetTable(s) ELSE s
         /\ l.side = "value" => CanSet(s)
  BY ReturnInStep
<1>4. h \in Nat /\ (n = 1 => h = w.arg + 1)
  BY <1>1 DEF Places
<1>5. Height(w, pos) = h + Keys(l) /\ Height(f, pos) = h + Keys(Flip(l))
  BY <1>1 DEF Height
<1>6. IsStack(s) /\ Len(s) >= 1 /\ s[1] = Packed /\ Len(s) < Height(w, pos) + 1 /\ Len(s) \in Nat
  BY StackPush DEF TooShort
<1>7. w.arg = 1
  BY <1>1 DEF Good
<1> HIDE DEF f, n, l, h
<1>8. ASSUME l.side = "key"
      PROVE  Short(s, f, pos)
  <2>1. Keys(l) = 0 /\ Flip(l).side = "value" /\ Keys(Flip(l)) = 1
    BY <1>8, FlipIs DEF Keys
  <2>2. Height(f, pos) = Height(w, pos) + 1
    BY <1>4, <1>5, <2>1
  <2> QED
    BY <1>1, <1>6, <2>1, <2>2 DEF Short, TooShort
<1>9. ASSUME l.side = "value", CanSet(s)
      PROVE  Short(SetTable(s), f, pos)
  <2>1. Keys(l) = 1 /\ Flip(l).side = "key" /\ Keys(Flip(l)) = 0
    BY <1>9, FlipIs DEF Keys
  <2>2. Len(s) < h + 2 /\ Height(f, pos) = h
    BY <1>4, <1>5, <1>6, <2>1
  <2>3. Len(s) >= 3 /\ s[Len(s) - 2][1] = "table"
    BY <1>9 DEF CanSet
  <2>4. Len(s) - 2 # 1
    <3>1. Packed[1] = "packed"
      BY DEF Packed
    <3> QED
      BY <1>6, <2>3, <3>1, Zenon
  <2>5. Len(s) >= 4
    <3>1. \A k \in Nat : k >= 3 /\ k - 2 # 1 => k >= 4
      OBVIOUS
    <3> QED
      BY <1>6, <2>3, <2>4, <3>1, Zenon
  <2>6. n # 1
    BY <1>4, <1>7, <2>2, <2>5, <1>6
  <2>7. IsStack(SetTable(s)) /\ Len(SetTable(s)) = Len(s) - 2 /\ SetTable(s)[1] = s[1]
    <3>1. 1 \in 1..(Len(s) - 3)
      BY <1>6, <2>5
    <3> QED
      BY <1>6, <2>3, <3>1, StackSet
  <2>8. Len(SetTable(s)) >= 1 /\ Len(SetTable(s)) < h
    BY <1>4, <1>6, <2>2, <2>5, <2>7
  <2> QED
    BY <1>1, <1>6, <2>2, <2>6, <2>7, <2>8 DEF Short, TooShort
<1> QED
  BY <1>1, <1>2, <1>3, <1>8, <1>9 DEF f

-----------------------------------------------------------------------------
(* The marks in a row. *)

\* At every mark of mk, up to offset up, the writer W there writes the mark and then is at
\* the next; w is where it is behind the last one.
Row(a, mk, W, up, w) ==
    /\ up \in Nat /\ up >= 4 /\ 4 \in DOMAIN mk \cup {up}
    /\ W[4] = Start /\ W[up] = w /\ Good(a, w)
    /\ \A o \in DOMAIN mk :
        LET e == o + Bytes(mk[o])
        IN /\ o \in Nat /\ o >= 4 /\ Bytes(mk[o]) \in Nat /\ Bytes(mk[o]) > 0
           /\ e \in DOMAIN mk \cup {up} /\ e <= up
           /\ \A q \in DOMAIN mk : o < q => e <= q
           /\ Good(a, W[o]) /\ Writes(a, W[o], mk[o], W[e])

LEMMA StartIsGood == \A a \in Seq(Values) : Good(a, Start)
<1> SUFFICES ASSUME NEW a \in Seq(Values) PROVE Good(a, Start)
  OBVIOUS
<1>1. Start \in Writers /\ Start.arg = 1 /\ Start.loops = <<>> /\ Len(Start.loops) = 0 /\ Len(a) \in Nat
  BY DEF Start, Writers
<1> QED
  BY <1>1 DEF Good

LEMMA RowBegins ==
    ASSUME NEW a \in Seq(Values), NEW mk, DOMAIN mk = {}
    PROVE  \E W : Row(a, mk, W, 4, Start)
<1> DEFINE W == [o \in {4} |-> Start]
<1>1. Row(a, mk, W, 4, Start)
  BY StartIsGood DEF Row
<1> QED
  BY <1>1

LEMMA RowGrows ==
    ASSUME NEW a \in Seq(Values), NEW mk, NEW W, NEW up, NEW w, Row(a, mk, W, up, w),
           NEW m, NEW x, Writes(a, w, m, x), NEW mk2,
           mk2 = [o \in DOMAIN mk \cup {up} |-> IF o = up THEN m ELSE mk[o]]
    PROVE  \E W2 : Row(a, mk2, W2, up + Bytes(m), x)
<1> DEFINE next == up + Bytes(m)
           W2 == [o \in DOMAIN mk \cup {up, next} |-> IF o = next THEN x ELSE W[o]]
<1>1. Good(a, w) /\ up \in Nat /\ up >= 4 /\ 4 \in DOMAIN mk \cup {up} /\ W[4] = Start /\ W[up] = w
  BY DEF Row
<1>2. Good(a, x) /\ Bytes(m) \in Nat /\ Bytes(m) > 0
  <2>1. Good(a, x) /\ (m = End \/ \E v \in Values : v # Other /\ m = Mark(v))
    BY <1>1, WritesGood
  <2>2. CASE m = End
    BY <2>1, <2>2, KindsDiffer DEF Bytes
  <2>3. CASE \E v \in Values : v # Other /\ m = Mark(v)
    BY <2>1, <2>3, PiecesMakeMark
  <2> QED
    BY <2>1, <2>2, <2>3
<1>3. next \in Nat /\ next > up /\ next >= 4 /\ next # 4
  BY <1>1, <1>2
<1>4. ASSUME NEW o \in DOMAIN mk
      PROVE  LET e == o + Bytes(mk[o])
             IN /\ o \in Nat /\ o >= 4 /\ Bytes(mk[o]) \in Nat /\ Bytes(mk[o]) > 0
                /\ e \in DOMAIN mk \cup {up} /\ e <= up /\ e \in Nat /\ o < up
                /\ \A q \in DOMAIN mk : o < q => e <= q
                /\ Good(a, W[o]) /\ Writes(a, W[o], mk[o], W[e])
  <2>1. LET e == o + Bytes(mk[o])
        IN /\ o \in Nat /\ o >= 4 /\ Bytes(mk[o]) \in Nat /\ Bytes(mk[o]) > 0
           /\ e \in DOMAIN mk \cup {up} /\ e <= up
           /\ \A q \in DOMAIN mk : o < q => e <= q
           /\ Good(a, W[o]) /\ Writes(a, W[o], mk[o], W[e])
    BY DEF Row
  <2>2. o + Bytes(mk[o]) \in Nat /\ o < up
    BY <1>1, <2>1
  <2> QED
    BY <2>1, <2>2
<1>5. DOMAIN mk2 = DOMAIN mk \cup {up} /\ mk2[up] = m /\ up \notin DOMAIN mk
      /\ \A o \in DOMAIN mk : mk2[o] = mk[o]
  <2>1. \A o \in DOMAIN mk : o < up /\ o \in Nat
    BY <1>4
  <2>2. up \notin DOMAIN mk
    BY <1>1, <2>1
  <2> QED
    BY <2>2
<1>6. W2[next] = x /\ \A o \in DOMAIN mk \cup {up} : W2[o] = W[o]
  <2>1. \A o \in DOMAIN mk \cup {up} : o # next
    BY <1>1, <1>3, <1>4
  <2> QED
    BY <2>1
<1> HIDE DEF next, W2
<1>7. 4 \in DOMAIN mk2 \cup {next} /\ W2[4] = Start
  BY <1>1, <1>5, <1>6
<1>8. ASSUME NEW o \in DOMAIN mk2
      PROVE  LET e == o + Bytes(mk2[o])
             IN /\ o \in Nat /\ o >= 4 /\ Bytes(mk2[o]) \in Nat /\ Bytes(mk2[o]) > 0
                /\ e \in DOMAIN mk2 \cup {next} /\ e <= next
                /\ \A q \in DOMAIN mk2 : o < q => e <= q
                /\ Good(a, W2[o]) /\ Writes(a, W2[o], mk2[o], W2[e])
  <2>1. CASE o = up
    <3>1. mk2[o] = m /\ o + Bytes(mk2[o]) = next
      BY <1>5, <2>1 DEF next
    <3>2. W2[o] = w
      BY <1>1, <1>6, <2>1
    <3>3. \A q \in DOMAIN mk2 : ~(o < q)
      BY <1>1, <1>4, <1>5, <2>1
    <3> QED
      BY <1>1, <1>2, <1>3, <1>6, <2>1, <3>1, <3>2, <3>3
  <2>2. CASE o # up
    <3>1. o \in DOMAIN mk /\ mk2[o] = mk[o] /\ W2[o] = W[o]
      BY <1>5, <1>6, <2>2
    <3> DEFINE e == o + Bytes(mk[o])
    <3>2. /\ o \in Nat /\ o >= 4 /\ Bytes(mk[o]) \in Nat /\ Bytes(mk[o]) > 0
          /\ e \in DOMAIN mk \cup {up} /\ e <= up /\ e \in Nat
          /\ \A q \in DOMAIN mk : o < q => e <= q
          /\ Good(a, W[o]) /\ Writes(a, W[o], mk[o], W[e])
      BY <1>4, <3>1
    <3> HIDE DEF e
    <3>3. W2[e] = W[e] /\ e \in DOMAIN mk2
      BY <1>5, <1>6, <3>2
    <3>4. e <= next
      BY <1>1, <1>3, <3>2
    <3>5. \A q \in DOMAIN mk2 : o < q => e <= q
      BY <1>5, <3>2
    <3> QED
      BY <3>1, <3>2, <3>3, <3>4, <3>5 DEF e
  <2> QED
    BY <2>1, <2>2
<1>9. Row(a, mk2, W2, next, x)
  BY <1>2, <1>3, <1>6, <1>7, <1>8 DEF Row
<1> QED
  BY <1>9 DEF next

\* Behind every mark but the last there is another one.
LEMMA NextMark ==
    ASSUME NEW a \in Seq(Values), NEW mk, NEW W, NEW up, NEW w, Row(a, mk, W, up, w),
           w.arg = Len(a) + 2, NEW o \in DOMAIN mk,
           ~WritesEnd(a, W[o], mk[o], W[o + Bytes(mk[o])])
    PROVE  o + Bytes(mk[o]) \in DOMAIN mk
<1>1. Good(a, W[o]) /\ Writes(a, W[o], mk[o], W[o + Bytes(mk[o])])
      /\ o + Bytes(mk[o]) \in DOMAIN mk \cup {up} /\ W[up] = w
  BY DEF Row
<1>2. W[o + Bytes(mk[o])].arg <= Len(a) + 1
  BY <1>1, WritesGood
<1>3. Len(a) \in Nat
  OBVIOUS
<1> QED
  BY <1>1, <1>2, <1>3

-----------------------------------------------------------------------------
(* A mark is read. *)

Lone(a) == Len(a) = 1 /\ a[1][1] = "table"

\* unpack is where pack was at w, with all values on its stack, or, if some scalar is not
\* portable (kept is not true), with too few of a table packed alone.
Follows(a, kept, w, s, c, k) ==
    \E pos : /\ Places(w, pos) /\ InStep(w, c, k)
             /\ Exact(a, s, w, pos) \/ (~kept /\ Lone(a) /\ Short(s, w, pos))

LEMMA MarkKinds ==
    ASSUME NEW v \in Values
    PROVE  Mark(v) # End /\ (Mark(v) = <<"table">> <=> v[1] = "table")
<1>1. CASE v \in {Nil, NaN, Other, Bool(0), Bool(1)}
  <2>1. v[1] \in {"nil", "nan", "other", "boolean"} /\ Mark(v) = v
    BY <1>1, KindsDiffer DEF Mark
  <2>2. <<"table">>[1] = "table"
    OBVIOUS
  <2> QED
    BY <2>1, <2>2, KindsDiffer
<1>2. CASE \E h \in Int : v = Num(h)
  <2>1. v[1] = "number" /\ Mark(v) = v
    BY <1>2, KindsDiffer DEF Mark
  <2>2. <<"table">>[1] = "table"
    OBVIOUS
  <2> QED
    BY <2>1, <2>2, KindsDiffer
<1>3. CASE \E n \in Nat : v = Str(n)
  <2>1. v[1] = "string" /\ Mark(v)[1] = "string"
    BY <1>3, KindsDiffer DEF Mark
  <2>2. <<"table">>[1] = "table"
    OBVIOUS
  <2> QED
    BY <2>1, <2>2, KindsDiffer
<1>4. CASE \E pairs : v = Tab(pairs)
  <2>1. v[1] = "table" /\ Mark(v) = <<"table">>
    BY <1>4, KindsDiffer DEF Mark
  <2>2. <<"table">>[1] = "table"
    OBVIOUS
  <2> QED
    BY <2>1, <2>2, KindsDiffer
<1> QED
  BY <1>1, <1>2, <1>3, <1>4, ValueKinds

\* Where the writer wrote the mark of a value, that is awaited there, perhaps after
\* lua_next gave a pair, which the reader does not depend on.
LEMMA ValueAwaited ==
    ASSUME NEW a \in Seq(Values), NEW w, Good(a, w), NEW m, m # End, NEW x, Writes(a, w, m, x),
           NEW kept \in BOOLEAN, NEW s, NEW c, NEW k, Follows(a, kept, w, s, c, k)
    PROVE  \E u, v, pos :
            /\ Good(a, u) /\ Awaits(a, u, v) /\ v \in Values /\ v # Other
            /\ m = Mark(v) /\ x = Begun(u, v)
            /\ Places(u, pos) /\ InStep(u, c, k)
            /\ Exact(a, s, u, pos) \/ (~kept /\ Lone(a) /\ Short(s, u, pos))
<1>1. WritesValue(a, w, m, x)
  BY DEF Writes, WritesTableEnd, WritesEnd
<1>2. PICK u, v : Chooses(w, u) /\ Awaits(a, u, v) /\ v # Other /\ m = Mark(v) /\ x = Begun(u, v)
  BY <1>1 DEF WritesValue
<1>3. Good(a, u) /\ v \in Values
  BY <1>2, ChoosesGood, AwaitedIsValue
<1>4. PICK pos : /\ Places(w, pos) /\ InStep(w, c, k)
                 /\ Exact(a, s, w, pos) \/ (~kept /\ Lone(a) /\ Short(s, w, pos))
  BY DEF Follows
<1>5. /\ Places(u, pos) /\ InStep(u, c, k)
      /\ Exact(a, s, u, pos) \/ (~kept /\ Lone(a) /\ Short(s, u, pos))
  BY <1>2, <1>4, ChoosesSame, Zenon
<1> QED
  BY <1>2, <1>3, <1>5, Zenon

\* The stack of a reader is not empty.
LEMMA StackHeight ==
    ASSUME NEW a, NEW w, Good(a, w), NEW pos, Places(w, pos)
    PROVE  Height(w, pos) \in Nat /\ Height(w, pos) >= 1
<1>1. w \in Writers /\ w.arg \in Nat /\ w.arg >= 1
  BY LoopsCounted DEF Good
<1>2. CASE w.loops = <<>>
  BY <1>1, <1>2 DEF Height
<1>3. CASE w.loops # <<>>
  <2>1. Len(w.loops) \in 1..Len(w.loops)
    BY <1>1, <1>3, LoopsCounted
  <2>2. Height(w, pos) \in Nat /\ Height(w, pos) >= w.arg
    BY <1>1, <2>1, PlacesBelow
  <2> QED
    BY <1>1, <2>2
<1> QED
  BY <1>2, <1>3

LEMMA ScalarFollows ==
    ASSUME NEW a \in Seq(Values), NEW w, Good(a, w), NEW m, NEW x, Writes(a, w, m, x),
           NEW kept \in BOOLEAN, kept \/ Lone(a), Uncut(m), kept => Portable(m),
           Follows(a, kept, w, stack, calls, count), m \notin {<<"table">>, End},
           IF m[1] = "string" /\ ReadLength(m[2]) < 0 THEN Ends(<<"raised">>)
           ELSE Returns(stack \o Pushed(m), calls, at + Used(m))
    PROVE  \/ Ends(<<"raised">>) /\ ~kept /\ Lone(a)
           \/ /\ at' = at + Bytes(m) /\ UNCHANGED <<doing, result>>
              /\ Follows(a, kept, x, stack', calls', count')
<1>1. PICK u, v, pos :
        /\ Good(a, u) /\ Awaits(a, u, v) /\ v \in Values /\ v # Other
        /\ m = Mark(v) /\ x = Begun(u, v)
        /\ Places(u, pos) /\ InStep(u, calls, count)
        /\ Exact(a, stack, u, pos) \/ (~kept /\ Lone(a) /\ Short(stack, u, pos))
  BY ValueAwaited
<1>2. v[1] # "table" /\ x = Finished(u)
  BY <1>1, MarkKinds DEF Begun
<1>3. \/ m[1] = "string" /\ ReadLength(m[2]) < 0 /\ ~Portable(m)
      \/ /\ ~(m[1] = "string" /\ ReadLength(m[2]) < 0)
         /\ Used(m) = Bytes(m)
         /\ Pushed(m) = <<v>> \/ (Pushed(m) = <<>> /\ ~Portable(m))
  BY <1>1, <1>2, ScalarRead
<1>4. Height(u, pos) \in Nat /\ Height(u, pos) >= 1
  BY <1>1, StackHeight
<1>5. IsStack(stack) /\ Len(stack) \in Nat /\ Len(stack) >= 1 /\ stack[1] = Packed
  <2>1. IsStack(stack) /\ stack[1] = Packed /\ (Len(stack) = Height(u, pos) \/ Len(stack) >= 1)
    BY <1>1 DEF Exact, Short, TooShort
  <2> QED
    BY <1>4, <2>1, StackPush
<1>6. Len(stack) <= Height(u, pos)
  <2>1. Len(stack) = Height(u, pos) \/ Len(stack) < Height(u, pos)
    BY <1>1 DEF Exact, Short, TooShort
  <2> QED
    BY <1>4, <1>5, <2>1
<1>7. CASE m[1] = "string" /\ ReadLength(m[2]) < 0 /\ ~Portable(m)
  BY <1>7
<1>8. CASE ~(m[1] = "string" /\ ReadLength(m[2]) < 0) /\ Used(m) = Bytes(m) /\ Pushed(m) = <<v>>
  <2>1. Returns(stack \o <<v>>, calls, at + Bytes(m))
    BY <1>8
  <2>2. CASE Exact(a, stack, u, pos)
    <3>1. /\ at' = at + Bytes(m) /\ UNCHANGED <<doing, result>>
          /\ Places(x, pos) /\ InStep(x, calls', count') /\ Exact(a, stack', x, pos)
      BY <1>1, <1>2, <2>1, <2>2, ExactReturns
    <3> QED
      BY <3>1 DEF Follows
  <2>3. CASE ~kept /\ Lone(a) /\ Short(stack, u, pos)
    <3>1. TooShort(stack \o <<v>>, Height(u, pos) + 1) /\ u.loops # <<>> /\ Len(a) = 1
      <4>1. Len(stack) < Height(u, pos) /\ u.loops # <<>> /\ Len(a) = 1
        BY <2>3 DEF Short, TooShort, Lone
      <4>2. IsStack(stack \o <<v>>) /\ Len(stack \o <<v>>) = Len(stack) + 1
            /\ (stack \o <<v>>)[1] = Packed
        <5>1. 1 \in 1..Len(stack)
          BY <1>5
        <5>2. /\ IsStack(stack \o <<v>>) /\ Len(stack \o <<v>>) = Len(stack) + 1
              /\ \A i \in 1..Len(stack) : (stack \o <<v>>)[i] = stack[i]
          BY <1>5, StackPush, Zenon
        <5> QED
          BY <1>5, <5>1, <5>2, Zenon
      <4>3. Len(stack) + 1 >= 1 /\ Len(stack) + 1 < Height(u, pos) + 1
        BY <1>4, <1>5, <4>1
      <4> QED
        BY <4>1, <4>2, <4>3, Zenon DEF TooShort
    <3>2. \/ Ends(<<"raised">>)
          \/ /\ at' = at + Bytes(m) /\ UNCHANGED <<doing, result>>
             /\ Places(x, pos) /\ InStep(x, calls', count') /\ Short(stack', x, pos)
      BY <1>1, <1>2, <2>1, <3>1, ShortReturns
    <3> QED
      BY <2>3, <3>2 DEF Follows
  <2> QED
    BY <1>1, <2>2, <2>3
<1>9. CASE /\ ~(m[1] = "string" /\ ReadLength(m[2]) < 0) /\ Used(m) = Bytes(m)
           /\ Pushed(m) = <<>> /\ ~Portable(m)
  <2>1. ~kept /\ Lone(a) /\ Len(a) = 1 /\ a[1][1] = "table"
    BY <1>9 DEF Lone
  <2>2. Returns(stack, calls, at + Bytes(m))
    <3>1. stack \o <<>> = stack
      BY <1>5, StackPush
    <3> QED
      BY <1>9, <3>1
  <2>3. u.loops # <<>>
    <3>1. SUFFICES ASSUME u.loops = <<>> PROVE FALSE
      OBVIOUS
    <3>2. u.arg <= Len(a) /\ u.arg \in Nat /\ u.arg >= 1 /\ v = a[u.arg]
      BY <1>1, <3>1 DEF Awaits, Good, Writers
    <3>3. u.arg = 1
      BY <2>1, <3>2
    <3> QED
      BY <1>2, <2>1, <3>2, <3>3
  <2>4. TooShort(stack, Height(u, pos) + 1)
    BY <1>4, <1>5, <1>6 DEF TooShort
  <2>5. \/ Ends(<<"raised">>)
        \/ /\ at' = at + Bytes(m) /\ UNCHANGED <<doing, result>>
           /\ Places(x, pos) /\ InStep(x, calls', count') /\ Short(stack', x, pos)
    BY <1>1, <1>2, <2>1, <2>2, <2>3, <2>4, ShortReturns
  <2> QED
    BY <2>1, <2>5 DEF Follows
<1> QED
  BY <1>3, <1>7, <1>8, <1>9

LEMMA TableFollows ==
    ASSUME NEW a \in Seq(Values), NEW w, Good(a, w), NEW m, NEW x, Writes(a, w, m, x),
           NEW kept \in BOOLEAN, Follows(a, kept, w, stack, calls, count), m = <<"table">>,
           Goes(at + 1, Append(stack, Tab({})), Append(calls, "key"), count)
    PROVE  /\ at' = at + Bytes(m) /\ UNCHANGED <<doing, result>>
           /\ Follows(a, kept, x, stack', calls', count')
<1>0. m # End /\ Bytes(m) = 1
  BY KindsDiffer DEF Bytes
<1>1. PICK u, v, pos :
        /\ Good(a, u) /\ Awaits(a, u, v) /\ v \in Values /\ v # Other
        /\ m = Mark(v) /\ x = Begun(u, v)
        /\ Places(u, pos) /\ InStep(u, calls, count)
        /\ Exact(a, stack, u, pos) \/ (~kept /\ Lone(a) /\ Short(stack, u, pos))
  BY <1>0, ValueAwaited
<1>2. v[1] = "table"
  BY <1>1, MarkKinds
<1>3. PICK pos2 :
        /\ Places(x, pos2) /\ InStep(x, Append(calls, "key"), count)
        /\ \A s : Exact(a, s, u, pos) => Exact(a, Append(s, Tab({})), x, pos2)
        /\ \A s : TooShort(s, Height(u, pos)) /\ u.loops # <<>> => Short(Append(s, Tab({})), x, pos2)
  BY <1>1, <1>2, EnteredReader
<1>4. /\ at' = at + Bytes(m) /\ UNCHANGED <<doing, result>>
      /\ stack' = Append(stack, Tab({})) /\ calls' = Append(calls, "key") /\ count' = count
  BY <1>0 DEF Goes
<1>5. Exact(a, stack', x, pos2) \/ (~kept /\ Lone(a) /\ Short(stack', x, pos2))
  <2>1. CASE Exact(a, stack, u, pos)
    BY <1>3, <1>4, <2>1, Zenon
  <2>2. CASE ~kept /\ Lone(a) /\ Short(stack, u, pos)
    BY <1>3, <1>4, <2>2, Zenon DEF Short
  <2> QED
    BY <1>1, <2>1, <2>2
<1> QED
  BY <1>3, <1>4, <1>5, Zenon DEF Follows

LEMMA TableEndFollows ==
    ASSUME NEW a \in Seq(Values), NEW w, Good(a, w), NEW m, NEW x, Writes(a, w, m, x),
           NEW kept \in BOOLEAN, Follows(a, kept, w, stack, calls, count), m = End, calls # <<>>,
           IF calls[Len(calls)] = "key" THEN Returns(stack, SubSeq(calls, 1, Len(calls) - 1), at + 1)
           ELSE Ends(<<"raised">>)
    PROVE  \/ Ends(<<"raised">>) /\ ~kept /\ Lone(a)
           \/ /\ at' = at + Bytes(m) /\ UNCHANGED <<doing, result>>
              /\ Follows(a, kept, x, stack', calls', count')
<1>0. Bytes(m) = 1
  BY KindsDiffer DEF Bytes
<1>1. PICK pos : /\ Places(w, pos) /\ InStep(w, calls, count)
                 /\ Exact(a, stack, w, pos) \/ (~kept /\ Lone(a) /\ Short(stack, w, pos))
  BY DEF Follows
<1>2. w \in Writers /\ w.loops # <<>>
  <2>1. w \in Writers
    BY DEF Good
  <2>2. calls \in Seq({"key", "value"}) /\ Len(calls) = Len(w.loops)
    BY <1>1 DEF InStep
  <2>3. Len(w.loops) # 0
    BY <2>2, CallsCounted
  <2> QED
    BY <2>1, <2>3, LoopsCounted
<1>3. WritesTableEnd(w, m, x)
  <2>1. ~WritesValue(a, w, m, x)
    <3>1. SUFFICES ASSUME NEW u, NEW v, Chooses(w, u), Awaits(a, u, v), m = Mark(v) PROVE FALSE
      BY DEF WritesValue
    <3>2. v \in Values
      BY <3>1, ChoosesGood, AwaitedIsValue
    <3> QED
      BY <3>1, <3>2, MarkKinds
  <2>2. ~WritesEnd(a, w, m, x)
    BY <1>2 DEF WritesEnd
  <2> QED
    BY <2>1, <2>2 DEF Writes
<1> DEFINE p == Pop(w)
           c == SubSeq(calls, 1, Len(calls) - 1)
           v == Tab(Top(w).pairs)
<1>4. Top(w).side = "key" /\ Top(w).done = Top(w).pairs /\ x = Finished(p)
  BY <1>3 DEF WritesTableEnd
<1>5. /\ Places(p, pos) /\ InStep(p, c, count) /\ calls[Len(calls)] = "key"
      /\ Height(w, pos) = Height(p, pos) + 1 /\ Height(p, pos) \in Nat
      /\ \A s : Exact(a, s, w, pos) => \E s0 : Exact(a, s0, p, pos) /\ s = s0 \o <<Tab(Top(w).done)>>
  <2>1. Good(a, w) /\ Top(w).side = "key" /\ Places(w, pos) /\ InStep(w, calls, count)
    BY <1>1, <1>4
  <2>2. /\ Places(Pop(w), pos) /\ InStep(Pop(w), SubSeq(calls, 1, Len(calls) - 1), count)
        /\ calls # <<>> /\ calls[Len(calls)] = "key"
        /\ Height(w, pos) = Height(Pop(w), pos) + 1 /\ Height(Pop(w), pos) \in Nat
        /\ \A s : Exact(a, s, w, pos) =>
             \E s0 : Exact(a, s0, Pop(w), pos) /\ s = s0 \o <<Tab(Top(w).done)>>
    BY <1>2, <2>1, PoppedReader
  <2> QED
    BY <2>2, Zenon
<1>6. Good(a, p) /\ Awaits(a, p, v)
  BY <1>2, PopGood
<1>7. Returns(stack, c, at + 1)
  BY <1>5
<1> HIDE DEF p, c, v
<1>8. CASE Exact(a, stack, w, pos)
  <2>1. PICK s0 : Exact(a, s0, p, pos) /\ stack = s0 \o <<v>>
    BY <1>4, <1>5, <1>8 DEF v
  <2>2. Returns(s0 \o <<v>>, c, at + 1)
    BY <1>7, <2>1
  <2>3. /\ at' = at + 1 /\ UNCHANGED <<doing, result>>
        /\ Places(x, pos) /\ InStep(x, calls', count') /\ Exact(a, stack', x, pos)
    BY <1>4, <1>5, <1>6, <2>1, <2>2, ExactReturns
  <2> QED
    BY <1>0, <2>3 DEF Follows
<1>9. CASE ~kept /\ Lone(a) /\ Short(stack, w, pos)
  <2>1. TooShort(stack, Height(p, pos) + 1) /\ Len(w.loops) # 1 /\ Len(a) = 1
    BY <1>4, <1>5, <1>9 DEF Short, Lone
  <2>2. p.loops # <<>>
    <3>1. p \in Writers /\ Len(p.loops) = Len(w.loops) - 1 /\ Len(w.loops) \in Nat
      BY <1>2, PoppedIs, LoopsCounted DEF p
    <3>2. Len(p.loops) # 0
      BY <2>1, <3>1
    <3> QED
      BY <3>1, <3>2, LoopsCounted
  <2>3. \/ Ends(<<"raised">>)
        \/ /\ at' = at + 1 /\ UNCHANGED <<doing, result>>
           /\ Places(x, pos) /\ InStep(x, calls', count') /\ Short(stack', x, pos)
    BY <1>4, <1>5, <1>6, <1>7, <2>1, <2>2, ShortReturns
  <2> QED
    BY <1>0, <1>9, <2>3 DEF Follows
<1> QED
  BY <1>1, <1>8, <1>9

LEMMA EndFollows ==
    ASSUME NEW a \in Seq(Values), NEW w, Good(a, w), NEW m, NEW x, Writes(a, w, m, x),
           NEW kept \in BOOLEAN, Follows(a, kept, w, stack, calls, count), m = End, calls = <<>>
    PROVE  (IF count > Len(stack) THEN <<"garbage">>
            ELSE <<"ok", SubSeq(stack, Len(stack) - count + 1, Len(stack))>>) = <<"ok", a>>
<1>1. PICK pos : /\ Places(w, pos) /\ InStep(w, calls, count)
                 /\ Exact(a, stack, w, pos) \/ (~kept /\ Lone(a) /\ Short(stack, w, pos))
  BY DEF Follows
<1>2. w \in Writers /\ w.loops = <<>>
  <2>1. w \in Writers /\ Len(w.loops) = 0
    BY <1>1 DEF Good, InStep
  <2> QED
    BY <2>1, LoopsCounted
<1>3. w.arg = Len(a) + 1
  <2>1. ~WritesValue(a, w, m, x)
    <3>1. SUFFICES ASSUME NEW u, NEW v, Chooses(w, u), Awaits(a, u, v), m = Mark(v) PROVE FALSE
      BY DEF WritesValue
    <3>2. v \in Values
      BY <3>1, ChoosesGood, AwaitedIsValue
    <3> QED
      BY <3>1, <3>2, MarkKinds
  <2>2. ~WritesTableEnd(w, m, x)
    BY <1>2 DEF WritesTableEnd
  <2> QED
    BY <2>1, <2>2 DEF Writes, WritesEnd
<1>4. count = w.arg - 1 /\ Exact(a, stack, w, pos)
  BY <1>1, <1>2 DEF InStep, Short
<1>5. IsStack(stack) /\ Len(stack) = w.arg /\ \A i \in 1..(w.arg - 1) : stack[i + 1] = a[i]
  BY <1>2, <1>4 DEF Exact, Height
<1>6. Len(a) \in Nat
  OBVIOUS
<1>7. count = Len(a) /\ Len(stack) = Len(a) + 1 /\ \A i \in 1..Len(a) : stack[i + 1] = a[i]
  BY <1>3, <1>4, <1>5, <1>6
<1>8. PICK S : stack \in Seq(S)
  BY <1>5 DEF IsStack
<1>9. ~(count > Len(stack)) /\ Len(stack) - count + 1 = 2
  BY <1>6, <1>7
<1>10. SubSeq(stack, 2, Len(stack)) = a
  <2> DEFINE r == SubSeq(stack, 2, Len(stack))
  <2>1. Len(r) = Len(a) /\ r \in Seq(S) /\ \A i \in 1..Len(a) : r[i] = stack[i + 1]
    BY <1>6, <1>7, <1>8
  <2> HIDE DEF r
  <2>2. \A i \in 1..Len(a) : r[i] = a[i]
    BY <1>7, <2>1
  <2>3. r = a
    BY <2>1, <2>2
  <2> QED
    BY <2>3 DEF r
<1> QED
  BY <1>9, <1>10

-----------------------------------------------------------------------------
(* The inductive invariant. *)

Kept == \A o \in DOMAIN marks : Portable(marks[o])
Readable == Kept \/ (Lone(args) /\ \A o \in DOMAIN marks : Uncut(marks[o]))

\* Where the pieces of the mark that is being appended will end.
Upto == IF doing = "pack" THEN (IF mpc = "grow" THEN write ELSE size) + Total(todo) ELSE ls

Live == doing \in {"unpack", "reading", "done"} \/ (doing = "pack" /\ broken = {})

\* The marks stand in a row, and unpack follows the writers that wrote them.
InRow(W) ==
    /\ Row(args, marks, W, Upto, writer)
    /\ doing = "reading" /\ Readable => at \in DOMAIN marks /\ Follows(args, Kept, W[at], stack, calls, count)
    /\ doing = "done" /\ Readable /\ header # 16777216 =>
        result = <<"ok", args>> \/ (result = <<"raised">> /\ ~Kept /\ Lone(args))

PackingInv ==
    /\ MemInv
    /\ args \in Seq(Values)
    /\ doing = "nothing" => writer = Start /\ DOMAIN marks = {}
    /\ doing \in {"nothing", "pack", "unpack"} => calls = <<>> /\ count = 0
    /\ doing = "pack" => todo \in Seq(Nat) /\ Len(todo) <= 3 /\ Good(args, writer)
    /\ doing \in {"unpack", "reading", "done"} =>
        writer.arg = Len(args) + 2 /\ ls \in Nat /\ header = ls - 4
    /\ Live => \E W : InRow(W)

LEMMA InvStarts == Init => PackingInv
<1> SUFFICES ASSUME Init PROVE PackingInv
  OBVIOUS
<1>1. MemInv /\ doing = "nothing" /\ args = <<>> /\ writer = Start /\ marks = <<>> /\ calls = <<>> /\ count = 0
  BY MemInvStarts DEF Init
<1>2. DOMAIN marks = {} /\ args \in Seq(Values)
  BY <1>1
<1> QED
  BY <1>1, <1>2 DEF PackingInv, Live

\* Nothing is asked of the marks any more.
LEMMA LeftAlone ==
    ASSUME PackingInv, MemInv', args' = args, doing' \in {"raised", "other", "spoilt"}
    PROVE  PackingInv'
  BY DEF PackingInv, Live

LEMMA TotalIs ==
    ASSUME NEW s
    PROVE  /\ Len(s) = 0 => Total(s) = 0
           /\ Len(s) = 1 /\ s[1] \in Nat => Total(s) = s[1]
           /\ Len(s) = 2 /\ s[1] \in Nat /\ s[2] \in Nat => Total(s) = s[1] + s[2]
           /\ Len(s) = 3 /\ s[1] \in Nat /\ s[2] \in Nat /\ s[3] \in Nat => Total(s) = s[1] + s[2] + s[3]
<1>1. Len(s) = 0 => Total(s) = 0
  <2> SUFFICES ASSUME Len(s) = 0 PROVE Total(s) = 0
    OBVIOUS
  <2>1. Total(s) = (IF 0 > 0 THEN s[1] ELSE 0) + (IF 0 > 1 THEN s[2] ELSE 0) + (IF 0 > 2 THEN s[3] ELSE 0)
    BY Zenon DEF Total
  <2> QED
    BY <2>1, SMT
<1>2. Len(s) = 1 /\ s[1] \in Nat => Total(s) = s[1]
  <2> SUFFICES ASSUME Len(s) = 1 /\ s[1] \in Nat PROVE Total(s) = s[1]
    OBVIOUS
  <2>1. Total(s) = (IF 1 > 0 THEN s[1] ELSE 0) + (IF 1 > 1 THEN s[2] ELSE 0) + (IF 1 > 2 THEN s[3] ELSE 0)
    BY Zenon DEF Total
  <2> QED
    BY <2>1, SMT
<1>3. Len(s) = 2 /\ s[1] \in Nat /\ s[2] \in Nat => Total(s) = s[1] + s[2]
  <2> SUFFICES ASSUME Len(s) = 2 /\ s[1] \in Nat /\ s[2] \in Nat PROVE Total(s) = s[1] + s[2]
    OBVIOUS
  <2>1. Total(s) = (IF 2 > 0 THEN s[1] ELSE 0) + (IF 2 > 1 THEN s[2] ELSE 0) + (IF 2 > 2 THEN s[3] ELSE 0)
    BY Zenon DEF Total
  <2> QED
    BY <2>1, SMT
<1>4. Len(s) = 3 /\ s[1] \in Nat /\ s[2] \in Nat /\ s[3] \in Nat => Total(s) = s[1] + s[2] + s[3]
  <2> SUFFICES ASSUME Len(s) = 3 /\ s[1] \in Nat /\ s[2] \in Nat /\ s[3] \in Nat PROVE Total(s) = s[1] + s[2] + s[3]
    OBVIOUS
  <2>1. Total(s) = (IF 3 > 0 THEN s[1] ELSE 0) + (IF 3 > 1 THEN s[2] ELSE 0) + (IF 3 > 2 THEN s[3] ELSE 0)
    BY Zenon DEF Total
  <2> QED
    BY <2>1, SMT
<1> QED
  BY <1>1, <1>2, <1>3, <1>4, Zenon

LEMMA TotalOfTail ==
    ASSUME NEW s \in Seq(Nat), Len(s) <= 3, s # <<>>
    PROVE  /\ Head(s) \in Nat /\ Tail(s) \in Seq(Nat) /\ Len(Tail(s)) <= 3
           /\ Total(Tail(s)) \in Nat /\ Total(s) = Head(s) + Total(Tail(s))
<1>1. Len(s) \in Nat /\ Len(s) # 0
  OBVIOUS
<1>2. Head(s) = s[1] /\ Tail(s) \in Seq(Nat) /\ Len(Tail(s)) = Len(s) - 1
  OBVIOUS
<1>3. \A i \in 1..(Len(s) - 1) : Tail(s)[i] = s[i + 1]
  OBVIOUS
<1>4. \A i \in 1..Len(s) : s[i] \in Nat
  OBVIOUS
<1>5. PICK k \in Nat : k = Len(s)
  BY <1>1
<1>6. k \in {1, 2, 3}
  BY <1>1, <1>5
<1>7. CASE k = 1
  <2>1. s[1] \in Nat /\ Len(Tail(s)) = 0
    BY <1>2, <1>4, <1>5, <1>7
  <2>2. Total(s) = s[1] /\ Total(Tail(s)) = 0
    BY <1>5, <1>7, <2>1, TotalIs
  <2> QED
    BY <1>2, <2>1, <2>2
<1>8. CASE k = 2
  <2>1. s[1] \in Nat /\ s[2] \in Nat /\ Len(Tail(s)) = 1
    BY <1>2, <1>4, <1>5, <1>8
  <2>2. Tail(s)[1] = s[2]
    <3>1. 1 \in 1..(Len(s) - 1) /\ 1 + 1 = 2
      BY <1>5, <1>8
    <3> QED
      BY <1>3, <3>1, Zenon
  <2>3. Total(s) = s[1] + s[2] /\ Total(Tail(s)) = s[2]
    BY <1>5, <1>8, <2>1, <2>2, TotalIs
  <2> QED
    BY <1>2, <2>1, <2>3
<1>9. CASE k = 3
  <2>1. s[1] \in Nat /\ s[2] \in Nat /\ s[3] \in Nat /\ Len(Tail(s)) = 2
    BY <1>2, <1>4, <1>5, <1>9
  <2>2. Tail(s)[1] = s[2] /\ Tail(s)[2] = s[3]
    <3>1. 1 \in 1..(Len(s) - 1) /\ 1 + 1 = 2 /\ 2 \in 1..(Len(s) - 1) /\ 2 + 1 = 3
      BY <1>5, <1>9
    <3> QED
      BY <1>3, <3>1, Zenon
  <2>3. Total(s) = s[1] + s[2] + s[3] /\ Total(Tail(s)) = s[2] + s[3]
    BY <1>5, <1>9, <2>1, <2>2, TotalIs
  <2> QED
    BY <1>2, <2>1, <2>3
<1> QED
  BY <1>6, <1>7, <1>8, <1>9

LEMMA TotalsOfFew == Total(<<>>) = 0 /\ Total(<<4>>) = 4 /\ <<4>> \in Seq(Nat) /\ Len(<<4>>) = 1
  BY DEF Total

-----------------------------------------------------------------------------
(* pack keeps it. *)

\* While pack is at work only the row matters.
LEMMA PackGoesOn ==
    ASSUME MemInv', args' \in Seq(Values), doing' = "pack", calls' = <<>>, count' = 0,
           todo' \in Seq(Nat), Len(todo') <= 3, Good(args', writer'),
           broken' = {} => \E W : Row(args', marks', W, Upto', writer')
    PROVE  PackingInv'
<1>1. ASSUME Live' PROVE \E W : InRow(W)'
  <2>1. broken' = {}
    BY <1>1 DEF Live
  <2>2. PICK W : Row(args', marks', W, Upto', writer')
    BY <2>1
  <2>3. InRow(W)'
    BY <2>2 DEF InRow
  <2> QED
    BY <2>3
<1> QED
  BY <1>1 DEF PackingInv

LEMMA PackKeeps ==
    ASSUME PackingInv, NEW list \in ArgLists, Pack(list)
    PROVE  PackingInv'
<1>1. MemInv' /\ broken' = {} /\ size' = 0 /\ mpc' = "ready"
  BY BufferAssumption, RenewKeeps DEF PackingInv, Pack, Renew, MemIs
<1>2. /\ doing = "nothing" /\ doing' = "pack" /\ args' = list /\ todo' = <<4>>
      /\ writer' = writer /\ marks' = marks /\ calls' = calls /\ count' = count
  BY DEF Pack, reader
<1>3. writer' = Start /\ DOMAIN marks' = {} /\ calls' = <<>> /\ count' = 0 /\ list \in Seq(Values)
  BY <1>2, ValuesAssumption DEF PackingInv
<1>4. Upto' = 4
  BY <1>1, <1>2, TotalsOfFew DEF Upto
<1>5. \E W : Row(args', marks', W, Upto', writer')
  BY <1>2, <1>3, <1>4, RowBegins
<1>6. Good(args', writer')
  BY <1>2, <1>3, StartIsGood
<1> QED
  BY <1>1, <1>2, <1>3, <1>5, <1>6, TotalsOfFew, PackGoesOn

LEMMA PackAppendsKeeps ==
    ASSUME PackingInv, PackAppends
    PROVE  PackingInv'
<1>1. /\ doing = "pack" /\ todo # <<>> /\ AppendBytes(Head(todo)) /\ todo' = Tail(todo)
      /\ doing' = "pack" /\ args' = args /\ writer' = writer /\ marks' = marks
      /\ calls' = calls /\ count' = count
  BY DEF PackAppends, reader
<1>2. /\ args \in Seq(Values) /\ calls = <<>> /\ count = 0
      /\ todo \in Seq(Nat) /\ Len(todo) <= 3 /\ Good(args, writer) /\ MemInv
  BY <1>1 DEF PackingInv
<1>3. /\ Head(todo) \in Nat /\ Tail(todo) \in Seq(Nat) /\ Len(Tail(todo)) <= 3
      /\ Total(Tail(todo)) \in Nat /\ Total(todo) = Head(todo) + Total(Tail(todo))
  BY <1>1, <1>2, TotalOfTail
<1>4. MemInv'
  BY <1>1, <1>2, <1>3, AppendKeeps
<1>5. ASSUME broken' = {}
      PROVE  \E W : Row(args', marks', W, Upto', writer')
  <2>1. broken = {} /\ Within(size + Head(todo)) = {}
    BY <1>1, <1>5, NoRuleBroken, Zenon DEF AppendBytes
  <2>2. size \in Nat
    BY <1>2, SizesInOrder
  <2>3. size + Head(todo) \in Int /\ size + Head(todo) \in Nat
    BY <1>3, <2>2
  <2>4. size + Head(todo) <= Half
    BY <2>1, <2>3, WithinHalf
  <2>5. size + Head(todo) \in Sizes
    BY <2>3, <2>4, HalfIsHalf, SizesAreNumbers
  <2>6. write' = size + Head(todo) /\ mpc' = "grow" /\ mpc = "ready"
    <3>1. write' = (size + Head(todo)) % M /\ mpc' = "grow" /\ mpc = "ready"
      BY <1>1 DEF AppendBytes, Ensure
    <3> QED
      BY <2>3, <2>5, <3>1, Unsigned
  <2>7. Upto = size + Total(todo) /\ Upto' = write' + Total(Tail(todo))
    BY <1>1, <2>6 DEF Upto
  <2>8. Upto' = Upto
    BY <1>3, <2>2, <2>6, <2>7
  <2>9. \E W : Row(args, marks, W, Upto, writer)
    BY <1>1, <2>1 DEF PackingInv, Live, InRow
  <2> QED
    BY <1>1, <2>8, <2>9
<1> QED
  BY <1>1, <1>2, <1>3, <1>4, <1>5, PackGoesOn

\* A mark is put where the row ends.
LEMMA PutsKeeps ==
    ASSUME PackingInv, Between, NEW m, NEW x, Writes(args, writer, m, x), Puts(m, x)
    PROVE  PackingInv'
<1>1. /\ doing = "pack" /\ mpc = "ready" /\ todo = <<>>
      /\ marks' = [o \in DOMAIN marks \cup {size} |-> IF o = size THEN m ELSE marks[o]]
      /\ todo' = Appends(m) /\ writer' = x
      /\ UNCHANGED <<memVars, doing, args, calls, count>>
  BY DEF Between, Puts, reader
<1>2. args \in Seq(Values) /\ calls = <<>> /\ count = 0 /\ Good(args, writer) /\ MemInv
  BY <1>1 DEF PackingInv
<1>3. Good(args, x) /\ (m = End \/ \E v \in Values : v # Other /\ m = Mark(v))
  BY <1>2, WritesGood
<1>4. /\ Appends(m) \in Seq(Nat) /\ Len(Appends(m)) <= 3 /\ Total(Appends(m)) = Bytes(m)
  <2>1. CASE m = End
    <3>1. m[1] = "end"
      BY <2>1, KindsDiffer
    <3>2. Appends(m) = <<1>> /\ Bytes(m) = 1
      BY <3>1 DEF Appends, Bytes
    <3> QED
      BY <3>2 DEF Total
  <2>2. CASE \E v \in Values : v # Other /\ m = Mark(v)
    BY <2>2, PiecesMakeMark
  <2> QED
    BY <1>3, <2>1, <2>2
<1>5. MemInv' /\ mpc' = mpc /\ size' = size /\ broken' = broken
  BY <1>1, <1>2 DEF memVars, MemInv, MemTypeOK
<1>6. ASSUME broken' = {}
      PROVE  \E W : Row(args', marks', W, Upto', writer')
  <2>1. size \in Nat
    BY <1>2, SizesInOrder
  <2>2. Upto = size /\ Upto' = size + Bytes(m)
    BY <1>1, <1>4, <1>5, <2>1, TotalsOfFew DEF Upto
  <2>3. PICK W : Row(args, marks, W, size, writer)
    BY <1>1, <1>5, <1>6, <2>2 DEF PackingInv, Live, InRow
  <2>4. \E W2 : Row(args, marks', W2, size + Bytes(m), x)
    BY <1>1, <1>2, <2>3, RowGrows
  <2> QED
    BY <1>1, <2>2, <2>4
<1> QED
  BY <1>1, <1>2, <1>3, <1>4, <1>5, <1>6, PackGoesOn

\* lua_def_serialone either raises an error or puts a mark.
LEMMA SerialOneKeeps ==
    ASSUME PackingInv, Between, NEW u, NEW v, Chooses(writer, u), Awaits(args, u, v), SerialOne(v, u)
    PROVE  PackingInv'
<1>1. CASE v # Other /\ Puts(Mark(v), Begun(u, v))
  <2>1. Writes(args, writer, Mark(v), Begun(u, v))
    BY <1>1 DEF Writes, WritesValue
  <2> QED
    BY <1>1, <2>1, PutsKeeps
<1>2. CASE doing' = "raised" /\ UNCHANGED <<memVars, packed, reader, result, uses>>
  <2>1. MemInv' /\ args' = args
    BY <1>2 DEF PackingInv, memVars, MemInv, MemTypeOK, packed
  <2> QED
    BY <1>2, <2>1, LeftAlone
<1> QED
  BY <1>1, <1>2 DEF SerialOne

LEMMA PackArgKeeps ==
    ASSUME PackingInv, PackArg
    PROVE  PackingInv'
<1>1. Between /\ writer.loops = <<>> /\ writer.arg <= Len(args) /\ SerialOne(args[writer.arg], writer)
  BY DEF PackArg
<1>2. Chooses(writer, writer) /\ Awaits(args, writer, args[writer.arg])
  BY <1>1 DEF Chooses, Awaits
<1> QED
  BY <1>1, <1>2, SerialOneKeeps

LEMMA PackKeyKeeps ==
    ASSUME PackingInv, PackKey
    PROVE  PackingInv'
<1> DEFINE t == Top(writer)
<1>1. PICK p \in t.pairs \ t.done :
        /\ Between /\ writer.loops # <<>> /\ t.side = "key"
        /\ SerialOne(p[1], WithTop(writer, Loop(t.pairs, t.done, p, "key")))
  BY DEF PackKey
<1> DEFINE l == Loop(t.pairs, t.done, p, "key")
           u == WithTop(writer, l)
<1>2. Good(args, writer) /\ writer \in Writers
  BY <1>1 DEF PackingInv, Between, Good
<1>3. t.pairs \subseteq Content \X Content /\ t.done \subseteq t.pairs
  BY <1>1, <1>2, TopIsGood
<1>4. l \in Frames /\ l.now = p /\ l.side = "key" /\ l.pairs = t.pairs /\ l.done = t.done
  BY <1>1, <1>3 DEF Frames, Loop
<1>5. Chooses(writer, u)
  BY <1>1 DEF Chooses
<1> HIDE DEF l
<1>6. u.loops # <<>> /\ Top(u) = l
  BY <1>1, <1>2, <1>4, WithTopIs
<1>7. Awaits(args, u, p[1])
  BY <1>1, <1>4, <1>6 DEF Awaits, Due
<1>8. SerialOne(p[1], u)
  BY <1>1 DEF l
<1> QED
  BY <1>1, <1>5, <1>7, <1>8, SerialOneKeeps

LEMMA PackValueKeeps ==
    ASSUME PackingInv, PackValue
    PROVE  PackingInv'
<1>1. /\ Between /\ writer.loops # <<>> /\ Top(writer).side = "value"
      /\ SerialOne(Top(writer).now[2], writer)
  BY DEF PackValue
<1>2. Good(args, writer)
  BY <1>1 DEF PackingInv, Between
<1>3. Chooses(writer, writer) /\ Awaits(args, writer, Top(writer).now[2])
  BY <1>1, <1>2, TopIsGood DEF Chooses, Awaits, Due
<1> QED
  BY <1>1, <1>3, SerialOneKeeps

LEMMA PackTableEndsKeeps ==
    ASSUME PackingInv, PackTableEnds
    PROVE  PackingInv'
<1>1. Between /\ Puts(End, Finished(Pop(writer)))
  BY DEF PackTableEnds
<1>2. Writes(args, writer, End, Finished(Pop(writer)))
  BY DEF PackTableEnds, Writes, WritesTableEnd
<1> QED
  BY <1>1, <1>2, PutsKeeps

LEMMA PackArgsEndKeeps ==
    ASSUME PackingInv, PackArgsEnd
    PROVE  PackingInv'
<1>1. Between /\ Puts(End, Finished(writer))
  BY DEF PackArgsEnd
<1>2. Writes(args, writer, End, Finished(writer))
  BY DEF PackArgsEnd, Writes, WritesEnd
<1> QED
  BY <1>1, <1>2, PutsKeeps

LEMMA PackEndsKeeps ==
    ASSUME PackingInv, PackEnds
    PROVE  PackingInv'
<1>1. /\ doing = "pack" /\ mpc = "ready" /\ todo = <<>> /\ writer.arg = Len(args) + 2 /\ Uninit
      /\ header' = (size - 4) % M /\ ls' = size
      /\ doing' = (IF broken = {} THEN "unpack" ELSE "spoilt")
      /\ args' = args /\ writer' = writer /\ marks' = marks /\ calls' = calls /\ count' = count
  BY DEF PackEnds, Between, HeaderSize, reader
<1>2. MemInv' /\ MemInv /\ args \in Seq(Values) /\ calls = <<>> /\ count = 0
  BY <1>1, UninitKeeps DEF PackingInv
<1>3. CASE broken # {}
  BY <1>1, <1>2, <1>3, LeftAlone
<1>4. CASE broken = {}
  <2>1. size \in Nat /\ size < M
    BY <1>2, SizesAreNumbers DEF MemInv, MemTypeOK
  <2>2. Upto = size
    BY <1>1, <2>1, TotalsOfFew DEF Upto
  <2>3. PICK W : Row(args, marks, W, size, writer)
    BY <1>1, <1>4, <2>2 DEF PackingInv, Live, InRow
  <2>4. size >= 4
    BY <2>3 DEF Row
  <2>5. size - 4 \in Sizes /\ size - 4 \in Int
    <3>1. size - 4 \in Nat /\ size - 4 < M /\ size - 4 \in Int
      BY <2>1, <2>4, HalfIsHalf
    <3> QED
      BY <3>1, SizesAreNumbers, Zenon
  <2>6. header' = size - 4
    BY <1>1, <2>5, Unsigned
  <2>7. doing' = "unpack" /\ Upto' = size
    BY <1>1, <1>4 DEF Upto
  <2>8. InRow(W)'
    BY <1>1, <2>3, <2>7 DEF InRow
  <2> QED
    BY <1>1, <1>2, <2>1, <2>6, <2>7, <2>8 DEF PackingInv
<1> QED
  BY <1>3, <1>4

-----------------------------------------------------------------------------
(* The buffer grows, or is used by others. *)

LEMMA MemGrowsKeeps ==
    ASSUME PackingInv, MemGrows
    PROVE  PackingInv'
<1>1. /\ Grows /\ doing' = doing /\ args' = args /\ writer' = writer /\ todo' = todo /\ marks' = marks
      /\ header' = header /\ ls' = ls /\ at' = at /\ stack' = stack /\ calls' = calls
      /\ count' = count /\ result' = result
  BY DEF MemGrows, packed, reader
<1>2. MemInv' /\ mpc = "grow" /\ broken' = broken
  BY <1>1, DoubleKeeps, GrownKeeps DEF PackingInv, Grows, Double, Grown
<1>3. (IF mpc' = "grow" THEN write' ELSE size') = write
  <2>1. CASE Double
    BY <1>2, <2>1 DEF Double
  <2>2. CASE Grown
    BY <2>2 DEF Grown
  <2> QED
    BY <1>1, <2>1, <2>2 DEF Grows
<1>4. Upto' = Upto
  BY <1>1, <1>2, <1>3 DEF Upto
<1>5. Live' <=> Live
  BY <1>1, <1>2 DEF Live
<1>6. Kept' = Kept /\ (Readable' <=> Readable)
  BY <1>1 DEF Kept, Readable
<1>7. ASSUME NEW W, InRow(W) PROVE InRow(W)'
  BY <1>1, <1>4, <1>6, <1>7 DEF InRow
<1> QED
  BY <1>1, <1>2, <1>5, <1>7 DEF PackingInv

LEMMA OtherUseKeeps ==
    ASSUME PackingInv, OtherUse
    PROVE  PackingInv'
<1>1. MemUse /\ doing' = "other" /\ args' = args
  BY DEF OtherUse, packed
<1>2. MemInv'
  BY <1>1, MemInvStep DEF PackingInv, MemNext
<1> QED
  BY <1>1, <1>2, LeftAlone

LEMMA StutterKeeps ==
    ASSUME PackingInv, UNCHANGED packVars
    PROVE  PackingInv'
<1>1. /\ UNCHANGED memVars /\ doing' = doing /\ args' = args /\ writer' = writer /\ todo' = todo
      /\ marks' = marks /\ header' = header /\ ls' = ls /\ at' = at /\ stack' = stack /\ calls' = calls
      /\ count' = count /\ result' = result
  BY DEF packVars, packed, reader
<1>2. MemInv' /\ mpc' = mpc /\ write' = write /\ size' = size /\ broken' = broken
  <2>1. MemInv
    BY DEF PackingInv
  <2> QED
    BY <1>1, <2>1 DEF memVars, MemInv, MemTypeOK
<1>3. Upto' = Upto /\ (Live' <=> Live) /\ Kept' = Kept /\ (Readable' <=> Readable)
  BY <1>1, <1>2 DEF Upto, Live, Kept, Readable
<1>4. ASSUME NEW W, InRow(W) PROVE InRow(W)'
  BY <1>1, <1>3, <1>4 DEF InRow
<1> QED
  BY <1>1, <1>2, <1>3, <1>4 DEF PackingInv

-----------------------------------------------------------------------------
(* unpack keeps it. *)

\* What is left to show of a step of unpack, which leaves the marks as they are: what it
\* reads or returns.
ReadsRight(W) ==
    Row(args, marks, W, ls, writer) /\ Readable
      /\ (doing = "reading" => at \in DOMAIN marks /\ Follows(args, Kept, W[at], stack, calls, count)) =>
        /\ doing' = "reading" => at' \in DOMAIN marks /\ Follows(args, Kept, W[at'], stack', calls', count')
        /\ doing' = "done" /\ header # 16777216 =>
             result' = <<"ok", args>> \/ (result' = <<"raised">> /\ ~Kept /\ Lone(args))

LEMMA UnpackGoesOn ==
    ASSUME PackingInv, doing \in {"unpack", "reading"}, doing' \in {"reading", "done"},
           UNCHANGED <<memVars, packed, uses>>, \A W : ReadsRight(W)
    PROVE  PackingInv'
<1>1. /\ UNCHANGED memVars /\ args' = args /\ writer' = writer
      /\ marks' = marks /\ header' = header /\ ls' = ls
  BY DEF packed
<1>2. MemInv'
  BY <1>1 DEF PackingInv, memVars, MemInv, MemTypeOK
<1>3. Upto = ls /\ Upto' = ls /\ Live
  BY <1>1 DEF Upto, Live
<1>4. Kept' = Kept /\ (Readable' <=> Readable)
  BY <1>1 DEF Kept, Readable
<1>5. PICK W : InRow(W)
  BY <1>3 DEF PackingInv
<1>6. Row(args, marks, W, ls, writer)
  BY <1>3, <1>5 DEF InRow
<1>7. Readable => (doing = "reading" => at \in DOMAIN marks /\ Follows(args, Kept, W[at], stack, calls, count))
  BY <1>5 DEF InRow
<1>8. Readable =>
        /\ doing' = "reading" =>
             at' \in DOMAIN marks /\ Follows(args, Kept, W[at'], stack', calls', count')
        /\ doing' = "done" /\ header # 16777216 =>
             result' = <<"ok", args>> \/ (result' = <<"raised">> /\ ~Kept /\ Lone(args))
  BY <1>6, <1>7 DEF ReadsRight
<1>9. InRow(W)'
  BY <1>1, <1>3, <1>4, <1>6, <1>8 DEF InRow
<1> QED
  BY <1>1, <1>2, <1>9 DEF PackingInv

\* At the fourth byte pack began, and nothing is read yet.
LEMMA NothingRead ==
    ASSUME NEW a, NEW kept \in BOOLEAN
    PROVE  Follows(a, kept, Start, <<Packed>>, <<>>, 0)
<1> DEFINE pos == [n \in Nat |-> 0]
<1>1. Start.arg = 1 /\ Start.loops = <<>> /\ Len(Start.loops) = 0
  BY DEF Start
<1>2. Places(Start, pos)
  BY <1>1 DEF Places
<1>3. InStep(Start, <<>>, 0)
  BY <1>1 DEF InStep
<1>4. Exact(a, <<Packed>>, Start, pos)
  <2>1. <<Packed>> \in Seq({Packed}) /\ Len(<<Packed>>) = 1 /\ <<Packed>>[1] = Packed
    OBVIOUS
  <2>2. IsStack(<<Packed>>)
    BY <2>1 DEF IsStack
  <2>3. Height(Start, pos) = 1 /\ 1..(Start.arg - 1) = {} /\ 1..Len(Start.loops) = {}
    BY <1>1 DEF Height
  <2> QED
    BY <2>1, <2>2, <2>3 DEF Exact
<1> QED
  BY <1>2, <1>3, <1>4 DEF Follows

\* A size that is not above one when it is read the wrong way round.
LEMMA NotAboveOne ==
    ASSUME NEW n \in Nat, n > 0, ~AboveOne(n)
    PROVE  n = 16777216
<1>1. n % 256 = 0 /\ (n \div 256) % 65536 = 0 /\ ~(n \div 16777216 > 1)
  BY DEF AboveOne
<1> DEFINE q == n \div 256
           r == q \div 65536
<1>2. q \in Nat /\ n = 256 * q
  BY <1>1
<1>3. r \in Nat /\ q = 65536 * r
  <2>1. q % 65536 = 0 /\ q \in Nat
    BY <1>1, <1>2
  <2> HIDE DEF q
  <2> QED
    BY <2>1
<1> HIDE DEF q, r
<1>4. n = 16777216 * r
  BY <1>2, <1>3
<1>5. n \div 16777216 = r
  BY <1>3, <1>4
<1>6. r = 1
  BY <1>1, <1>3, <1>4, <1>5
<1> QED
  BY <1>4, <1>6

\* A string too short to hold more than an End has nothing in it.
LEMMA ShortIsEmpty ==
    ASSUME NEW a \in Seq(Values), NEW mk, NEW W, NEW up, NEW w, Row(a, mk, W, up, w),
           w.arg = Len(a) + 2
    PROVE  4 \in DOMAIN mk /\ (up <= 5 => a = <<>>)
<1>1. Len(a) \in Nat /\ Start.arg = 1
  BY DEF Start
<1>2. up \in Nat /\ up >= 4 /\ 4 \in DOMAIN mk \cup {up} /\ W[4] = Start /\ W[up] = w
  BY DEF Row
<1>3. 4 \in DOMAIN mk
  <2>1. up # 4
    BY <1>1, <1>2
  <2> QED
    BY <1>2, <2>1
<1>4. ASSUME up <= 5 PROVE a = <<>>
  <2> DEFINE e == 4 + Bytes(mk[4])
  <2>1. /\ Bytes(mk[4]) \in Nat /\ Bytes(mk[4]) > 0 /\ e <= up
        /\ Good(a, Start) /\ Writes(a, Start, mk[4], W[e])
    BY <1>2, <1>3 DEF Row
  <2>2. e = up
    BY <1>2, <1>4, <2>1
  <2>3. Writes(a, Start, mk[4], w)
    BY <1>2, <2>1, <2>2
  <2>4. w.arg <= Len(a) + 1 \/ WritesEnd(a, Start, mk[4], w)
    BY <2>1, <2>3, WritesGood
  <2>5. ~(w.arg <= Len(a) + 1)
    BY <1>1
  <2>6. Len(a) = 0
    BY <1>1, <2>4, <2>5 DEF WritesEnd
  <2> QED
    BY <2>6
<1> QED
  BY <1>3, <1>4

LEMMA UnpackStartsKeeps ==
    ASSUME PackingInv, UnpackStarts
    PROVE  PackingInv'
<1>1. /\ doing = "unpack" /\ UNCHANGED <<memVars, packed, uses>>
      /\ args \in Seq(Values) /\ writer.arg = Len(args) + 2 /\ ls \in Nat /\ header = ls - 4
      /\ calls = <<>> /\ count = 0
  BY DEF UnpackStarts, PackingInv
<1>2. CASE ls > 5 /\ AboveOne(header)
  <2>1. /\ doing' = "reading" /\ at' = 4 /\ stack' = <<Packed>> /\ calls' = <<>> /\ count' = 0
    BY <1>1, <1>2 DEF UnpackStarts
  <2>2. ASSUME NEW W, Row(args, marks, W, ls, writer)
        PROVE  at' \in DOMAIN marks /\ Follows(args, Kept, W[at'], stack', calls', count')
    <3>1. 4 \in DOMAIN marks
      BY <1>1, <2>2, ShortIsEmpty
    <3>2. W[4] = Start
      BY <2>2 DEF Row
    <3>3. Kept \in BOOLEAN
      BY DEF Kept
    <3>4. Follows(args, Kept, Start, <<Packed>>, <<>>, 0)
      BY <3>3, NothingRead
    <3> QED
      BY <2>1, <3>1, <3>2, <3>4
  <2> QED
    BY <1>1, <2>1, <2>2, UnpackGoesOn DEF ReadsRight
<1>3. CASE ~(ls > 5 /\ AboveOne(header))
  <2>1. doing' = "done" /\ result' = <<"ok", <<>>>>
    BY <1>3 DEF UnpackStarts, Ends
  <2>2. ASSUME NEW W, Row(args, marks, W, ls, writer), header # 16777216
        PROVE  args = <<>>
    <3>1. CASE ls > 5
      <4>1. header \in Nat /\ header > 0 /\ ~AboveOne(header)
        BY <1>1, <1>3, <3>1
      <4> QED
        BY <2>2, <4>1, NotAboveOne
    <3>2. CASE ls <= 5
      BY <1>1, <2>2, <3>2, ShortIsEmpty
    <3> QED
      BY <1>1, <3>1, <3>2
  <2> QED
    BY <1>1, <2>1, <2>2, UnpackGoesOn DEF ReadsRight
<1> QED
  BY <1>2, <1>3

\* What holds wherever unpack reads a mark.
LEMMA AtAMark ==
    ASSUME PackingInv, doing = "reading", at \in DOMAIN marks,
           NEW W, Row(args, marks, W, ls, writer), Readable
    PROVE  LET m == marks[at]
               x == W[at + Bytes(m)]
           IN /\ args \in Seq(Values) /\ Good(args, W[at]) /\ Writes(args, W[at], m, x)
              /\ Kept \in BOOLEAN /\ (Kept \/ Lone(args)) /\ (Kept => Portable(m))
              /\ m \notin {<<"table">>, End} => Uncut(m)
              /\ ~WritesEnd(args, W[at], m, x) => at + Bytes(m) \in DOMAIN marks
<1> DEFINE m == marks[at]
           x == W[at + Bytes(m)]
<1>1. args \in Seq(Values) /\ writer.arg = Len(args) + 2
  BY DEF PackingInv
<1>2. Good(args, W[at]) /\ Writes(args, W[at], m, x)
  BY DEF Row
<1>3. Kept \in BOOLEAN /\ (Kept \/ Lone(args)) /\ (Kept => Portable(m)) /\ (~Kept => Uncut(m))
  BY DEF Kept, Readable
<1>4. m # End /\ Portable(m) => Uncut(m)
  <2>1. m = End \/ \E v \in Values : v # Other /\ m = Mark(v)
    BY <1>1, <1>2, WritesGood
  <2> QED
    BY <2>1, PortableIsUncut
<1>5. ~WritesEnd(args, W[at], m, x) => at + Bytes(m) \in DOMAIN marks
  BY <1>1, NextMark
<1> QED
  BY <1>1, <1>2, <1>3, <1>4, <1>5

\* A mark is read: either the next one is, or unpack ends with an error, and then some
\* scalar was not portable.
LEMMA ReadsOn ==
    ASSUME PackingInv, Reading,
           \/ Ends(<<"raised">>)
           \/ UNCHANGED <<doing, result>>,
           \A W : LET m == marks[at]
                      x == W[at + Bytes(m)]
                  IN Row(args, marks, W, ls, writer) /\ Readable
                       /\ Follows(args, Kept, W[at], stack, calls, count) =>
                     \/ Ends(<<"raised">>) /\ ~Kept /\ Lone(args)
                     \/ /\ at' = at + Bytes(m) /\ UNCHANGED <<doing, result>>
                        /\ Follows(args, Kept, x, stack', calls', count')
                        /\ ~WritesEnd(args, W[at], m, x)
    PROVE  PackingInv'
<1>1. doing = "reading" /\ at \in DOMAIN marks /\ UNCHANGED <<memVars, packed, uses>>
  BY DEF Reading
<1>2. doing' \in {"reading", "done"}
  BY <1>1 DEF Ends
<1>3. ASSUME NEW W, Row(args, marks, W, ls, writer), Readable,
             Follows(args, Kept, W[at], stack, calls, count)
      PROVE  /\ doing' = "reading" =>
                  at' \in DOMAIN marks /\ Follows(args, Kept, W[at'], stack', calls', count')
             /\ doing' = "done" /\ header # 16777216 =>
                  result' = <<"ok", args>> \/ (result' = <<"raised">> /\ ~Kept /\ Lone(args))
  <2> DEFINE m == marks[at]
             x == W[at + Bytes(m)]
  <2>1. \/ Ends(<<"raised">>) /\ ~Kept /\ Lone(args)
        \/ /\ at' = at + Bytes(m) /\ UNCHANGED <<doing, result>>
           /\ Follows(args, Kept, x, stack', calls', count')
           /\ ~WritesEnd(args, W[at], m, x)
    BY <1>3
  <2>2. ~WritesEnd(args, W[at], m, x) => at + Bytes(m) \in DOMAIN marks
    BY <1>1, <1>3, AtAMark
  <2>3. CASE Ends(<<"raised">>) /\ ~Kept /\ Lone(args)
    BY <2>3 DEF Ends
  <2>4. CASE /\ at' = at + Bytes(m) /\ UNCHANGED <<doing, result>>
             /\ Follows(args, Kept, x, stack', calls', count')
             /\ ~WritesEnd(args, W[at], m, x)
    BY <1>1, <2>2, <2>4
  <2> QED
    BY <2>1, <2>3, <2>4
<1> QED
  BY <1>1, <1>2, <1>3, UnpackGoesOn DEF ReadsRight

LEMMA ReadScalarKeeps ==
    ASSUME PackingInv, ReadScalar
    PROVE  PackingInv'
<1> DEFINE m == marks[at]
<1>1. /\ Reading /\ doing = "reading" /\ at \in DOMAIN marks /\ m \notin {<<"table">>, End}
      /\ IF m[1] = "string" /\ ReadLength(m[2]) < 0 THEN Ends(<<"raised">>)
         ELSE Returns(stack \o Pushed(m), calls, at + Used(m))
  BY DEF ReadScalar, Reading
<1>2. Ends(<<"raised">>) \/ UNCHANGED <<doing, result>>
  BY <1>1 DEF Returns, Goes
<1>3. ASSUME NEW W, Row(args, marks, W, ls, writer), Readable,
             Follows(args, Kept, W[at], stack, calls, count)
      PROVE  LET x == W[at + Bytes(m)]
             IN \/ Ends(<<"raised">>) /\ ~Kept /\ Lone(args)
                \/ /\ at' = at + Bytes(m) /\ UNCHANGED <<doing, result>>
                   /\ Follows(args, Kept, x, stack', calls', count')
                   /\ ~WritesEnd(args, W[at], m, x)
  <2> DEFINE x == W[at + Bytes(m)]
  <2>1. /\ args \in Seq(Values) /\ Good(args, W[at]) /\ Writes(args, W[at], m, x)
        /\ Kept \in BOOLEAN /\ (Kept \/ Lone(args)) /\ (Kept => Portable(m)) /\ Uncut(m)
    BY <1>1, <1>3, AtAMark
  <2>2. ~WritesEnd(args, W[at], m, x)
    BY <1>1 DEF WritesEnd
  <2> HIDE DEF x, m
  <2>3. \/ Ends(<<"raised">>) /\ ~Kept /\ Lone(args)
        \/ /\ at' = at + Bytes(m) /\ UNCHANGED <<doing, result>>
           /\ Follows(args, Kept, x, stack', calls', count')
    BY <1>1, <1>3, <2>1, ScalarFollows
  <2> QED
    BY <2>2, <2>3 DEF x
<1> QED
  BY <1>1, <1>2, <1>3, ReadsOn

LEMMA ReadTableKeeps ==
    ASSUME PackingInv, ReadTable
    PROVE  PackingInv'
<1> DEFINE m == marks[at]
<1>1. /\ Reading /\ doing = "reading" /\ at \in DOMAIN marks /\ m = <<"table">>
      /\ Goes(at + 1, Append(stack, Tab({})), Append(calls, "key"), count)
  BY DEF ReadTable, Reading
<1>2. UNCHANGED <<doing, result>>
  BY <1>1 DEF Goes
<1>3. ASSUME NEW W, Row(args, marks, W, ls, writer), Readable,
             Follows(args, Kept, W[at], stack, calls, count)
      PROVE  LET x == W[at + Bytes(m)]
             IN /\ at' = at + Bytes(m) /\ UNCHANGED <<doing, result>>
                /\ Follows(args, Kept, x, stack', calls', count')
                /\ ~WritesEnd(args, W[at], m, x)
  <2> DEFINE x == W[at + Bytes(m)]
  <2>1. /\ args \in Seq(Values) /\ Good(args, W[at]) /\ Writes(args, W[at], m, x) /\ Kept \in BOOLEAN
    BY <1>1, <1>3, AtAMark
  <2>2. ~WritesEnd(args, W[at], m, x)
    BY <1>1, KindsDiffer DEF WritesEnd
  <2> HIDE DEF x, m
  <2>3. /\ at' = at + Bytes(m) /\ UNCHANGED <<doing, result>>
        /\ Follows(args, Kept, x, stack', calls', count')
    BY <1>1, <1>3, <2>1, TableFollows
  <2> QED
    BY <2>2, <2>3 DEF x
<1> QED
  BY <1>1, <1>2, <1>3, ReadsOn

LEMMA ReadTableEndKeeps ==
    ASSUME PackingInv, ReadTableEnd
    PROVE  PackingInv'
<1> DEFINE m == marks[at]
<1>1. /\ Reading /\ doing = "reading" /\ at \in DOMAIN marks /\ m = End /\ calls # <<>>
      /\ IF calls[Len(calls)] = "key" THEN Returns(stack, SubSeq(calls, 1, Len(calls) - 1), at + 1)
         ELSE Ends(<<"raised">>)
  BY DEF ReadTableEnd, Reading
<1>2. Ends(<<"raised">>) \/ UNCHANGED <<doing, result>>
  BY <1>1 DEF Returns, Goes
<1>3. ASSUME NEW W, Row(args, marks, W, ls, writer), Readable,
             Follows(args, Kept, W[at], stack, calls, count)
      PROVE  LET x == W[at + Bytes(m)]
             IN \/ Ends(<<"raised">>) /\ ~Kept /\ Lone(args)
                \/ /\ at' = at + Bytes(m) /\ UNCHANGED <<doing, result>>
                   /\ Follows(args, Kept, x, stack', calls', count')
                   /\ ~WritesEnd(args, W[at], m, x)
  <2> DEFINE x == W[at + Bytes(m)]
             w == W[at]
  <2>1. /\ args \in Seq(Values) /\ Good(args, w) /\ Writes(args, w, m, x) /\ Kept \in BOOLEAN
    BY <1>1, <1>3, AtAMark
  <2>2. ~WritesEnd(args, w, m, x)
    <3>1. PICK pos : InStep(w, calls, count)
      BY <1>3 DEF Follows
    <3>2. calls \in Seq({"key", "value"}) /\ Len(calls) = Len(w.loops)
      BY <3>1 DEF InStep
    <3>3. Len(w.loops) # 0
      BY <1>1, <3>2, CallsCounted
    <3>4. w.loops # <<>>
      BY <3>3
    <3> QED
      BY <3>4 DEF WritesEnd
  <2> HIDE DEF x, m, w
  <2>3. \/ Ends(<<"raised">>) /\ ~Kept /\ Lone(args)
        \/ /\ at' = at + Bytes(m) /\ UNCHANGED <<doing, result>>
           /\ Follows(args, Kept, x, stack', calls', count')
    BY <1>1, <1>3, <2>1, TableEndFollows DEF w
  <2> QED
    BY <2>2, <2>3 DEF x, w
<1> QED
  BY <1>1, <1>2, <1>3, ReadsOn

LEMMA UnpackEndsKeeps ==
    ASSUME PackingInv, UnpackEnds
    PROVE  PackingInv'
<1> DEFINE m == marks[at]
           r == IF count > Len(stack) THEN <<"garbage">>
                ELSE <<"ok", SubSeq(stack, Len(stack) - count + 1, Len(stack))>>
<1>1. /\ doing = "reading" /\ at \in DOMAIN marks /\ UNCHANGED <<memVars, packed, uses>>
      /\ m = End /\ calls = <<>> /\ doing' = "done" /\ result' = r
  BY DEF UnpackEnds, Reading, Ends
<1>2. ASSUME NEW W, Row(args, marks, W, ls, writer), Readable,
             Follows(args, Kept, W[at], stack, calls, count)
      PROVE  result' = <<"ok", args>>
  <2> DEFINE x == W[at + Bytes(m)]
  <2>1. /\ args \in Seq(Values) /\ Good(args, W[at]) /\ Writes(args, W[at], m, x) /\ Kept \in BOOLEAN
    BY <1>1, <1>2, AtAMark
  <2> HIDE DEF x, m
  <2>2. r = <<"ok", args>>
    BY <1>1, <1>2, <2>1, EndFollows
  <2> QED
    BY <1>1, <2>2
<1> HIDE DEF r, m
<1> QED
  BY <1>1, <1>2, UnpackGoesOn DEF ReadsRight

LEMMA ReadsTextKeeps ==
    ASSUME PackingInv, ReadsText
    PROVE  PackingInv'
<1>1. /\ doing = "reading" /\ at \notin DOMAIN marks /\ doing' = "done"
      /\ UNCHANGED <<memVars, packed, uses>>
  BY DEF ReadsText, Ends
<1> QED
  BY <1>1, UnpackGoesOn DEF ReadsRight

-----------------------------------------------------------------------------
(* The theorems. *)

LEMMA InvStep == PackingInv /\ [Next]_packVars => PackingInv'
<1> SUFFICES ASSUME PackingInv, [Next]_packVars PROVE PackingInv'
  OBVIOUS
<1>1. CASE \E list \in ArgLists : Pack(list)
  BY <1>1, PackKeeps
<1>2. CASE PackAppends \/ PackArg \/ PackKey \/ PackValue
  BY <1>2, PackAppendsKeeps, PackArgKeeps, PackKeyKeeps, PackValueKeeps
<1>3. CASE PackTableEnds \/ PackArgsEnd \/ PackEnds
  BY <1>3, PackTableEndsKeeps, PackArgsEndKeeps, PackEndsKeeps
<1>4. CASE UnpackStarts \/ ReadScalar \/ ReadTable
  BY <1>4, UnpackStartsKeeps, ReadScalarKeeps, ReadTableKeeps
<1>5. CASE ReadTableEnd \/ UnpackEnds \/ ReadsText
  BY <1>5, ReadTableEndKeeps, UnpackEndsKeeps, ReadsTextKeeps
<1>6. CASE MemGrows
  BY <1>6, MemGrowsKeeps
<1>7. CASE OtherUse
  BY <1>7, OtherUseKeeps
<1>8. CASE UNCHANGED packVars
  BY <1>8, StutterKeeps
<1> QED
  BY <1>1, <1>2, <1>3, <1>4, <1>5, <1>6, <1>7, <1>8 DEF Next, PackNext, UnpackNext

\* Whatever is packed, in any order of the pairs and through every growth of the buffer:
\* at every mark there is a place in the arguments from which pack wrote it, and where
\* unpack reads what pack wrote it is in step with that place.
THEOREM PackingInvariance == PackingSpec => []PackingInv
<1> QED
  BY InvStarts, InvStep, PTL DEF PackingSpec

\* A packed string is its size and then marks without a gap up to its end (automem_append
\* and the size lua_defparser_serial writes in front).
THEOREM StringsAreWhole == PackingSpec => []PackedIsWhole
<1>1. PackingInv => PackedIsWhole
  <2> SUFFICES ASSUME PackingInv, doing \in {"unpack", "reading", "done"}
               PROVE  /\ header + 4 = ls /\ 4 \in DOMAIN marks
                      /\ \A o \in DOMAIN marks :
                          /\ 4 <= o /\ o + Bytes(marks[o]) \in DOMAIN marks \cup {ls}
                          /\ \A q \in DOMAIN marks : o < q => o + Bytes(marks[o]) <= q
                          /\ o + Bytes(marks[o]) <= ls
    BY DEF PackedIsWhole
  <2>1. args \in Seq(Values) /\ writer.arg = Len(args) + 2 /\ ls \in Nat /\ header = ls - 4
    BY DEF PackingInv
  <2>2. Live /\ Upto = ls
    BY DEF Live, Upto
  <2>3. PICK W : Row(args, marks, W, ls, writer)
    BY <2>2 DEF PackingInv, InRow
  <2>4. 4 \in DOMAIN marks
    BY <2>1, <2>3, ShortIsEmpty
  <2>5. \A o \in DOMAIN marks :
          /\ o \in Nat /\ o >= 4 /\ o + Bytes(marks[o]) \in DOMAIN marks \cup {ls}
          /\ \A q \in DOMAIN marks : o < q => o + Bytes(marks[o]) <= q
          /\ o + Bytes(marks[o]) <= ls
    BY <2>3 DEF Row
  <2>6. header + 4 = ls
    BY <2>1
  <2> QED
    BY <2>4, <2>5, <2>6
<1> QED
  BY <1>1, PackingInvariance, PTL

\* What unpack returns, when the marks allow it.
LEMMA WhatComesBack ==
    ASSUME PackingInv, doing = "done", header # 16777216, Readable
    PROVE  result = <<"ok", args>> \/ (result = <<"raised">> /\ ~Kept /\ Lone(args))
<1>1. Live
  BY DEF Live
<1> QED
  BY <1>1 DEF PackingInv, InRow

\* unpack returns what pack was given, if all scalars are portable and not exactly 2^24
\* bytes were packed.
THEOREM PortableComesBack == PackingSpec => []RoundTrip
<1>1. PackingInv => RoundTrip
  <2> SUFFICES ASSUME PackingInv, doing = "done", header # 16777216,
                      \A o \in DOMAIN marks : Portable(marks[o])
               PROVE  result = <<"ok", args>>
    BY DEF RoundTrip
  <2>1. Kept /\ Readable
    BY DEF Kept, Readable
  <2> QED
    BY <2>1, WhatComesBack
<1> QED
  BY <1>1, PackingInvariance, PTL

\* A table packed alone is given back, or lua_settable raises an error: what lua_pushdata
\* does not push leaves the stack too short until the table's last pair is set.
THEOREM TablesAreRightOrRefused == PackingSpec => []LoneTableIsRightOrRefused
<1>1. PackingInv => LoneTableIsRightOrRefused
  <2> SUFFICES ASSUME PackingInv, doing = "done", header # 16777216, Len(args) = 1, args[1][1] = "table",
                      \A o \in DOMAIN marks : Uncut(marks[o])
               PROVE  result \in {<<"raised">>, <<"ok", args>>}
    BY DEF LoneTableIsRightOrRefused
  <2>1. Readable
    BY DEF Readable, Lone
  <2> QED
    BY <2>1, WhatComesBack
<1> QED
  BY <1>1, PackingInvariance, PTL

\* Whoever uses the buffer, pack or others, writes only inside the block as long as the
\* contents stay within half the range of an unsigned int.
THEOREM PackingStaysInside == PackingSpec => [](MemInv /\ NothingOutside)
<1>1. PackingInv => MemInv /\ NothingOutside
  <2> SUFFICES ASSUME PackingInv PROVE MemInv /\ NothingOutside
    OBVIOUS
  <2>1. MemInv
    BY DEF PackingInv
  <2> QED
    BY <2>1, Zenon DEF MemInv, NothingOutside
<1> QED
  BY <1>1, PackingInvariance, PTL

\* While pack waits for room, the doubling goes on until there is some.
THEOREM PackingDoubles == PackingSpec => DoublingGoesOn
<1>1. PackingInv /\ [Next]_packVars
        => [mpc = "grow" /\ mpc' = "grow" /\ broken = {} => newsize' > newsize]_memVars
  <2> SUFFICES ASSUME PackingInv, [Next]_packVars, mpc = "grow", mpc' = "grow", broken = {}, memVars' # memVars
               PROVE  newsize' > newsize
    OBVIOUS
  <2>1. ~UnpackNext
    BY Zenon DEF UnpackNext, UnpackStarts, ReadScalar, ReadTable, ReadTableEnd, UnpackEnds, ReadsText, Reading
  <2>2. ~PackNext
    <3>1. mpc # "ready"
      OBVIOUS
    <3>2. \A list : ~Pack(list)
      BY <3>1, SMT DEF Pack, Renew
    <3>3. ~PackAppends
      BY <3>1, Zenon DEF PackAppends, AppendBytes
    <3>4. ~(PackArg \/ PackKey \/ PackValue \/ PackTableEnds \/ PackArgsEnd \/ PackEnds)
      BY <3>1, Zenon DEF PackArg, PackKey, PackValue, PackTableEnds, PackArgsEnd, PackEnds, Between
    <3> QED
      BY <3>2, <3>3, <3>4, Zenon DEF PackNext
  <2>3. ~OtherUse
    BY Zenon DEF OtherUse, MemUse, Uninit, Reset, Renew, AppendBytes, Attach, Erase, InitByPtr, EraseEx
  <2>4. ~UNCHANGED packVars
    BY DEF packVars
  <2>5. Double
    <3>1. ~Grown
      BY DEF Grown
    <3>2. MemGrows
      BY <2>1, <2>2, <2>3, <2>4 DEF Next
    <3> QED
      BY <3>1, <3>2 DEF MemGrows, Grows
  <2> QED
    BY <2>5, DoubleKeeps DEF PackingInv
<1> QED
  BY <1>1, PackingInvariance, PTL DEF PackingSpec, DoublingGoesOn
=============================================================================
