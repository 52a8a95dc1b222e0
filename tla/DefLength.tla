------------------------------- MODULE DefLength -------------------------------
(***************************************************************************)
(* The length of a string in the value format of lua-decoder.c: one to     *)
(* four bytes, seven bits in each but the fourth, which has eight; the top *)
(* bit of a byte before that says that another one follows.                *)
(***************************************************************************)
EXTENDS Integers, Sequences

Mask == 536870912               \* val &= 0x1FFFFFFF keeps 29 bits
SignBit == 268435456            \* 1 << 28

\* 0x80 set in a byte of which 0x7f is left.
More(x) == 128 + (x % 128)

\* Mutant: the fourth byte has seven bits like the others.
WriteSevenBits(val) ==
    LET v == val % Mask
    IN IF v < 128 THEN <<v>>
       ELSE IF v < 16384 THEN <<More(v \div 128), v % 128>>
       ELSE IF v < 2097152 THEN <<More(v \div 16384), More(v \div 128), v % 128>>
       ELSE <<More(v \div 2097152), More(v \div 16384), More(v \div 128), v % 128>>

WriteLength(val) ==
    LET v == val % Mask
    IN IF v < 128 THEN <<v>>
       ELSE IF v < 16384 THEN <<More(v \div 128), v % 128>>
       ELSE IF v < 2097152 THEN <<More(v \div 16384), More(v \div 128), v % 128>>
       ELSE <<More(v \div 4194304), More(v \div 32768), More(v \div 256), v % 256>>

\* r = -(acc & mask) | acc: the 29th bit is the sign.
SignExtend(acc) == IF acc >= SignBit THEN acc - Mask ELSE acc

\* acc & 0x7f of the bytes before, and the next one shifted in.
Read1(b) == b[1]
Read2(b) == (b[1] % 128) * 128 + b[2]
Read3(b) == ((b[1] % 128) * 128 + (b[2] % 128)) * 128 + b[3]
Read4(b) == (((b[1] % 128) * 128 + (b[2] % 128)) * 128 + (b[3] % 128)) * 256 + b[4]

UsedBytes(b) == IF b[1] < 128 THEN 1 ELSE IF b[2] < 128 THEN 2 ELSE IF b[3] < 128 THEN 3 ELSE 4

ReadLength(b) ==
    IF b[1] < 128 THEN Read1(b)
    ELSE SignExtend(IF b[2] < 128 THEN Read2(b) ELSE IF b[3] < 128 THEN Read3(b) ELSE Read4(b))
=============================================================================
