------------------------------ MODULE MCDecoder ------------------------------
(* Instances of Decoder for TLC. *)
EXTENDS Decoder

\* Packets of 0, 1 and 3 values: lengths 1, 2 and 6.
SmallPackets == {<<>>, <<"nil">>, <<"true", "false", "nil">>}
UpTo(k) == UNION {[1..m -> SmallPackets] : m \in 1..k}
UpToThree == UpTo(3)
UpToTwo == UpTo(2)
=============================================================================
