---------------------------- MODULE MCLuaObjects ----------------------------
(* Instances of LuaObjects for TLC.                                         *)
EXTENDS LuaObjects, TLC

ConnAndDecoderSymmetry == Permutations(Conns) \cup Permutations(Decoders)
=============================================================================
