------------------------------ MODULE MCMinHeap ------------------------------
(* Instances of MinHeap for TLC. *)
EXTENDS MinHeap, TLC

NodeSymmetry == Permutations(Nodes)
=============================================================================
