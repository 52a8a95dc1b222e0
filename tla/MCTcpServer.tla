----------------------------- MODULE MCTcpServer -----------------------------
(* Instances of TcpServer for TLC. *)
EXTENDS ServerLifecycle, TLC

ConnSymmetry == Permutations(Conns)
=============================================================================
