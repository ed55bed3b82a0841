----------------------------- MODULE MCWsClient ----------------------------
(* WsClient with its threads and its connections interchangeable. *)
EXTENDS WsClient, TLC

Symmetry == Permutations(Threads) \cup Permutations(Conns)
=============================================================================
