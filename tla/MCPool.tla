------------------------------- MODULE MCPool -------------------------------
(* Instances of the connection pool: threads and connections are model       *)
(* values that nothing tells apart.                                          *)
EXTENDS PoolCorrectness, TLC

Symmetric == Permutations(Threads) \cup Permutations(Conns)

BothKinds == {"threaded", "persistent"}
=============================================================================
