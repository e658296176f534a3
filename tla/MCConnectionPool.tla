------------------------- MODULE MCConnectionPool -------------------------
(* Model checking of ConnectionPool: goroutines are interchangeable. *)
EXTENDS ConnectionPool, TLC

Symmetry == Permutations(Procs)
=============================================================================
