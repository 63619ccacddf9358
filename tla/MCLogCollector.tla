--------------------------- MODULE MCLogCollector ---------------------------
(* LogCollector; threads that do the same are interchangeable.             *)
EXTENDS LogCollector, TLC

Symmetric == Permutations(Threads)
=============================================================================
