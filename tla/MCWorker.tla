------------------------------ MODULE MCWorker ------------------------------
(***************************************************************************)
(* Worker for TLC: clients and buffers are interchangeable.                *)
(***************************************************************************)
EXTENDS Worker, TLC

ClientSymmetry == Permutations(Clients)
=============================================================================
