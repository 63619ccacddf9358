------------------------------ MODULE MCConfig ------------------------------
(***************************************************************************)
(* Config on every file of at most FileMax characters.                     *)
(***************************************************************************)
EXTENDS Config

CONSTANT FileMax

AllFiles == UNION {[1 .. n -> Chars] : n \in 0 .. FileMax}
=============================================================================
