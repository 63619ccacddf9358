--------------------------- MODULE MCSpscVarQueue ---------------------------
(***************************************************************************)
(* SpscVarQueue for TLC: a ring of a few blocks and messages of every      *)
(* length that fits (two to BLK_CNT - 1 blocks), so that the end of the    *)
(* ring is met in every possible way.                                      *)
(***************************************************************************)
EXTENDS SpscVarQueue

(* One size that fills its blocks exactly, and others that do not.         *)
EveryLength == {8} \cup {8 * n + 1 : n \in 1 .. BLK_CNT - 3}
=============================================================================
