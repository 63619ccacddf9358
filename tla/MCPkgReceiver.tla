---------------------------- MODULE MCPkgReceiver ---------------------------
(***************************************************************************)
(* PkgReceiver on every byte sequence of length StreamLen over Radix       *)
(* digits.  Shorter streams need no initial states of their own: RecvEnd   *)
(* may cut every stream after any byte.                                    *)
(***************************************************************************)
EXTENDS PkgReceiver

CONSTANT StreamLen

MCStreams == [1 .. StreamLen -> 0 .. Radix - 1]
=============================================================================
