------------------------------ MODULE PkgStream -----------------------------
(***************************************************************************)
(* What the receive path of one connection promises.  The bytes a client   *)
(* sends are cut into packages at positions that depend on the bytes alone *)
(* and never on how the network splits them: at a package boundary, a      *)
(* header with an unacceptable length is skipped as HdrLen bytes, any      *)
(* other header starts a package that is handed over whole, in order and   *)
(* exactly once.  When the connection goes away an unfinished package is   *)
(* dropped.                                                                *)
(***************************************************************************)
EXTENDS PkgState, Sequences

CONSTANTS
  Radix,       \* the length field is two bytes, each below Radix (256)
  Streams      \* what a client may send

Byte == 0 .. Radix - 1

(* ntohs(pPkgHeader->pkgLen): the first two bytes, high byte first. *)
PkgLenAt(bytes, at) == bytes[at + 1] * Radix + bytes[at + 2]

VARIABLES
  stream,      \* everything the client sends on the connection
  start,       \* number of bytes before the current package boundary
  out,         \* the packages handed over to m_MsgRecvQueue so far
  open         \* the connection exists

vars == <<stream, start, out, open>>

Init ==
  /\ stream \in Streams
  /\ start = 0
  /\ out = << >>
  /\ open = TRUE

(* A header with a bad length: only the header is skipped. *)
SkipHeader ==
  /\ open
  /\ start + HdrLen <= Len(stream)
  /\ BadLen(PkgLenAt(stream, start))
  /\ start' = start + HdrLen
  /\ UNCHANGED <<stream, out, open>>

(* One whole package. *)
Deliver ==
  /\ open
  /\ start + HdrLen <= Len(stream)
  /\ LET len == PkgLenAt(stream, start) IN
       /\ ~ BadLen(len)
       /\ start + len <= Len(stream)
       /\ out' = Append(out, SubSeq(stream, start + 1, start + len))
       /\ start' = start + len
  /\ UNCHANGED <<stream, open>>

Close ==
  /\ open
  /\ open' = FALSE
  /\ UNCHANGED <<stream, start, out>>

Next == SkipHeader \/ Deliver \/ Close

Spec == Init /\ [][Next]_vars

(* Whatever has been sent as a whole is handed over, unless the connection *)
(* goes away first.                                                        *)
FairSpec == Spec /\ WF_vars(SkipHeader \/ Deliver)
=============================================================================
