------------------------------ MODULE PkgState ------------------------------
(***************************************************************************)
(* The receive state of one connection: the fields curStat, precvbuf and   *)
(* irecvlen of connection_s, and what wait_request_handler and the two     *)
(* functions it calls do to them.                                          *)
(*                                                                         *)
(* precvbuf points either into the fixed array dataHeadInfo (while a       *)
(* header is collected) or into the buffer allocated for the package.  It  *)
(* is kept as the pair buf (which of the two) and off (how many bytes of   *)
(* the package lie before it; the message header that precedes the package *)
(* in the allocated buffer is not counted).                                *)
(*                                                                         *)
(* The program has HdrLen = sizeof(COMM_PKG_HEADER) = 8 and                *)
(* MaxPkgLen = _PKG_MAX_LENGTH - 1000 = 29000.                             *)
(***************************************************************************)
EXTENDS Integers

CONSTANTS
  HdrLen,      \* m_iLenPkgHeader
  MaxPkgLen    \* the longest package (header + body) that is accepted

ASSUME PkgAssumption ==
  /\ HdrLen \in Nat \ {0}
  /\ MaxPkgLen \in Nat
  /\ HdrLen <= MaxPkgLen

HeadStats == {"HD_INIT", "HD_RECVING"}
BodyStats == {"BD_INIT", "BD_RECVING"}

Rx == [curStat  : HeadStats \cup BodyStats,
       irecvlen : Nat,
       buf      : {"dataHeadInfo", "pnewMem"},
       off      : Nat]

(* Waiting for the first byte of a header. *)
RxStart == [curStat  |-> "HD_INIT",
            irecvlen |-> HdrLen,
            buf      |-> "dataHeadInfo",
            off      |-> 0]

(* The header is in and announces e_pkgLen > HdrLen bytes: wait for the    *)
(* body, to be stored behind the header in the allocated buffer.           *)
RxBody(e_pkgLen) == [curStat  |-> "BD_INIT",
                     irecvlen |-> e_pkgLen - HdrLen,
                     buf      |-> "pnewMem",
                     off      |-> HdrLen]

(* Mutated form: irecvlen is not reduced.                                  *)
RxPartial_sameLen(rx, n) ==
  [curStat  |-> IF rx.curStat \in HeadStats THEN "HD_RECVING" ELSE "BD_RECVING",
   irecvlen |-> rx.irecvlen,
   buf      |-> rx.buf,
   off      |-> rx.off + n]

(* Mutated form: precvbuf is not advanced.                                 *)
RxPartial_sameBuf(rx, n) ==
  [curStat  |-> IF rx.curStat \in HeadStats THEN "HD_RECVING" ELSE "BD_RECVING",
   irecvlen |-> rx.irecvlen - n,
   buf      |-> rx.buf,
   off      |-> rx.off]

(* n bytes came in and more are needed. *)
RxPartial(rx, n) ==
  [curStat  |-> IF rx.curStat \in HeadStats THEN "HD_RECVING" ELSE "BD_RECVING",
   irecvlen |-> rx.irecvlen - n,
   buf      |-> rx.buf,
   off      |-> rx.off + n]

(* Mutated form: a header that came in pieces is compared with HdrLen.     *)
HeaderDone_wholeOnly(rx, n) == rx.curStat \in HeadStats /\ n = HdrLen

(* recv returned n bytes: do they complete the header, or the body?        *)
HeaderDone(rx, n) ==
  \/ rx.curStat = "HD_INIT" /\ n = HdrLen
  \/ rx.curStat = "HD_RECVING" /\ n = rx.irecvlen

BodyDone(rx, n) == rx.curStat \in BodyStats /\ n = rx.irecvlen

(* Mutated form: a length shorter than the header itself is accepted.      *)
BadLen_noLower(e_pkgLen) == e_pkgLen > MaxPkgLen

(* The length field of a header that is thrown away. *)
BadLen(e_pkgLen) == e_pkgLen < HdrLen \/ e_pkgLen > MaxPkgLen
=============================================================================
