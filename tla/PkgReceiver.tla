----------------------------- MODULE PkgReceiver ----------------------------
(***************************************************************************)
(* The receive path of one connection, byte by byte: wait_request_handler, *)
(* recvproc, wait_request_handler_proc_p1 and                              *)
(* wait_request_handler_proc_plast, with the array dataHeadInfo and the    *)
(* allocated package buffer they write.  Every call of                     *)
(* wait_request_handler is one step; recv may return any number of bytes   *)
(* up to irecvlen.  The message header in front of the package and the     *)
(* trimming of m_MsgRecvQueue are in module Worker.                        *)
(***************************************************************************)
EXTENDS PkgState, Sequences

CONSTANTS Radix, Streams,
          Junk     \* what an uninitialised byte holds

VARIABLES
  stream,         \* everything the client sends on the connection
  pos,            \* how many bytes of it recv has returned
  rx,             \* curStat, irecvlen, precvbuf
  dataHeadInfo,   \* the header bytes collected so far
  pnewMem,        \* contents of the allocated package buffer; << >> if none
  out,            \* what inMsgRecvQueue was called with, oldest first
  open            \* FALSE after close_connection

vars == <<stream, pos, rx, dataHeadInfo, pnewMem, out, open>>

Abstract == INSTANCE PkgStream WITH start <- pos - rx.off

Byte == Abstract!Byte

ASSUME ReceiverAssumption ==
  /\ Radix \in Nat \ {0}
  /\ HdrLen >= 2
  /\ Streams \subseteq Seq(Byte)
  /\ Junk \notin Byte

-----------------------------------------------------------------------------
(* n bytes copied into a buffer behind its first off bytes. *)
Stored(buf, off, n) ==
  [i \in DOMAIN buf |-> IF off < i /\ i <= off + n THEN stream[pos + i - off]
                                                   ELSE buf[i]]

(* Mutated form: the header is not copied to the buffer.                   *)
NewBuffer_noCopy(head, len) == [i \in 1 .. len |-> Junk]

(* new char[len], with the header copied to its front. *)
NewBuffer(head, len) ==
  [i \in 1 .. len |-> IF i <= HdrLen THEN head[i] ELSE Junk]

Init ==
  /\ stream \in Streams
  /\ pos = 0
  /\ rx = RxStart
  /\ dataHeadInfo = [i \in 1 .. HdrLen |-> 0]      \* memset in get_connection
  /\ pnewMem = << >>
  /\ out = << >>
  /\ open = TRUE

(* recvproc returned n > 0 bytes. *)
Recv(n) ==
  /\ open
  /\ n <= rx.irecvlen
  /\ pos + n <= Len(stream)
  /\ pos' = pos + n
  /\ UNCHANGED <<stream, open>>

(* The header stays incomplete. *)
RecvHeaderPart(n) ==
  /\ Recv(n)
  /\ rx.curStat \in HeadStats
  /\ ~ HeaderDone(rx, n)
  /\ dataHeadInfo' = Stored(dataHeadInfo, rx.off, n)
  /\ rx' = RxPartial(rx, n)
  /\ UNCHANGED <<pnewMem, out>>

(* The header is complete: wait_request_handler_proc_p1. *)
RecvHeader(n) ==
  /\ Recv(n)
  /\ HeaderDone(rx, n)
  /\ dataHeadInfo' = Stored(dataHeadInfo, rx.off, n)
  /\ LET e_pkgLen == Abstract!PkgLenAt(dataHeadInfo', 0) IN
       \/ /\ BadLen(e_pkgLen)
          /\ rx' = RxStart
          /\ UNCHANGED <<pnewMem, out>>
       \/ /\ e_pkgLen = HdrLen            \* a header alone is a package
          /\ out' = Append(out, NewBuffer(dataHeadInfo', e_pkgLen))
          /\ rx' = RxStart
          /\ UNCHANGED pnewMem
       \/ /\ ~ BadLen(e_pkgLen)
          /\ e_pkgLen # HdrLen
          /\ pnewMem' = NewBuffer(dataHeadInfo', e_pkgLen)
          /\ rx' = RxBody(e_pkgLen)
          /\ UNCHANGED out

(* The body stays incomplete. *)
RecvBodyPart(n) ==
  /\ Recv(n)
  /\ rx.curStat \in BodyStats
  /\ ~ BodyDone(rx, n)
  /\ pnewMem' = Stored(pnewMem, rx.off, n)
  /\ rx' = RxPartial(rx, n)
  /\ UNCHANGED <<dataHeadInfo, out>>

(* The body is complete: wait_request_handler_proc_plast. *)
RecvBody(n) ==
  /\ Recv(n)
  /\ BodyDone(rx, n)
  /\ out' = Append(out, Stored(pnewMem, rx.off, n))
  /\ pnewMem' = << >>
  /\ rx' = RxStart
  /\ UNCHANGED dataHeadInfo

(* recv returned 0 or an error: close_connection, which frees the buffer   *)
(* of an unfinished package.                                               *)
RecvEnd ==
  /\ open
  /\ open' = FALSE
  /\ pnewMem' = << >>
  /\ UNCHANGED <<stream, pos, rx, dataHeadInfo, out>>

RecvSome ==
  \E n \in 1 .. MaxPkgLen :
    RecvHeaderPart(n) \/ RecvHeader(n) \/ RecvBodyPart(n) \/ RecvBody(n)

Next == RecvSome \/ RecvEnd

Spec == Init /\ [][Next]_vars

(* Level-triggered polling: as long as bytes are unread, epoll_wait keeps  *)
(* reporting the socket and recvproc is called again (module Worker).      *)
FairSpec == Spec /\ WF_vars(RecvSome)

-----------------------------------------------------------------------------
TypeOK ==
  /\ stream \in Streams
  /\ pos \in 0 .. Len(stream)
  /\ rx \in Rx
  /\ dataHeadInfo \in [1 .. HdrLen -> Byte]
  /\ pnewMem \in Seq(Byte \cup {Junk})
  /\ out \in Seq(Seq(Byte \cup {Junk}))
  /\ open \in BOOLEAN

(* The next recv asks for exactly the rest of the place it writes to, so   *)
(* recv(c->fd, c->precvbuf, c->irecvlen) never runs over the end of        *)
(* dataHeadInfo or of the allocated buffer and never asks for 0 bytes      *)
(* (recv would answer 0 and the client would be taken for gone).           *)
FitsBuffer ==
  open =>
    /\ rx.irecvlen > 0
    /\ rx.buf = "dataHeadInfo" => rx.off + rx.irecvlen = HdrLen
    /\ rx.buf = "pnewMem" => rx.off + rx.irecvlen = Len(pnewMem)

(* What has been received of the current package is stored, byte for byte  *)
(* and in place, whatever the pieces it came in.                           *)
Collected ==
  open =>
    /\ rx.off <= pos
    /\ \A i \in 1 .. rx.off :
         stream[pos - rx.off + i] =
           IF rx.buf = "dataHeadInfo" THEN dataHeadInfo[i] ELSE pnewMem[i]

(* The receive path implements PkgStream: how the network cuts the stream  *)
(* into pieces has no influence on the packages that reach m_MsgRecvQueue. *)
ImplementsPkgStream == Abstract!Spec

(* And no package is withheld: once all of its bytes have arrived it is    *)
(* handed over (or the connection is closed); the state machine never      *)
(* waits for a byte that belongs to the next package.                      *)
NothingWithheld == Abstract!FairSpec
=============================================================================
