-------------------------- MODULE PkgReceiverProofs -------------------------
(***************************************************************************)
(* For every header length, package limit and stream: the receive path     *)
(* stays inside its buffers, keeps what it has received in place, and      *)
(* implements PkgStream.                                                   *)
(***************************************************************************)
EXTENDS PkgReceiver, TLAPS

(* What ties precvbuf to curStat, and the allocated buffer to the length   *)
(* its header announced.                                                   *)
Shape ==
  /\ rx.buf = "dataHeadInfo" <=> rx.curStat \in HeadStats
  /\ rx.curStat = "HD_INIT" => rx.off = 0
  /\ (open /\ rx.curStat \in BodyStats) =>
       /\ HdrLen <= rx.off
       /\ Len(pnewMem) = Abstract!PkgLenAt(stream, pos - rx.off)
       /\ HdrLen < Len(pnewMem)
       /\ Len(pnewMem) <= MaxPkgLen

IInv == TypeOK /\ FitsBuffer /\ Collected /\ Shape

(* Copying bytes of the stream into a buffer changes neither its length    *)
(* nor the kind of its contents (recv in recvproc).                        *)
LEMMA StoredType ==
  ASSUME stream \in Streams, pos \in Nat,
         NEW n \in Nat, pos + n <= Len(stream),
         NEW off \in Nat,
         NEW S, Byte \subseteq S, NEW buf \in Seq(S)
  PROVE  /\ Stored(buf, off, n) \in Seq(S)
         /\ Len(Stored(buf, off, n)) = Len(buf)
         /\ \A i \in 1 .. Len(buf) :
              Stored(buf, off, n)[i] =
                IF off < i /\ i <= off + n THEN stream[pos + i - off] ELSE buf[i]
<1>1. stream \in Seq(Byte)
  BY ReceiverAssumption
<1>2. DOMAIN buf = 1 .. Len(buf) /\ Len(buf) \in Nat
  OBVIOUS
<1>3. ASSUME NEW i \in 1 .. Len(buf)
      PROVE  (IF off < i /\ i <= off + n THEN stream[pos + i - off] ELSE buf[i]) \in S
  <2>1. CASE off < i /\ i <= off + n
    <3>1. pos + i - off \in 1 .. Len(stream)
      BY <2>1, <1>1, <1>2
    <3> QED BY <2>1, <3>1, <1>1
  <2>2. CASE ~ (off < i /\ i <= off + n)
    BY <2>2
  <2> QED BY <2>1, <2>2
<1>4. Stored(buf, off, n) \in [1 .. Len(buf) -> S]
  BY <1>2, <1>3 DEF Stored
<1>5. Stored(buf, off, n) \in Seq(S) /\ Len(Stored(buf, off, n)) = Len(buf)
  BY <1>4, <1>2
<1> QED BY <1>5, <1>2 DEF Stored

(* A new package buffer starts with the collected header.                  *)
LEMMA NewBufferType ==
  ASSUME NEW S, Junk \in S, NEW head \in [1 .. HdrLen -> S], NEW len \in Nat
  PROVE  /\ NewBuffer(head, len) \in Seq(S)
         /\ Len(NewBuffer(head, len)) = len
         /\ \A i \in 1 .. len : i <= HdrLen => NewBuffer(head, len)[i] = head[i]
<1>1. \A i \in 1 .. len : (IF i <= HdrLen THEN head[i] ELSE Junk) \in S
  BY PkgAssumption
<1>2. NewBuffer(head, len) \in [1 .. len -> S]
  BY <1>1 DEF NewBuffer
<1>3. NewBuffer(head, len) \in Seq(S) /\ Len(NewBuffer(head, len)) = len
  BY <1>2
<1> QED BY <1>3 DEF NewBuffer

(* The length field of a header is a natural number.                       *)
LEMMA PkgLenType ==
  ASSUME NEW head \in Seq(Byte), NEW at \in Nat, at + HdrLen <= Len(head)
  PROVE  Abstract!PkgLenAt(head, at) \in Nat
<1>1. at + 1 \in 1 .. Len(head) /\ at + 2 \in 1 .. Len(head)
  BY ReceiverAssumption, PkgAssumption
<1>2. head[at + 1] \in Byte /\ head[at + 2] \in Byte
  BY <1>1
<1>3. Byte \subseteq Nat
  BY ReceiverAssumption DEF Byte, Abstract!Byte
<1>4. \A a, b \in Nat : a * Radix + b \in Nat
  BY ReceiverAssumption
<1> QED BY <1>2, <1>3, <1>4 DEF Abstract!PkgLenAt

(* Bytes that are stored behind the ones already in place are in place     *)
(* too: the invariant Collected survives a recv.                           *)
LEMMA StoredInPlace ==
  ASSUME pos \in Nat, NEW n \in Nat, NEW off \in Nat, off <= pos,
         NEW buf \in Seq(Byte \cup {Junk}), off + n <= Len(buf),
         \A i \in 1 .. off : stream[pos - off + i] = buf[i]
  PROVE  \A i \in 1 .. off + n : Stored(buf, off, n)[i] = stream[pos - off + i]
<1> TAKE i \in 1 .. off + n
<1>1. i \in DOMAIN buf
  OBVIOUS
<1>2. Stored(buf, off, n)[i] =
        IF off < i /\ i <= off + n THEN stream[pos + i - off] ELSE buf[i]
  BY <1>1 DEF Stored
<1>3. CASE off < i
  <2>1. pos + i - off = pos - off + i
    OBVIOUS
  <2> QED BY <1>2, <1>3, <2>1
<1>4. CASE ~ (off < i)
  <2>1. i \in 1 .. off
    BY <1>4
  <2> QED BY <1>2, <1>4, <2>1
<1> QED BY <1>3, <1>4

(* dataHeadInfo after a recv in one of the header states.                  *)
LEMMA HeaderStored ==
  ASSUME IInv, NEW n \in 1 .. MaxPkgLen, Recv(n), rx.curStat \in HeadStats,
         dataHeadInfo' = Stored(dataHeadInfo, rx.off, n)
  PROVE  /\ dataHeadInfo' \in [1 .. HdrLen -> Byte]
         /\ dataHeadInfo' \in Seq(Byte) /\ Len(dataHeadInfo') = HdrLen
         /\ rx.off + n <= HdrLen
         /\ \A i \in 1 .. rx.off + n : dataHeadInfo'[i] = stream[pos - rx.off + i]
<1>1. /\ rx.buf = "dataHeadInfo" /\ rx.off \in Nat /\ rx.irecvlen \in Nat
      /\ rx.off + rx.irecvlen = HdrLen /\ n <= rx.irecvlen /\ rx.off <= pos
      /\ \A i \in 1 .. rx.off : stream[pos - rx.off + i] = dataHeadInfo[i]
  BY DEF IInv, TypeOK, FitsBuffer, Collected, Shape, Recv, Rx
<1>2. /\ stream \in Streams /\ pos \in Nat /\ n \in Nat /\ pos + n <= Len(stream)
      /\ stream \in Seq(Byte) /\ HdrLen \in Nat
  BY ReceiverAssumption, PkgAssumption DEF IInv, TypeOK, Recv
<1>3. dataHeadInfo \in [1 .. HdrLen -> Byte]
  BY DEF IInv, TypeOK
<1>4. dataHeadInfo \in Seq(Byte) /\ Len(dataHeadInfo) = HdrLen /\ Byte \subseteq Byte
  BY <1>2, <1>3
<1>5. dataHeadInfo' \in Seq(Byte) /\ Len(dataHeadInfo') = HdrLen
  <2>1. /\ Stored(dataHeadInfo, rx.off, n) \in Seq(Byte)
        /\ Len(Stored(dataHeadInfo, rx.off, n)) = Len(dataHeadInfo)
    BY <1>1, <1>2, <1>4, StoredType
  <2> QED BY <2>1, <1>4
<1>6. rx.off + n <= HdrLen
  BY <1>1, <1>2
<1>7. \A i \in 1 .. rx.off + n : dataHeadInfo'[i] = stream[pos - rx.off + i]
  <2>1. \A i \in 1 .. rx.off + n :
          Stored(dataHeadInfo, rx.off, n)[i] = stream[pos - rx.off + i]
    <3>1. dataHeadInfo \in Seq(Byte \cup {Junk}) /\ rx.off + n <= Len(dataHeadInfo)
      BY <1>4, <1>6
    <3> QED BY <1>1, <1>2, <3>1, StoredInPlace
  <2> QED BY <2>1
<1>8. dataHeadInfo' \in [1 .. HdrLen -> Byte]
  BY <1>5, <1>2
<1> QED BY <1>5, <1>6, <1>7, <1>8

(* The allocated buffer after a recv in one of the body states.            *)
LEMMA BodyStored ==
  ASSUME IInv, NEW n \in 1 .. MaxPkgLen, Recv(n), rx.curStat \in BodyStats,
         NEW pkg, pkg = Stored(pnewMem, rx.off, n)
  PROVE  /\ pkg \in Seq(Byte \cup {Junk}) /\ Len(pkg) = Len(pnewMem)
         /\ rx.off + n <= Len(pkg)
         /\ \A i \in 1 .. rx.off + n : pkg[i] = stream[pos - rx.off + i]
<1>1. /\ rx.buf = "pnewMem" /\ rx.off \in Nat /\ rx.irecvlen \in Nat
      /\ rx.off + rx.irecvlen = Len(pnewMem) /\ n <= rx.irecvlen /\ rx.off <= pos
      /\ \A i \in 1 .. rx.off : stream[pos - rx.off + i] = pnewMem[i]
  BY DEF IInv, TypeOK, FitsBuffer, Collected, Shape, Recv, Rx, HeadStats, BodyStats
<1>2. /\ stream \in Streams /\ pos \in Nat /\ n \in Nat /\ pos + n <= Len(stream)
      /\ stream \in Seq(Byte)
  BY ReceiverAssumption, PkgAssumption DEF IInv, TypeOK, Recv
<1>3. pnewMem \in Seq(Byte \cup {Junk}) /\ Byte \subseteq Byte \cup {Junk}
  BY DEF IInv, TypeOK
<1>4. pkg \in Seq(Byte \cup {Junk}) /\ Len(pkg) = Len(pnewMem)
  BY <1>1, <1>2, <1>3, StoredType
<1>5. rx.off + n <= Len(pnewMem)
  BY <1>1, <1>2, <1>3
<1>6. \A i \in 1 .. rx.off + n : pkg[i] = stream[pos - rx.off + i]
  BY <1>1, <1>2, <1>3, <1>5, StoredInPlace
<1> QED BY <1>4, <1>5, <1>6

-----------------------------------------------------------------------------
(* The length field depends on the stream alone: it can be read from the   *)
(* completed header or from the stream at the package boundary.            *)
LEMMA HeaderLen ==
  ASSUME NEW head, NEW start \in Nat,
         \A i \in 1 .. HdrLen : head[i] = stream[start + i]
  PROVE  Abstract!PkgLenAt(head, 0) = Abstract!PkgLenAt(stream, start)
<1>1. 1 \in 1 .. HdrLen /\ 2 \in 1 .. HdrLen
  BY ReceiverAssumption, PkgAssumption
<1>2. head[1] = stream[start + 1] /\ head[2] = stream[start + 2]
  BY <1>1
<1> QED BY <1>2 DEF Abstract!PkgLenAt

(* A completed header: what RecvHeader reads and where the stream stands.  *)
LEMMA HeaderComplete ==
  ASSUME IInv, NEW n \in 1 .. MaxPkgLen, RecvHeader(n)
  PROVE  /\ rx.curStat \in HeadStats /\ rx.off + n = HdrLen
         /\ pos' = pos - rx.off + HdrLen /\ pos - rx.off \in Nat
         /\ dataHeadInfo' \in [1 .. HdrLen -> Byte]
         /\ \A i \in 1 .. HdrLen : dataHeadInfo'[i] = stream[pos - rx.off + i]
         /\ Abstract!PkgLenAt(dataHeadInfo', 0) = Abstract!PkgLenAt(stream, pos - rx.off)
         /\ Abstract!PkgLenAt(dataHeadInfo', 0) \in Nat
<1>1. Recv(n) /\ rx.curStat \in HeadStats /\ dataHeadInfo' = Stored(dataHeadInfo, rx.off, n)
  BY DEF RecvHeader, HeaderDone, HeadStats
<1>2. /\ dataHeadInfo' \in [1 .. HdrLen -> Byte]
      /\ dataHeadInfo' \in Seq(Byte) /\ Len(dataHeadInfo') = HdrLen
      /\ \A i \in 1 .. rx.off + n : dataHeadInfo'[i] = stream[pos - rx.off + i]
  BY <1>1, HeaderStored
<1>3. /\ rx.off + n = HdrLen /\ pos - rx.off \in Nat
      /\ pos' = pos - rx.off + HdrLen
  <2>1. /\ rx.off \in Nat /\ rx.irecvlen \in Nat /\ pos \in Nat /\ rx.off <= pos
        /\ rx.off + rx.irecvlen = HdrLen
        /\ rx.curStat = "HD_INIT" => rx.off = 0
    BY <1>1 DEF IInv, TypeOK, FitsBuffer, Collected, Shape, Recv, Rx
  <2>2. (n = HdrLen /\ rx.curStat = "HD_INIT") \/ n = rx.irecvlen
    BY DEF RecvHeader, HeaderDone
  <2>3. pos' = pos + n /\ HdrLen \in Nat
    BY <1>1, PkgAssumption DEF Recv
  <2> QED BY <2>1, <2>2, <2>3
<1>4. \A i \in 1 .. HdrLen : dataHeadInfo'[i] = stream[pos - rx.off + i]
  BY <1>2, <1>3
<1>5. Abstract!PkgLenAt(dataHeadInfo', 0) = Abstract!PkgLenAt(stream, pos - rx.off)
  <2>1. \A head : (\A i \in 1 .. HdrLen : head[i] = stream[pos - rx.off + i]) =>
          Abstract!PkgLenAt(head, 0) = Abstract!PkgLenAt(stream, pos - rx.off)
    BY <1>3, HeaderLen
  <2> QED BY <2>1, <1>4
<1>6. Abstract!PkgLenAt(dataHeadInfo', 0) \in Nat
  <2>1. \A head \in Seq(Byte) : Len(head) = HdrLen => Abstract!PkgLenAt(head, 0) \in Nat
    BY PkgLenType, PkgAssumption
  <2> QED BY <2>1, <1>2
<1> QED BY <1>1, <1>2, <1>3, <1>4, <1>5, <1>6

-----------------------------------------------------------------------------
(* A connection fresh from get_connection satisfies the invariant.         *)
LEMMA InitInv == Init => IInv
<1> SUFFICES ASSUME Init PROVE IInv
  OBVIOUS
<1>1. RxStart \in Rx /\ HdrLen \in Nat \ {0}
  BY PkgAssumption DEF RxStart, Rx, HeadStats
<1>2. 0 \in Byte /\ stream \in Seq(Byte)
  BY ReceiverAssumption DEF Byte, Abstract!Byte, Init
<1>3. TypeOK
  BY <1>1, <1>2 DEF Init, TypeOK
<1>4. FitsBuffer /\ Collected /\ Shape
  BY <1>1 DEF Init, FitsBuffer, Collected, Shape, RxStart, HeadStats, BodyStats
<1> QED BY <1>3, <1>4 DEF IInv

(* A recv that leaves the header incomplete preserves the invariant.       *)
LEMMA HeaderPartInv ==
  ASSUME IInv, NEW n \in 1 .. MaxPkgLen, RecvHeaderPart(n)
  PROVE  IInv'
<1>1. Recv(n) /\ rx.curStat \in HeadStats /\ dataHeadInfo' = Stored(dataHeadInfo, rx.off, n)
  BY DEF RecvHeaderPart
<1>2. /\ dataHeadInfo' \in [1 .. HdrLen -> Byte] /\ rx.off + n <= HdrLen
      /\ \A i \in 1 .. rx.off + n : dataHeadInfo'[i] = stream[pos - rx.off + i]
  BY <1>1, HeaderStored
<1>3. /\ rx \in Rx /\ rx.off \in Nat /\ rx.irecvlen \in Nat /\ rx.buf = "dataHeadInfo"
      /\ pos \in Nat /\ rx.off <= pos /\ rx.off + rx.irecvlen = HdrLen
      /\ open = TRUE /\ stream \in Seq(Byte) /\ HdrLen \in Nat /\ n \in Nat \ {0}
  BY <1>1, PkgAssumption, ReceiverAssumption
  DEF IInv, TypeOK, FitsBuffer, Collected, Shape, Recv, Rx
<1>4. n < rx.irecvlen
  <2>1. n <= rx.irecvlen
    BY <1>1 DEF Recv
  <2>2. n # rx.irecvlen
    <3>1. CASE rx.curStat = "HD_INIT"
      <4>1. rx.off = 0
        BY <3>1 DEF IInv, Shape
      <4> QED BY <3>1, <4>1, <1>3 DEF RecvHeaderPart, HeaderDone
    <3>2. CASE rx.curStat = "HD_RECVING"
      BY <3>2 DEF RecvHeaderPart, HeaderDone
    <3> QED BY <1>1, <3>1, <3>2 DEF HeadStats
  <2> QED BY <2>1, <2>2, <1>3
<1>5. /\ rx' = [curStat |-> "HD_RECVING", irecvlen |-> rx.irecvlen - n,
                buf |-> "dataHeadInfo", off |-> rx.off + n]
      /\ pos' = pos + n /\ pos + n <= Len(stream) /\ UNCHANGED <<stream, open, pnewMem, out>>
  BY <1>1, <1>3 DEF RecvHeaderPart, Recv, RxPartial
<1>6. rx' \in Rx
  BY <1>3, <1>4, <1>5 DEF Rx, HeadStats
<1>7. TypeOK'
  BY <1>2, <1>3, <1>5, <1>6 DEF IInv, TypeOK
<1>8. FitsBuffer'
  BY <1>3, <1>4, <1>5, SMTT(30) DEF FitsBuffer
<1>9. Collected'
  <2>1. rx'.off = rx.off + n /\ pos' - rx'.off = pos - rx.off /\ rx'.off <= pos'
    BY <1>3, <1>5
  <2> QED BY <1>2, <1>5, <2>1 DEF Collected
<1>10. Shape'
  BY <1>5 DEF Shape, HeadStats, BodyStats
<1> QED BY <1>7, <1>8, <1>9, <1>10 DEF IInv

(* Back at a package boundary the receive state is the initial one, which  *)
(* satisfies every part of the invariant.                                  *)
LEMMA BoundaryInv ==
  ASSUME IInv, NEW n \in 1 .. MaxPkgLen, Recv(n), rx' = RxStart,
         dataHeadInfo' \in [1 .. HdrLen -> Byte],
         pnewMem' \in Seq(Byte \cup {Junk}),
         out' \in Seq(Seq(Byte \cup {Junk}))
  PROVE  IInv'
<1>1. /\ pos \in Nat /\ n \in Nat /\ pos' = pos + n /\ pos + n <= Len(stream)
      /\ open = TRUE /\ stream' = stream /\ open' = open /\ stream \in Streams
      /\ stream \in Seq(Byte) /\ HdrLen \in Nat \ {0}
  BY PkgAssumption, ReceiverAssumption DEF IInv, TypeOK, Recv
<1>2. rx' = [curStat |-> "HD_INIT", irecvlen |-> HdrLen, buf |-> "dataHeadInfo", off |-> 0]
  BY DEF RxStart
<1>3. rx' \in Rx
  BY <1>1, <1>2 DEF Rx, HeadStats
<1>4. TypeOK'
  BY <1>1, <1>3 DEF TypeOK
<1>5. FitsBuffer' /\ Collected' /\ Shape'
  BY <1>1, <1>2 DEF FitsBuffer, Collected, Shape, HeadStats, BodyStats
<1> QED BY <1>4, <1>5 DEF IInv

(* A completed header (wait_request_handler_proc_p1) preserves it, whether *)
(* the header is thrown away, is a package, or is followed by a body.      *)
LEMMA HeaderInv ==
  ASSUME IInv, NEW n \in 1 .. MaxPkgLen, RecvHeader(n)
  PROVE  IInv'
<1> DEFINE e_pkgLen == Abstract!PkgLenAt(dataHeadInfo', 0)
<1>1. /\ rx.off + n = HdrLen /\ pos' = pos - rx.off + HdrLen /\ pos - rx.off \in Nat
      /\ dataHeadInfo' \in [1 .. HdrLen -> Byte]
      /\ \A i \in 1 .. HdrLen : dataHeadInfo'[i] = stream[pos - rx.off + i]
      /\ e_pkgLen = Abstract!PkgLenAt(stream, pos - rx.off) /\ e_pkgLen \in Nat
  BY HeaderComplete
<1>2. /\ Recv(n) /\ pos \in Nat /\ n \in Nat /\ pos' = pos + n /\ pos + n <= Len(stream)
      /\ open = TRUE /\ stream' = stream /\ open' = open /\ stream \in Streams
      /\ stream \in Seq(Byte) /\ HdrLen \in Nat \ {0}
      /\ pnewMem \in Seq(Byte \cup {Junk}) /\ out \in Seq(Seq(Byte \cup {Junk}))
  BY PkgAssumption, ReceiverAssumption DEF IInv, TypeOK, RecvHeader, Recv
<1>3. /\ NewBuffer(dataHeadInfo', e_pkgLen) \in Seq(Byte \cup {Junk})
      /\ Len(NewBuffer(dataHeadInfo', e_pkgLen)) = e_pkgLen
      /\ \A i \in 1 .. e_pkgLen :
           i <= HdrLen => NewBuffer(dataHeadInfo', e_pkgLen)[i] = dataHeadInfo'[i]
  <2>1. \A head \in [1 .. HdrLen -> Byte \cup {Junk}] : \A len \in Nat :
          /\ NewBuffer(head, len) \in Seq(Byte \cup {Junk})
          /\ Len(NewBuffer(head, len)) = len
          /\ \A i \in 1 .. len : i <= HdrLen => NewBuffer(head, len)[i] = head[i]
    BY NewBufferType
  <2>2. dataHeadInfo' \in [1 .. HdrLen -> Byte \cup {Junk}]
    BY <1>1
  <2> QED BY <2>1, <2>2, <1>1
<1>4. CASE BadLen(e_pkgLen) /\ rx' = RxStart /\ UNCHANGED <<pnewMem, out>>
  BY <1>1, <1>2, <1>4, BoundaryInv
<1>5. CASE /\ out' = Append(out, NewBuffer(dataHeadInfo', e_pkgLen))
           /\ rx' = RxStart /\ UNCHANGED pnewMem
  <2>1. out' \in Seq(Seq(Byte \cup {Junk}))
    BY <1>2, <1>3, <1>5
  <2> QED BY <1>1, <1>2, <1>5, <2>1, BoundaryInv
<1>6. CASE /\ ~ BadLen(e_pkgLen) /\ e_pkgLen # HdrLen
           /\ pnewMem' = NewBuffer(dataHeadInfo', e_pkgLen)
           /\ rx' = RxBody(e_pkgLen) /\ UNCHANGED out
  <2>1. HdrLen < e_pkgLen /\ e_pkgLen <= MaxPkgLen
    BY <1>1, <1>2, <1>6, PkgAssumption DEF BadLen
  <2>2. rx' = [curStat |-> "BD_INIT", irecvlen |-> e_pkgLen - HdrLen,
               buf |-> "pnewMem", off |-> HdrLen]
    BY <1>6 DEF RxBody
  <2>3. rx' \in Rx
    BY <1>1, <1>2, <2>1, <2>2 DEF Rx, BodyStats
  <2>4. pnewMem' \in Seq(Byte \cup {Junk}) /\ Len(pnewMem') = e_pkgLen
    BY <1>3, <1>6
  <2>5. TypeOK'
    BY <1>1, <1>2, <1>6, <2>3, <2>4 DEF TypeOK
  <2>6. FitsBuffer'
    BY <1>1, <1>2, <2>1, <2>2, <2>4 DEF FitsBuffer
  <2>7. Collected'
    <3>1. pos' - rx'.off = pos - rx.off /\ rx'.off = HdrLen /\ rx'.off <= pos'
      BY <1>1, <1>2, <2>2
    <3>2. \A i \in 1 .. HdrLen : pnewMem'[i] = stream[pos - rx.off + i]
      <4> TAKE i \in 1 .. HdrLen
      <4>1. i \in 1 .. e_pkgLen /\ i <= HdrLen
        BY <2>1, <1>1, <1>2
      <4> QED BY <4>1, <1>1, <1>3, <1>6
    <3> QED BY <3>1, <3>2, <1>2, <2>2 DEF Collected
  <2>8. Shape'
    <3>1. pos' - rx'.off = pos - rx.off /\ rx'.off = HdrLen
      BY <1>1, <1>2, <2>2
    <3>2. Len(pnewMem') = Abstract!PkgLenAt(stream', pos' - rx'.off)
      BY <3>1, <2>4, <1>1, <1>2
    <3>3. HdrLen <= rx'.off
      BY <3>1, <1>2
    <3> QED BY <3>2, <3>3, <2>1, <2>2, <2>4 DEF Shape, HeadStats, BodyStats
  <2> QED BY <2>5, <2>6, <2>7, <2>8 DEF IInv
<1> QED BY <1>4, <1>5, <1>6 DEF RecvHeader

(* Where a body state stands: the package begins at pos - rx.off, and its  *)
(* header there gives the length of the buffer.                            *)
LEMMA BodyFacts ==
  ASSUME IInv, NEW n \in 1 .. MaxPkgLen, Recv(n), rx.curStat \in BodyStats
  PROVE  /\ rx.buf = "pnewMem" /\ rx.off \in Nat /\ rx.irecvlen \in Nat /\ pos \in Nat
         /\ n \in Nat \ {0} /\ n <= rx.irecvlen /\ rx.off <= pos /\ HdrLen <= rx.off
         /\ rx.off + rx.irecvlen = Len(pnewMem)
         /\ Len(pnewMem) = Abstract!PkgLenAt(stream, pos - rx.off)
         /\ HdrLen < Len(pnewMem) /\ Len(pnewMem) <= MaxPkgLen
         /\ open = TRUE /\ pos' = pos + n /\ pos + n <= Len(stream)
         /\ stream' = stream /\ open' = open
         /\ stream \in Streams /\ stream \in Seq(Byte)
         /\ pnewMem \in Seq(Byte \cup {Junk}) /\ out \in Seq(Seq(Byte \cup {Junk}))
         /\ dataHeadInfo \in [1 .. HdrLen -> Byte]
<1>1. /\ stream \in Streams /\ pos \in Nat /\ rx \in Rx /\ open \in BOOLEAN
      /\ pnewMem \in Seq(Byte \cup {Junk}) /\ out \in Seq(Seq(Byte \cup {Junk}))
      /\ dataHeadInfo \in [1 .. HdrLen -> Byte] /\ stream \in Seq(Byte)
  BY ReceiverAssumption DEF IInv, TypeOK
<1>2. /\ open = TRUE /\ n <= rx.irecvlen /\ pos' = pos + n /\ pos + n <= Len(stream)
      /\ stream' = stream /\ open' = open
  BY <1>1 DEF Recv
<1>3. rx.off \in Nat /\ rx.irecvlen \in Nat /\ rx.buf = "pnewMem" /\ n \in Nat \ {0}
  BY <1>1 DEF IInv, Shape, Rx, HeadStats, BodyStats
<1>4. rx.off + rx.irecvlen = Len(pnewMem) /\ rx.off <= pos
  BY <1>2, <1>3 DEF IInv, FitsBuffer, Collected
<1>5. /\ HdrLen <= rx.off /\ Len(pnewMem) = Abstract!PkgLenAt(stream, pos - rx.off)
      /\ HdrLen < Len(pnewMem) /\ Len(pnewMem) <= MaxPkgLen
  BY <1>2 DEF IInv, Shape
<1> QED BY <1>1, <1>2, <1>3, <1>4, <1>5

(* A recv that leaves the body incomplete preserves the invariant.         *)
LEMMA BodyPartInv ==
  ASSUME IInv, NEW n \in 1 .. MaxPkgLen, RecvBodyPart(n)
  PROVE  IInv'
<1>1. Recv(n) /\ rx.curStat \in BodyStats /\ pnewMem' = Stored(pnewMem, rx.off, n)
  BY DEF RecvBodyPart
<1> DEFINE pkg == Stored(pnewMem, rx.off, n)
<1>2. /\ pkg \in Seq(Byte \cup {Junk}) /\ Len(pkg) = Len(pnewMem)
      /\ rx.off + n <= Len(pkg)
      /\ \A i \in 1 .. rx.off + n : pkg[i] = stream[pos - rx.off + i]
  BY <1>1, BodyStored
<1>3. pnewMem' = pkg
  BY <1>1
<1> HIDE DEF pkg
<1>4. /\ rx.buf = "pnewMem" /\ rx.off \in Nat /\ rx.irecvlen \in Nat /\ pos \in Nat
      /\ n \in Nat \ {0} /\ n <= rx.irecvlen /\ rx.off <= pos /\ HdrLen <= rx.off
      /\ rx.off + rx.irecvlen = Len(pnewMem)
      /\ Len(pnewMem) = Abstract!PkgLenAt(stream, pos - rx.off)
      /\ HdrLen < Len(pnewMem) /\ Len(pnewMem) <= MaxPkgLen
      /\ open = TRUE /\ pos' = pos + n /\ pos + n <= Len(stream)
      /\ stream' = stream /\ open' = open
      /\ stream \in Streams /\ stream \in Seq(Byte) /\ out \in Seq(Seq(Byte \cup {Junk}))
      /\ dataHeadInfo \in [1 .. HdrLen -> Byte]
  BY <1>1, BodyFacts
<1>5. n # rx.irecvlen
  BY <1>1 DEF RecvBodyPart, BodyDone
<1>6. /\ rx' = [curStat |-> "BD_RECVING", irecvlen |-> rx.irecvlen - n,
                buf |-> "pnewMem", off |-> rx.off + n]
      /\ dataHeadInfo' = dataHeadInfo /\ out' = out
  BY <1>1, <1>4 DEF RecvBodyPart, RxPartial, HeadStats, BodyStats
<1>7. rx' \in Rx
  BY <1>4, <1>5, <1>6 DEF Rx, BodyStats
<1>8. TypeOK'
  BY <1>2, <1>3, <1>4, <1>6, <1>7, SMTT(30) DEF TypeOK
<1>9. FitsBuffer'
  BY <1>2, <1>3, <1>4, <1>5, <1>6, SMTT(30) DEF FitsBuffer
<1>10. pos' - rx'.off = pos - rx.off /\ rx'.off = rx.off + n /\ rx'.off <= pos'
  BY <1>4, <1>6
<1>11. Collected'
  BY <1>2, <1>3, <1>4, <1>6, <1>10 DEF Collected
<1>12. Shape'
  <2>1. Len(pnewMem') = Abstract!PkgLenAt(stream', pos' - rx'.off)
    BY <1>2, <1>3, <1>4, <1>10
  <2>2. HdrLen <= rx'.off
    BY <1>4, <1>6, PkgAssumption
  <2> QED BY <2>1, <2>2, <1>2, <1>3, <1>4, <1>6 DEF Shape, HeadStats, BodyStats
<1> QED BY <1>8, <1>9, <1>11, <1>12 DEF IInv

(* A completed body (wait_request_handler_proc_plast) preserves it.        *)
LEMMA BodyInv ==
  ASSUME IInv, NEW n \in 1 .. MaxPkgLen, RecvBody(n)
  PROVE  IInv'
<1>1. Recv(n) /\ rx.curStat \in BodyStats
  BY DEF RecvBody, BodyDone
<1> DEFINE pkg == Stored(pnewMem, rx.off, n)
<1>2. pkg \in Seq(Byte \cup {Junk})
  BY <1>1, BodyStored
<1>3. out \in Seq(Seq(Byte \cup {Junk})) /\ dataHeadInfo \in [1 .. HdrLen -> Byte]
  BY DEF IInv, TypeOK
<1>4. /\ out' = Append(out, pkg) /\ rx' = RxStart /\ pnewMem' = << >>
      /\ dataHeadInfo' = dataHeadInfo
  BY DEF RecvBody
<1> HIDE DEF pkg
<1>5. out' \in Seq(Seq(Byte \cup {Junk})) /\ pnewMem' \in Seq(Byte \cup {Junk})
  BY <1>2, <1>3, <1>4
<1> QED BY <1>1, <1>3, <1>4, <1>5, BoundaryInv

(* close_connection preserves it.                                          *)
LEMMA EndInv == IInv /\ RecvEnd => IInv'
<1> SUFFICES ASSUME IInv, RecvEnd PROVE IInv'
  OBVIOUS
<1>1. open' = FALSE /\ pnewMem' = << >> /\ UNCHANGED <<stream, pos, rx, dataHeadInfo, out>>
  BY DEF RecvEnd
<1>2. TypeOK'
  <2>1. /\ stream \in Streams /\ pos \in 0 .. Len(stream) /\ rx \in Rx
        /\ dataHeadInfo \in [1 .. HdrLen -> Byte] /\ out \in Seq(Seq(Byte \cup {Junk}))
    BY DEF IInv, TypeOK
  <2>2. pnewMem' \in Seq(Byte \cup {Junk})
    BY <1>1
  <2> QED BY <1>1, <2>1, <2>2 DEF TypeOK
<1> QED BY <1>1, <1>2 DEF IInv, FitsBuffer, Collected, Shape

(* IInv is inductive.                                                      *)
LEMMA StepInv == IInv /\ [Next]_vars => IInv'
<1> SUFFICES ASSUME IInv, [Next]_vars PROVE IInv'
  OBVIOUS
<1>1. ASSUME NEW n \in 1 .. MaxPkgLen, RecvHeaderPart(n) PROVE IInv'
  BY <1>1, HeaderPartInv
<1>2. ASSUME NEW n \in 1 .. MaxPkgLen, RecvHeader(n) PROVE IInv'
  BY <1>2, HeaderInv
<1>3. ASSUME NEW n \in 1 .. MaxPkgLen, RecvBodyPart(n) PROVE IInv'
  BY <1>3, BodyPartInv
<1>4. ASSUME NEW n \in 1 .. MaxPkgLen, RecvBody(n) PROVE IInv'
  BY <1>4, BodyInv
<1>5. CASE RecvEnd
  BY <1>5, EndInv
<1>6. CASE UNCHANGED vars
  BY <1>6 DEF vars, IInv, TypeOK, FitsBuffer, Collected, Shape
<1> QED BY <1>1, <1>2, <1>3, <1>4, <1>5, <1>6 DEF Next, RecvSome

(* The variables keep their types; in particular irecvlen never becomes    *)
(* negative and dataHeadInfo keeps its length.                             *)
THEOREM TypeCorrect == Spec => []TypeOK
<1>1. IInv => TypeOK
  BY DEF IInv
<1> QED BY InitInv, StepInv, <1>1, PTL DEF Spec

(* recv never runs over the end of dataHeadInfo or of the allocated buffer,*)
(* and never asks for 0 bytes.                                             *)
THEOREM FitsBufferHolds == Spec => []FitsBuffer
<1>1. IInv => FitsBuffer
  BY DEF IInv
<1> QED BY InitInv, StepInv, <1>1, PTL DEF Spec

(* What has been received of a package is stored in place, whatever the    *)
(* pieces it came in.                                                      *)
THEOREM CollectedHolds == Spec => []Collected
<1>1. IInv => Collected
  BY DEF IInv
<1> QED BY InitInv, StepInv, <1>1, PTL DEF Spec

-----------------------------------------------------------------------------
(* A buffer that holds len bytes of the stream, in place, is that part of  *)
(* the stream.                                                             *)
LEMMA InPlaceIsSubSeq ==
  ASSUME stream \in Seq(Byte), NEW start \in Nat,
         NEW pkg \in Seq(Byte \cup {Junk}), start + Len(pkg) <= Len(stream),
         \A i \in 1 .. Len(pkg) : pkg[i] = stream[start + i]
  PROVE  pkg = SubSeq(stream, start + 1, start + Len(pkg))
<1> DEFINE part == SubSeq(stream, start + 1, start + Len(pkg))
<1>1. Len(pkg) \in Nat /\ Len(stream) \in Nat /\ start + 1 \in 1 .. Len(stream) + 1
  OBVIOUS
<1>2. part \in Seq(Byte) /\ Len(part) = Len(pkg)
  BY <1>1
<1>3. \A i \in 1 .. Len(pkg) : part[i] = stream[start + i]
  BY <1>1
<1> HIDE DEF part
<1>4. pkg = part
  BY <1>2, <1>3
<1> QED BY <1>4 DEF part

(* A completed header is a skipped header, a whole package, or nothing yet.*)
LEMMA HeaderSimulates ==
  ASSUME IInv, NEW n \in 1 .. MaxPkgLen, RecvHeader(n)
  PROVE  [Abstract!Next]_(Abstract!vars)
<1> DEFINE e_pkgLen == Abstract!PkgLenAt(dataHeadInfo', 0)
           start == pos - rx.off
<1>1. /\ pos' = start + HdrLen /\ start \in Nat /\ HdrLen \in Nat
      /\ dataHeadInfo' \in [1 .. HdrLen -> Byte]
      /\ \A i \in 1 .. HdrLen : dataHeadInfo'[i] = stream[start + i]
      /\ e_pkgLen = Abstract!PkgLenAt(stream, start) /\ e_pkgLen \in Nat
  BY HeaderComplete, PkgAssumption
<1>2. /\ open = TRUE /\ pos' <= Len(stream) /\ stream' = stream /\ open' = open
      /\ stream \in Seq(Byte)
  BY ReceiverAssumption DEF IInv, TypeOK, RecvHeader, Recv
<1>3. CASE BadLen(e_pkgLen) /\ rx' = RxStart /\ UNCHANGED <<pnewMem, out>>
  <2>1. pos' - rx'.off = start + HdrLen
    BY <1>1, <1>3 DEF RxStart
  <2>2. Abstract!SkipHeader
    BY <1>1, <1>2, <1>3, <2>1 DEF Abstract!SkipHeader, Abstract!BadLen, BadLen
  <2> QED BY <2>2 DEF Abstract!Next
<1>4. CASE /\ e_pkgLen = HdrLen
           /\ out' = Append(out, NewBuffer(dataHeadInfo', e_pkgLen))
           /\ rx' = RxStart /\ UNCHANGED pnewMem
  <2> DEFINE pkg == NewBuffer(dataHeadInfo', HdrLen)
  <2>1. /\ pkg \in Seq(Byte \cup {Junk}) /\ Len(pkg) = HdrLen
        /\ \A i \in 1 .. HdrLen : pkg[i] = dataHeadInfo'[i]
    <3>1. \A head \in [1 .. HdrLen -> Byte \cup {Junk}] :
            /\ NewBuffer(head, HdrLen) \in Seq(Byte \cup {Junk})
            /\ Len(NewBuffer(head, HdrLen)) = HdrLen
            /\ \A i \in 1 .. HdrLen : i <= HdrLen => NewBuffer(head, HdrLen)[i] = head[i]
      BY <1>1, NewBufferType
    <3>2. dataHeadInfo' \in [1 .. HdrLen -> Byte \cup {Junk}]
      BY <1>1
    <3> QED BY <3>1, <3>2
  <2> HIDE DEF pkg
  <2>2. pkg = SubSeq(stream, start + 1, start + HdrLen)
    BY <1>1, <1>2, <2>1, InPlaceIsSubSeq
  <2>3. out' = Append(out, SubSeq(stream, start + 1, start + HdrLen))
    BY <1>4, <2>2 DEF pkg
  <2>4. pos' - rx'.off = start + HdrLen
    BY <1>1, <1>4 DEF RxStart
  <2>5. Abstract!PkgLenAt(stream, start) = HdrLen /\ ~ BadLen(HdrLen)
    BY <1>1, <1>4, PkgAssumption DEF BadLen
  <2>6. Abstract!Deliver
    BY <1>1, <1>2, <2>3, <2>4, <2>5 DEF Abstract!Deliver, Abstract!BadLen, BadLen
  <2> QED BY <2>6 DEF Abstract!Next
<1>5. CASE rx' = RxBody(e_pkgLen) /\ UNCHANGED out
  <2>1. pos' - rx'.off = start
    BY <1>1, <1>5 DEF RxBody
  <2> QED BY <1>2, <1>5, <2>1 DEF Abstract!vars
<1> QED BY <1>3, <1>4, <1>5 DEF RecvHeader

(* A completed body is a whole package.                                    *)
LEMMA BodySimulates ==
  ASSUME IInv, NEW n \in 1 .. MaxPkgLen, RecvBody(n)
  PROVE  Abstract!Deliver
<1>1. Recv(n) /\ rx.curStat \in BodyStats /\ n = rx.irecvlen
  BY DEF RecvBody, BodyDone
<1> DEFINE pkg == Stored(pnewMem, rx.off, n)
           start == pos - rx.off
<1>2. /\ pkg \in Seq(Byte \cup {Junk}) /\ Len(pkg) = Len(pnewMem)
      /\ \A i \in 1 .. rx.off + n : pkg[i] = stream[start + i]
  BY <1>1, BodyStored
<1>3. /\ out' = Append(out, pkg) /\ rx' = RxStart
  BY DEF RecvBody
<1> HIDE DEF pkg
<1>4. /\ rx.off \in Nat /\ pos \in Nat /\ n \in Nat /\ rx.off <= pos
      /\ rx.off + n = Len(pnewMem)
      /\ Len(pnewMem) = Abstract!PkgLenAt(stream, start)
      /\ HdrLen < Len(pnewMem) /\ Len(pnewMem) <= MaxPkgLen /\ HdrLen \in Nat
      /\ open = TRUE /\ pos' = pos + n /\ pos + n <= Len(stream)
      /\ stream' = stream /\ open' = open /\ stream \in Seq(Byte)
  BY <1>1, BodyFacts, PkgAssumption
<1>5. start \in Nat /\ start + Len(pkg) = pos + n
  BY <1>2, <1>4
<1>6. pkg = SubSeq(stream, start + 1, start + Len(pkg))
  <2>1. \A i \in 1 .. Len(pkg) : pkg[i] = stream[start + i]
    BY <1>2, <1>4
  <2> HIDE DEF start
  <2> QED BY <1>2, <1>4, <1>5, <2>1, InPlaceIsSubSeq
<1>7. pos' - rx'.off = start + Len(pkg)
  BY <1>3, <1>4, <1>5 DEF RxStart
<1>8. ~ BadLen(Len(pkg)) /\ start + HdrLen <= Len(stream) /\ start + Len(pkg) <= Len(stream)
  BY <1>2, <1>4, <1>5, PkgAssumption DEF BadLen
<1> QED
  BY <1>2, <1>3, <1>4, <1>6, <1>7, <1>8, SMTT(30)
     DEF Abstract!Deliver, Abstract!BadLen, BadLen

(* Every step of the receive path is a step of PkgStream or leaves it as   *)
(* it is.                                                                  *)
LEMMA StepSimulates == IInv /\ [Next]_vars => [Abstract!Next]_(Abstract!vars)
<1> SUFFICES ASSUME IInv, [Next]_vars PROVE [Abstract!Next]_(Abstract!vars)
  OBVIOUS
<1>1. ASSUME NEW n \in 1 .. MaxPkgLen, RecvHeaderPart(n) \/ RecvBodyPart(n)
      PROVE  UNCHANGED Abstract!vars
  <2>1. /\ pos' = pos + n /\ rx'.off = rx.off + n /\ out' = out
        /\ stream' = stream /\ open' = open
    BY <1>1 DEF RecvHeaderPart, RecvBodyPart, Recv, RxPartial
  <2>2. pos \in Nat /\ rx.off \in Nat /\ n \in Nat
    BY ReceiverAssumption DEF IInv, TypeOK, Rx
  <2>3. pos' - rx'.off = pos - rx.off
    BY <2>1, <2>2
  <2> QED BY <2>1, <2>3 DEF Abstract!vars
<1>2. ASSUME NEW n \in 1 .. MaxPkgLen, RecvHeader(n)
      PROVE  [Abstract!Next]_(Abstract!vars)
  BY <1>2, HeaderSimulates
<1>3. ASSUME NEW n \in 1 .. MaxPkgLen, RecvBody(n)
      PROVE  Abstract!Next
  BY <1>3, BodySimulates DEF Abstract!Next
<1>4. CASE RecvEnd
  BY <1>4 DEF RecvEnd, Abstract!Next, Abstract!Close
<1>5. CASE UNCHANGED vars
  BY <1>5 DEF vars, Abstract!vars
<1> QED BY <1>1, <1>2, <1>3, <1>4, <1>5 DEF Next, RecvSome

(* The receive path implements PkgStream: the packages that reach          *)
(* m_MsgRecvQueue depend on the bytes alone, not on how they are split.    *)
THEOREM Refinement == Spec => ImplementsPkgStream
<1>1. Init => Abstract!Init
  BY DEF Init, Abstract!Init, RxStart
<1> QED BY <1>1, InitInv, StepInv, StepSimulates, PTL
        DEF Spec, ImplementsPkgStream, Abstract!Spec
=============================================================================
