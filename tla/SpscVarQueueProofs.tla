------------------------- MODULE SpscVarQueueProofs -------------------------
(***************************************************************************)
(* For rings of any number of blocks and messages of any length: alloc,    *)
(* push, front and pop stay inside the ring, and implement LogFifo.        *)
(***************************************************************************)
EXTENDS SpscVarQueue, TLAPS, WellFoundedInduction

-----------------------------------------------------------------------------
(* The inductive invariant                                                 *)

(* Where the messages that were pushed end.                                *)
end == IF ppc \in {"fill", "push"} THEN ret ELSE write_idx

(* A message with its header takes so many bytes.                          *)
MsgBytes == {sz + HdrSz : sz \in Sizes}

(* From block i to block j there is one message behind the other; starts   *)
(* are the blocks they start at, and j.                                    *)
Line(starts, i, j, sz) ==
  /\ i \in starts /\ j \in starts /\ starts \subseteq i .. j
  /\ \A s \in starts \ {j} :
       /\ sz[s] \in MsgBytes
       /\ s + BlkSz(sz[s]) \in starts
       /\ \A t \in starts : t <= s \/ s + BlkSz(sz[s]) <= t

(* The unread messages: in one piece, or in two with a mark between them.  *)
OnePiece(starts) == Line(starts, read_idx, end, size)

TwoPieces(starts0, starts1, e) ==
  /\ Line(starts0, 0, end, size)
  /\ Line(starts1, read_idx, e, size)
  /\ size[e] = 1

Ring ==
  /\ size[end] = 0
  /\ read_idx <= write_idx => \E starts \in SUBSET Blk : OnePiece(starts)
  /\ read_idx > write_idx =>
       \E starts0 \in SUBSET Blk, starts1 \in SUBSET Blk, e \in Blk :
         TwoPieces(starts0, starts1, e)

(* What is counted as free is free, even if the count is old.              *)
Free ==
  /\ write_idx + free_write_cnt <= BLK_CNT
  /\ read_idx > write_idx => write_idx + free_write_cnt <= read_idx

(* What alloc and log know between their steps.                            *)
Allocating ==
  /\ ppc # "idle" => bytes \in MsgBytes
  /\ ppc = "reserve" => blk_sz < free_write_cnt
  /\ ppc \in {"wrap", "mark"} =>
       /\ 0 < read_idx_cache /\ read_idx_cache <= read_idx
       /\ read_idx <= write_idx
  /\ ppc = "mark" => size[0] = 0
  /\ ppc \in {"fill", "push"} => write_idx = ret + blk_sz /\ size[write_idx] = 0
  /\ ppc = "push" => \A i \in Blk : ret <= i /\ i < ret + blk_sz => data[i] = id

(* What front and handleLog know between their steps.                      *)
Polling ==
  /\ cpc = "first" => read_idx = 0
  /\ cpc \in {"handle", "pop"} => header = read_idx /\ size[read_idx] \notin {0, 1}

IInv == TypeOK /\ Ring /\ Free /\ Allocating /\ Polling

-----------------------------------------------------------------------------
(* Lemmas about sizes and lines                                            *)

(* A message takes two blocks at least.                                    *)
LEMMA MsgSize ==
  ASSUME NEW b \in MsgBytes
  PROVE  b \in Nat /\ b >= 16 /\ BlkSz(b) \in Nat /\ BlkSz(b) >= 2
BY QueueAssumption DEF MsgBytes, BlkSz, HdrSz

(* BlkSz of any number of bytes.                                           *)
LEMMA BlkSzType == \A b \in Nat : BlkSz(b) \in Nat
BY DEF BlkSz, HdrSz

(* A line of no message.                                                   *)
LEMMA LinePoint == ASSUME NEW i \in Nat, NEW sz PROVE Line({i}, i, i, sz)
BY DEF Line

(* The line depends on the sizes of its messages alone.                    *)
LEMMA LineSame ==
  ASSUME NEW S \in SUBSET Nat, NEW i, NEW j, NEW sz, NEW sz2, Line(S, i, j, sz),
         \A s \in S \ {j} : sz2[s] = sz[s]
  PROVE  Line(S, i, j, sz2)
BY DEF Line

(* The line without its first message.                                     *)
LEMMA LineRest ==
  ASSUME NEW i \in Nat, NEW j \in Nat, i # j, NEW S, NEW sz, Line(S, i, j, sz)
  PROVE  /\ sz[i] \in MsgBytes /\ i < i + BlkSz(sz[i]) /\ i + BlkSz(sz[i]) <= j
         /\ Line(S \ {i}, i + BlkSz(sz[i]), j, sz)
<1> DEFINE n == i + BlkSz(sz[i])
<1>1. sz[i] \in MsgBytes /\ n \in S /\ S \subseteq i .. j /\ j \in S
      /\ \A t \in S : t <= i \/ n <= t
  BY DEF Line
<1>2. BlkSz(sz[i]) \in Nat /\ BlkSz(sz[i]) >= 2
  BY <1>1, MsgSize
<1> HIDE DEF n
<1>3. n \in Nat /\ i < n /\ n <= j
  BY <1>1, <1>2 DEF n
<1>4. S \ {i} \subseteq n .. j
  BY <1>1, <1>3
<1>5. ASSUME NEW s \in (S \ {i}) \ {j}
      PROVE  /\ sz[s] \in MsgBytes
             /\ s + BlkSz(sz[s]) \in S \ {i}
             /\ \A t \in S \ {i} : t <= s \/ s + BlkSz(sz[s]) <= t
  <2>1. /\ sz[s] \in MsgBytes /\ s + BlkSz(sz[s]) \in S
        /\ \A t \in S : t <= s \/ s + BlkSz(sz[s]) <= t
    BY <1>5 DEF Line
  <2>2. BlkSz(sz[s]) \in Nat /\ s \in Nat /\ s > i
    BY <2>1, <1>3, <1>4, <1>5, MsgSize
  <2>3. s + BlkSz(sz[s]) # i
    BY <2>2
  <2> QED BY <2>1, <2>3
<1>6. n \in S \ {i} /\ j \in S \ {i}
  BY <1>1, <1>3
<1>7. Line(S \ {i}, n, j, sz)
  BY <1>4, <1>5, <1>6 DEF Line
<1> QED BY <1>1, <1>3, <1>7 DEF n

(* The line with a message behind its last.                                *)
LEMMA LineMore ==
  ASSUME NEW i \in Nat, NEW j \in Nat, NEW S, NEW sz, NEW sz2, Line(S, i, j, sz),
         \A s \in S \ {j} : sz2[s] = sz[s], sz2[j] \in MsgBytes
  PROVE  Line(S \cup {j + BlkSz(sz2[j])}, i, j + BlkSz(sz2[j]), sz2)
<1> DEFINE n == j + BlkSz(sz2[j])
<1>1. BlkSz(sz2[j]) \in Nat /\ BlkSz(sz2[j]) >= 2 /\ n \in Nat /\ n > j
  BY MsgSize
<1>2. S \subseteq i .. j /\ i \in S /\ j \in S
  BY DEF Line
<1>3. n \notin S /\ i <= j
  BY <1>1, <1>2
<1>4. S \cup {n} \subseteq i .. n
  <2> HIDE DEF n
  <2> QED BY <1>1, <1>2, <1>3
<1>5. ASSUME NEW s \in (S \cup {n}) \ {n}
      PROVE  /\ sz2[s] \in MsgBytes
             /\ s + BlkSz(sz2[s]) \in S \cup {n}
             /\ \A t \in S \cup {n} : t <= s \/ s + BlkSz(sz2[s]) <= t
  <2>1. CASE s = j
    BY <2>1, <1>1, <1>2
  <2>2. CASE s # j
    <3>1. /\ sz2[s] \in MsgBytes /\ s + BlkSz(sz2[s]) \in S
          /\ \A t \in S : t <= s \/ s + BlkSz(sz2[s]) <= t
      BY <1>5, <2>2 DEF Line
    <3>2. s + BlkSz(sz2[s]) <= n
      <4> HIDE DEF n
      <4>1. s + BlkSz(sz2[s]) \in i .. j
        BY <3>1, <1>2
      <4> QED BY <4>1, <1>1
    <3> QED BY <3>1, <3>2
  <2> QED BY <2>1, <2>2
<1> HIDE DEF n
<1>6. Line(S \cup {n}, i, n, sz2)
  BY <1>2, <1>4, <1>5 DEF Line
<1> QED BY <1>6 DEF n

-----------------------------------------------------------------------------
(* What the invariant says of the block front looks at                     *)

(* A message lies in one piece, and a mark means that the writer is behind *)
(* the reader.                                                             *)
LEMMA AtHead ==
  ASSUME IInv
  PROVE  /\ size[read_idx] \notin {0, 1} =>
              /\ read_idx # end /\ size[read_idx] \in MsgBytes
              /\ read_idx + BlkSz(size[read_idx]) \in Blk
              /\ read_idx <= write_idx => read_idx + BlkSz(size[read_idx]) <= end
         /\ size[read_idx] = 1 => read_idx > write_idx
         /\ end \in Blk /\ end <= write_idx
<1>1. /\ read_idx \in Blk /\ write_idx \in Blk /\ ret \in Blk /\ end \in Blk
      /\ end <= write_idx /\ BLK_CNT \in Nat
  <2>1. ppc \in {"fill", "push"} => bytes \in MsgBytes /\ write_idx = ret + blk_sz
    BY DEF IInv, Allocating
  <2>2. ppc \in {"fill", "push"} => blk_sz \in Nat
    BY <2>1, MsgSize DEF blk_sz
  <2>3. read_idx \in Blk /\ write_idx \in Blk /\ ret \in Blk /\ BLK_CNT \in Nat
    BY QueueAssumption DEF IInv, TypeOK
  <2> QED BY <2>1, <2>2, <2>3 DEF end, Blk
<1>2. CASE read_idx <= write_idx
  <2>1. PICK starts \in SUBSET Blk : OnePiece(starts)
    BY <1>2 DEF IInv, Ring
  <2>2. CASE read_idx = end
    BY <2>2, <1>1, <1>2 DEF IInv, Ring
  <2>3. CASE read_idx # end
    <3>1. /\ size[read_idx] \in MsgBytes
          /\ read_idx < read_idx + BlkSz(size[read_idx])
          /\ read_idx + BlkSz(size[read_idx]) <= end
      <4>1. Line(starts, read_idx, end, size)
        BY <2>1 DEF OnePiece
      <4>2. read_idx \in Nat /\ end \in Nat
        BY <1>1 DEF Blk
      <4> QED BY <4>1, <4>2, <2>3, LineRest
    <3>2. BlkSz(size[read_idx]) \in Nat /\ size[read_idx] >= 16
      BY <3>1, MsgSize
    <3> QED BY <3>1, <3>2, <1>1, <2>3 DEF Blk
  <2> QED BY <2>2, <2>3
<1>3. CASE read_idx > write_idx
  <2>1. PICK starts0 \in SUBSET Blk, starts1 \in SUBSET Blk, e \in Blk :
          TwoPieces(starts0, starts1, e)
    BY <1>3 DEF IInv, Ring
  <2>2. read_idx # end /\ ~ read_idx <= write_idx
    BY <1>1, <1>3 DEF Blk
  <2>3. CASE read_idx = e
    BY <2>1, <2>2, <2>3, <1>1, <1>3 DEF TwoPieces
  <2>4. CASE read_idx # e
    <3>1. /\ size[read_idx] \in MsgBytes
          /\ read_idx < read_idx + BlkSz(size[read_idx])
          /\ read_idx + BlkSz(size[read_idx]) <= e
      <4>1. Line(starts1, read_idx, e, size)
        BY <2>1 DEF TwoPieces
      <4>2. read_idx \in Nat /\ e \in Nat
        BY <1>1 DEF Blk
      <4> QED BY <4>1, <4>2, <2>4, LineRest
    <3>2. BlkSz(size[read_idx]) \in Nat
      BY <3>1, MsgSize
    <3> QED BY <3>1, <3>2, <1>1, <1>3, <2>2 DEF Blk
  <2> QED BY <2>3, <2>4
<1> QED BY <1>1, <1>2, <1>3 DEF Blk

(* The numbers of the state.                                               *)
LEMMA Numbers ==
  ASSUME IInv
  PROVE  /\ BLK_CNT \in Nat /\ BLK_CNT > 0 /\ 0 \in Blk
         /\ write_idx \in Blk /\ read_idx \in Blk /\ ret \in Blk /\ read_idx_cache \in Blk
         /\ \A i \in Blk : i \in Nat /\ i < BLK_CNT
         /\ \A i \in Nat : i < BLK_CNT => i \in Blk
         /\ free_write_cnt \in Nat
         /\ ppc # "idle" => bytes \in MsgBytes /\ bytes \in Nat /\ blk_sz \in Nat /\ blk_sz >= 2
         /\ \A i \in Blk : size[i] \in Nat
<1>1. BLK_CNT \in Nat /\ BLK_CNT > 0
  BY QueueAssumption
<1>2. ppc # "idle" => bytes \in MsgBytes /\ bytes \in Nat /\ blk_sz \in Nat /\ blk_sz >= 2
  BY MsgSize DEF IInv, Allocating, blk_sz
<1> QED BY <1>1, <1>2 DEF IInv, TypeOK, Blk

(* A function on the first numbers is a sequence.                          *)
LEMMA FunctionIsSeq ==
  ASSUME NEW T, NEW n \in Nat, NEW f \in [1 .. n -> T]
  PROVE  f \in Seq(T) /\ Len(f) = n /\ DOMAIN f = 1 .. n
OBVIOUS

(* A message handled is one of the values a message may have.              *)
LEMMA MessageType ==
  ASSUME IInv, NEW i \in Blk, NEW b \in MsgBytes, i + BlkSz(b) \in Blk
  PROVE  MessageAt(i, b) \in Seq(0 .. Ids)
<1>1. BlkSz(b) \in Nat
  BY MsgSize
<1>2. \A k \in 1 .. BlkSz(b) : i + k - 1 \in Blk
  BY <1>1, Numbers
<1>3. MessageAt(i, b) \in [1 .. BlkSz(b) -> 0 .. Ids]
  BY <1>2 DEF MessageAt, IInv, TypeOK
<1> QED BY <1>1, <1>3, FunctionIsSeq

-----------------------------------------------------------------------------
(* The invariant is inductive                                              *)

(* The invariant holds in the beginning.                                   *)
LEMMA InitIInv == Init => IInv
<1> SUFFICES ASSUME Init PROVE IInv
  OBVIOUS
<1>1. BLK_CNT \in Nat /\ BLK_CNT > 0 /\ 0 \in Blk /\ Ids \in Nat /\ Ids > 0
  BY QueueAssumption DEF Blk
<1>2. TypeOK
  <2>1. size \in [Blk -> Nat] /\ data \in [Blk -> 0 .. Ids]
    BY <1>1 DEF Init
  <2>2. /\ write_idx \in Blk /\ free_write_cnt \in 0 .. BLK_CNT /\ read_idx \in Blk
        /\ id \in 0 .. Ids - 1 /\ bytes \in Nat /\ read_idx_cache \in Blk /\ ret \in Blk
        /\ header \in Blk /\ got \in Seq(0 .. Ids)
    BY <1>1 DEF Init
  <2> QED BY <2>1, <2>2 DEF Init, TypeOK
<1>3. Ring
  <2>1. end = 0 /\ read_idx = 0 /\ write_idx = 0 /\ size[end] = 0
    BY <1>1 DEF Init, end
  <2>2. Line({0}, 0, 0, size)
    BY LinePoint
  <2>3. {0} \in SUBSET Blk
    BY <1>1
  <2>4. \E starts \in SUBSET Blk : OnePiece(starts)
    BY <2>1, <2>2, <2>3 DEF OnePiece
  <2> QED BY <2>1, <2>4 DEF Ring
<1>4. Free /\ Allocating /\ Polling
  BY <1>1 DEF Init, Free, Allocating, Polling
<1> QED BY <1>2, <1>3, <1>4 DEF IInv

(* A step keeps the types.                                                 *)
LEMMA TypesStep == IInv /\ [Next]_vars => TypeOK'
<1> SUFFICES ASSUME IInv, [Next]_vars PROVE TypeOK'
  OBVIOUS
<1> USE DEF queueVars, producerVars, consumerVars
<1>0. TypeOK /\ Ids \in Nat /\ Ids > 0 /\ \A f : ReserveOrFail(f) \in {"idle", "reserve"}
  BY QueueAssumption DEF IInv, ReserveOrFail
<1>1. CASE Log
  BY <1>0, <1>1, QueueAssumption DEF Log, TypeOK, HdrSz
<1>2. CASE ReadIdx
  <2>1. free_write_cnt' \in 0 .. BLK_CNT
    BY <1>2, Numbers DEF ReadIdx
  <2> QED BY <1>0, <1>2, <2>1 DEF ReadIdx, TypeOK
<1>3. CASE WrapFirst
  BY <1>0, <1>3 DEF WrapFirst, TypeOK
<1>4. CASE WrapMark
  <2>1. free_write_cnt' \in 0 .. BLK_CNT /\ write_idx' \in Blk
    BY <1>4, Numbers DEF WrapMark
  <2> QED BY <1>0, <1>4, <2>1 DEF WrapMark, TypeOK
<1>5. CASE Reserve
  <2>1. /\ write_idx + blk_sz \in Blk /\ free_write_cnt - blk_sz \in 0 .. BLK_CNT
    BY <1>5, Numbers DEF Reserve, IInv, Free, Allocating
  <2> QED BY <1>0, <1>5, <2>1 DEF Reserve, TypeOK
<1>6. CASE Fill
  <2>1. data' \in [Blk -> 0 .. Ids]
    BY <1>0, <1>6 DEF Fill, TypeOK
  <2> QED BY <1>0, <1>6, <2>1 DEF Fill, TypeOK
<1>7. CASE Push
  <2>1. size' \in [Blk -> Nat]
    BY <1>0, <1>7 DEF Push, TypeOK
  <2>2. id' \in 0 .. Ids - 1
    BY <1>0, <1>7 DEF Push, TypeOK
  <2> QED BY <1>0, <1>7, <2>1, <2>2 DEF Push, TypeOK
<1>8. CASE Front
  BY <1>0, <1>8, Numbers DEF Front, Found, TypeOK
<1>9. CASE FrontFirst
  BY <1>0, <1>9, Numbers DEF FrontFirst, Found, TypeOK
<1>10. CASE Handle
  <2>1. got' \in Seq(0 .. Ids)
    BY <1>10, AtHead, MessageType, Numbers DEF Handle, IInv, Polling
  <2> QED BY <1>0, <1>10, <2>1 DEF Handle, TypeOK
<1>11. CASE Pop
  <2>1. read_idx' \in Blk
    BY <1>11, AtHead DEF Pop, IInv, Polling
  <2> QED BY <1>0, <1>11, <2>1 DEF Pop, TypeOK
<1>12. CASE UNCHANGED vars
  BY <1>0, <1>12 DEF vars, TypeOK
<1> QED BY <1>1, <1>2, <1>3, <1>4, <1>5, <1>6, <1>7, <1>8, <1>9, <1>10, <1>11, <1>12
        DEF Next, Producer, FinishLog, Consumer

(* pop goes from a message to the next, or to the end.                     *)
LEMMA PopGoesOn ==
  ASSUME IInv, Pop
  PROVE  /\ size[read_idx] \in MsgBytes /\ read_idx # end
         /\ read_idx' = read_idx + BlkSz(size[read_idx])
         /\ read_idx' \in Blk /\ read_idx' \in Nat /\ read_idx' >= read_idx
         /\ read_idx <= write_idx => read_idx' <= end /\ read_idx' <= write_idx
<1>1. size[read_idx] \notin {0, 1} /\ read_idx' = read_idx + BlkSz(size[read_idx])
  BY DEF Pop, IInv, Polling
<1>2. /\ size[read_idx] \in MsgBytes /\ read_idx # end
      /\ read_idx + BlkSz(size[read_idx]) \in Blk
      /\ read_idx <= write_idx => read_idx + BlkSz(size[read_idx]) <= end
      /\ end \in Blk /\ end <= write_idx
  BY <1>1, AtHead
<1>3. BlkSz(size[read_idx]) \in Nat
  BY <1>2, MsgSize
<1>4. read_idx' \in Nat /\ read_idx \in Nat /\ write_idx \in Nat /\ end \in Nat
  BY <1>1, <1>2, Numbers
<1> QED BY <1>1, <1>2, <1>3, <1>4

(* A step keeps free_write_cnt an under-estimate of the room.              *)
LEMMA FreeStep == IInv /\ [Next]_vars => Free'
<1> SUFFICES ASSUME IInv, [Next]_vars PROVE Free'
  OBVIOUS
<1> USE DEF queueVars, producerVars, consumerVars
<1>1. CASE Log \/ WrapFirst \/ Fill \/ Push \/ FrontFirst \/ Handle
  BY <1>1 DEF Log, WrapFirst, Fill, Push, FrontFirst, Handle, IInv, Free
<1>2. CASE ReadIdx
  BY <1>2, Numbers DEF ReadIdx, Free
<1>3. CASE WrapMark
  BY <1>3, Numbers DEF WrapMark, IInv, Allocating, Free
<1>4. CASE Reserve
  BY <1>4, Numbers DEF Reserve, IInv, Free
<1>5. CASE Front
  BY <1>5, Numbers DEF Front, Found, IInv, Free
<1>6. CASE Pop
  <2>1. /\ read_idx' \in Nat /\ read_idx' >= read_idx
        /\ read_idx <= write_idx => read_idx' <= write_idx
    BY <1>6, PopGoesOn
  <2>2. read_idx \in Nat /\ write_idx \in Nat /\ free_write_cnt \in Nat
    BY Numbers
  <2>3. write_idx' = write_idx /\ free_write_cnt' = free_write_cnt /\ Free
    BY <1>6 DEF Pop, IInv
  <2> QED BY <2>1, <2>2, <2>3 DEF Free
<1>7. CASE UNCHANGED vars
  BY <1>7 DEF vars, IInv, Free
<1> QED BY <1>1, <1>2, <1>3, <1>4, <1>5, <1>6, <1>7
        DEF Next, Producer, FinishLog, Consumer

(* A step keeps what the producer knows while it allocates.                *)
LEMMA AllocatingStep == IInv /\ [Next]_vars => Allocating'
<1> SUFFICES ASSUME IInv, [Next]_vars PROVE Allocating'
  OBVIOUS
<1> USE DEF queueVars, producerVars, consumerVars
<1>0. Allocating /\ size \in [Blk -> Nat]
  BY DEF IInv, TypeOK
<1>1. CASE Log
  <2>1. bytes' \in MsgBytes /\ bytes' \in Nat
    BY <1>1, QueueAssumption DEF Log, MsgBytes, HdrSz
  <2>2. BlkSz(bytes') \in Nat /\ blk_sz' = BlkSz(bytes')
    BY <2>1, MsgSize DEF blk_sz
  <2>3. /\ ppc' = IF BlkSz(bytes') >= free_write_cnt THEN "read" ELSE "reserve"
        /\ free_write_cnt' = free_write_cnt /\ free_write_cnt \in Nat
    BY <1>1, Numbers DEF Log
  <2> QED BY <2>1, <2>2, <2>3 DEF Allocating
<1>2. CASE ReadIdx
  <2>1. blk_sz' = blk_sz /\ bytes' = bytes
    BY <1>2 DEF ReadIdx, blk_sz
  <2>2. ppc' \in {"wrap", "reserve", "idle"}
    BY <1>2 DEF ReadIdx, ReserveOrFail
  <2>3. ppc' = "reserve" => blk_sz < free_write_cnt'
    BY <1>2, Numbers DEF ReadIdx, ReserveOrFail
  <2>4. ppc' = "wrap" => /\ 0 < read_idx_cache' /\ read_idx_cache' <= read_idx'
                         /\ read_idx' <= write_idx'
    BY <1>2, Numbers DEF ReadIdx, MustWrap, ReserveOrFail
  <2> QED BY <1>0, <1>2, <2>1, <2>2, <2>3, <2>4 DEF ReadIdx, Allocating
<1>3. CASE WrapFirst
  BY <1>0, <1>3, Numbers DEF WrapFirst, Allocating, blk_sz
<1>4. CASE WrapMark
  <2>1. blk_sz' = blk_sz /\ ppc' \in {"reserve", "idle"}
    BY <1>4 DEF WrapMark, ReserveOrFail, blk_sz
  <2>2. ppc' = "reserve" => blk_sz < free_write_cnt'
    BY <1>4, Numbers DEF WrapMark, ReserveOrFail
  <2> QED BY <1>0, <1>4, <2>1, <2>2 DEF WrapMark, Allocating
<1>5. CASE Reserve
  <2>1. blk_sz' = blk_sz /\ write_idx + blk_sz \in Blk
    BY <1>5, Numbers DEF Reserve, IInv, Free, Allocating, blk_sz
  <2> QED BY <1>0, <1>5, <2>1 DEF Reserve, Allocating
<1>6. CASE Fill
  <2>1. blk_sz' = blk_sz
    BY <1>6 DEF Fill, blk_sz
  <2> QED BY <1>0, <1>6, <2>1 DEF Fill, Allocating
<1>7. CASE Push
  BY <1>7 DEF Push, Allocating
<1>8. CASE Front
  <2>1. /\ ppc' = ppc /\ bytes' = bytes /\ blk_sz' = blk_sz /\ size' = size /\ data' = data
        /\ write_idx' = write_idx /\ free_write_cnt' = free_write_cnt /\ id' = id
        /\ ret' = ret /\ read_idx_cache' = read_idx_cache
    BY <1>8 DEF Front, blk_sz
  <2>2. ppc \in {"wrap", "mark"} => read_idx' = read_idx
    <3>1. ppc \in {"wrap", "mark"} => read_idx <= write_idx
      BY <1>0 DEF Allocating
    <3>2. ppc \in {"wrap", "mark"} => size[read_idx] # 1
      BY <3>1, AtHead, Numbers
    <3> QED BY <1>8, <3>2 DEF Front
  <2> QED BY <1>0, <2>1, <2>2 DEF Allocating
<1>9. CASE FrontFirst \/ Handle
  BY <1>0, <1>9 DEF FrontFirst, Handle, Allocating, blk_sz
<1>10. CASE Pop
  <2>1. /\ ppc' = ppc /\ bytes' = bytes /\ blk_sz' = blk_sz /\ size' = size /\ data' = data
        /\ write_idx' = write_idx /\ free_write_cnt' = free_write_cnt /\ id' = id
        /\ ret' = ret /\ read_idx_cache' = read_idx_cache
    BY <1>10 DEF Pop, blk_sz
  <2>2. read_idx' >= read_idx /\ (read_idx <= write_idx => read_idx' <= write_idx)
    BY <1>10, PopGoesOn
  <2>3. ppc \in {"wrap", "mark"} =>
          /\ 0 < read_idx_cache /\ read_idx_cache <= read_idx' /\ read_idx' <= write_idx
    <3>1. read_idx' \in Nat
      BY <1>10, PopGoesOn
    <3> QED BY <1>0, <2>2, <3>1, Numbers DEF Allocating
  <2> QED BY <1>0, <2>1, <2>3 DEF Allocating
<1>11. CASE UNCHANGED vars
  BY <1>0, <1>11 DEF vars, Allocating, blk_sz
<1> QED BY <1>1, <1>2, <1>3, <1>4, <1>5, <1>6, <1>7, <1>8, <1>9, <1>10, <1>11
        DEF Next, Producer, FinishLog, Consumer

(* A step keeps what the consumer knows while it polls.                    *)
LEMMA PollingStep == IInv /\ [Next]_vars => Polling'
<1> SUFFICES ASSUME IInv, [Next]_vars PROVE Polling'
  OBVIOUS
<1> USE DEF queueVars, producerVars, consumerVars
<1>0. Polling /\ size \in [Blk -> Nat]
  BY DEF IInv, TypeOK
(* A size the polling thread has seen is not written to.                   *)
<1>1. ASSUME NEW i \in Blk, i # read_idx \/ read_idx = end, NEW n,
             size' = [size EXCEPT ![i] = n],
             read_idx' = read_idx, cpc' = cpc, header' = header
      PROVE  Polling'
  <2>1. cpc \in {"handle", "pop"} => read_idx # end
    BY <1>0, AtHead DEF Polling
  <2> QED BY <1>0, <1>1, <2>1, Numbers DEF Polling
<1>2. CASE Log \/ ReadIdx \/ Fill
  BY <1>0, <1>2 DEF Log, ReadIdx, Fill, Polling
<1>3. CASE WrapFirst
  <2>1. read_idx # 0
    BY <1>3, Numbers DEF WrapFirst, IInv, Allocating
  <2> QED BY <1>1, <1>3, <2>1, Numbers DEF WrapFirst
<1>4. CASE WrapMark
  <2>1. end = write_idx
    BY <1>4 DEF WrapMark, end
  <2> QED BY <1>1, <1>4, <2>1, Numbers DEF WrapMark
<1>5. CASE Reserve
  <2>1. write_idx' \in Blk /\ write_idx' # read_idx
    BY <1>5, Numbers DEF Reserve, IInv, Free, Allocating
  <2> QED BY <1>1, <1>5, <2>1 DEF Reserve
<1>6. CASE Push
  <2>1. end = ret
    BY <1>6 DEF Push, end
  <2> QED BY <1>1, <1>6, <2>1, Numbers DEF Push
<1>7. CASE Front
  BY <1>0, <1>7 DEF Front, Found, Polling
<1>8. CASE FrontFirst
  <2>1. size[0] # 1
    BY <1>0, <1>8, AtHead, Numbers DEF FrontFirst, Polling
  <2> QED BY <1>0, <1>8, <2>1 DEF FrontFirst, Found, Polling
<1>9. CASE Handle
  BY <1>0, <1>9 DEF Handle, Polling
<1>10. CASE Pop
  BY <1>10 DEF Pop, Polling
<1>11. CASE UNCHANGED vars
  BY <1>0, <1>11 DEF vars, Polling
<1> QED BY <1>2, <1>3, <1>4, <1>5, <1>6, <1>7, <1>8, <1>9, <1>10, <1>11
        DEF Next, Producer, FinishLog, Consumer

(* Unread messages and the mark are in these blocks.                       *)
Unread(s) ==
  IF read_idx <= write_idx THEN read_idx <= s /\ s < end ELSE s < end \/ read_idx <= s

(* A step that writes the sizes of other blocks only leaves the ring.      *)
LEMMA RingKept ==
  ASSUME IInv, read_idx' = read_idx, end' = end, size'[end] = 0,
         (read_idx <= write_idx) <=> (read_idx' <= write_idx'), write_idx' \in Blk,
         \A s \in Blk : Unread(s) => size'[s] = size[s]
  PROVE  Ring'
<1>1. size'[end'] = 0
  OBVIOUS
<1>2. /\ read_idx \in Blk /\ write_idx \in Blk /\ end \in Blk
      /\ \A i \in Blk : i \in Nat
  BY Numbers, AtHead
<1>3. ASSUME read_idx' <= write_idx'
      PROVE  \E starts \in SUBSET Blk : Line(starts, read_idx', end', size')
  <2>1. PICK starts \in SUBSET Blk : Line(starts, read_idx, end, size)
    BY <1>3 DEF IInv, Ring, OnePiece
  <2>2. \A s \in starts \ {end} : size'[s] = size[s]
    <3>1. \A s \in starts : s \in Blk /\ read_idx <= s /\ s <= end
      BY <2>1 DEF Line
    <3> QED BY <3>1, <1>2, <1>3 DEF Unread
  <2>3. starts \in SUBSET Nat
    BY <1>2
  <2>4. Line(starts, read_idx, end, size')
    BY <2>1, <2>2, <2>3, LineSame
  <2> QED BY <2>4
<1>4. ASSUME read_idx' > write_idx'
      PROVE  \E starts0 \in SUBSET Blk, starts1 \in SUBSET Blk, e \in Blk :
               /\ Line(starts0, 0, end', size')
               /\ Line(starts1, read_idx', e, size')
               /\ size'[e] = 1
  <2>1. read_idx > write_idx /\ ~ read_idx <= write_idx
    BY <1>2, <1>4
  <2>2. PICK starts0 \in SUBSET Blk, starts1 \in SUBSET Blk, e \in Blk :
          /\ Line(starts0, 0, end, size) /\ Line(starts1, read_idx, e, size) /\ size[e] = 1
    BY <2>1 DEF IInv, Ring, TwoPieces
  <2>3. \A s \in starts0 \ {end} : size'[s] = size[s]
    <3>1. \A s \in starts0 : s \in Blk /\ s <= end
      BY <2>2 DEF Line
    <3> QED BY <3>1, <1>2, <2>1 DEF Unread
  <2>4. /\ \A s \in starts1 : size'[s] = size[s]
        /\ e \in starts1
    <3>1. \A s \in starts1 : s \in Blk /\ read_idx <= s
      BY <2>2 DEF Line
    <3> QED BY <3>1, <2>1, <2>2 DEF Unread, Line
  <2>5. starts0 \in SUBSET Nat /\ starts1 \in SUBSET Nat
    BY <1>2
  <2>6. Line(starts0, 0, end, size')
    BY <2>2, <2>3, <2>5, LineSame
  <2>7. Line(starts1, read_idx, e, size')
    BY <2>2, <2>4, <2>5, LineSame
  <2> QED BY <2>2, <2>4, <2>6, <2>7
<1> QED BY <1>1, <1>3, <1>4 DEF Ring, OnePiece, TwoPieces

(* The mark ends one piece; the other begins at block 0.                   *)
LEMMA RingMarked == ASSUME IInv, WrapMark PROVE Ring'
<1>1. /\ 0 < read_idx /\ read_idx <= write_idx /\ size[0] = 0 /\ end = write_idx
      /\ write_idx \in Blk /\ 0 \in Blk /\ write_idx # 0 /\ read_idx \in Nat
      /\ \A i \in Blk : i \in Nat
  BY Numbers DEF WrapMark, IInv, Allocating, end
<1>2. /\ end' = 0 /\ write_idx' = 0 /\ read_idx' = read_idx
      /\ size' = [size EXCEPT ![write_idx] = 1] /\ size \in [Blk -> Nat]
  BY DEF WrapMark, end, ReserveOrFail, IInv, TypeOK
<1>3. /\ size'[0] = 0 /\ size'[write_idx] = 1
      /\ \A s \in Blk : s # write_idx => size'[s] = size[s]
  BY <1>1, <1>2
<1>4. PICK starts \in SUBSET Blk : Line(starts, read_idx, write_idx, size)
  BY <1>1 DEF IInv, Ring, OnePiece
<1>5. Line(starts, read_idx, write_idx, size')
  BY <1>1, <1>3, <1>4, LineSame
<1>6. Line({0}, 0, 0, size') /\ {0} \in SUBSET Blk
  BY <1>1, LinePoint
<1>7. \E starts0 \in SUBSET Blk, starts1 \in SUBSET Blk, e \in Blk :
        /\ Line(starts0, 0, 0, size') /\ Line(starts1, read_idx, e, size') /\ size'[e] = 1
  BY <1>1, <1>3, <1>5, <1>6
<1>8. ~ read_idx' <= write_idx'
  BY <1>1, <1>2
<1> QED BY <1>2, <1>3, <1>7, <1>8 DEF Ring, TwoPieces

(* push puts a message behind the others.                                  *)
LEMMA RingPushed == ASSUME IInv, Push PROVE Ring'
<1>1. /\ end = ret /\ write_idx = ret + blk_sz /\ size[write_idx] = 0
      /\ ret \in Blk /\ write_idx \in Blk /\ read_idx \in Blk /\ ret # write_idx
      /\ bytes \in MsgBytes /\ blk_sz = BlkSz(bytes) /\ ret < write_idx
      /\ \A i \in Blk : i \in Nat
  BY Numbers DEF Push, IInv, Allocating, end, blk_sz
<1>2. /\ end' = write_idx /\ write_idx' = write_idx /\ read_idx' = read_idx
      /\ size' = [size EXCEPT ![ret] = bytes] /\ size \in [Blk -> Nat]
  BY DEF Push, end, IInv, TypeOK
<1>3. /\ size'[end'] = 0 /\ size'[ret] = bytes
      /\ \A s \in Blk : s # ret => size'[s] = size[s]
  BY <1>1, <1>2
<1>4. ASSUME NEW i \in Nat, NEW starts \in SUBSET Blk, Line(starts, i, ret, size)
      PROVE  Line(starts \cup {write_idx}, i, write_idx, size')
  <2>1. \A s \in starts \ {ret} : size'[s] = size[s]
    BY <1>3
  <2> QED BY <1>1, <1>3, <1>4, <2>1, LineMore
<1>5. ASSUME read_idx <= write_idx
      PROVE  \E starts \in SUBSET Blk : Line(starts, read_idx, write_idx, size')
  <2>1. PICK starts \in SUBSET Blk : Line(starts, read_idx, ret, size)
    BY <1>1, <1>5 DEF IInv, Ring, OnePiece
  <2> QED BY <1>1, <1>4, <2>1
<1>6. ASSUME read_idx > write_idx
      PROVE  \E starts0 \in SUBSET Blk, starts1 \in SUBSET Blk, e \in Blk :
               /\ Line(starts0, 0, write_idx, size')
               /\ Line(starts1, read_idx, e, size')
               /\ size'[e] = 1
  <2>1. PICK starts0 \in SUBSET Blk, starts1 \in SUBSET Blk, e \in Blk :
          /\ Line(starts0, 0, ret, size) /\ Line(starts1, read_idx, e, size) /\ size[e] = 1
    BY <1>1, <1>6 DEF IInv, Ring, TwoPieces
  <2>2. \A s \in starts1 : s # ret
    BY <1>1, <1>6, <2>1 DEF Line
  <2>3. e \in starts1 /\ starts1 \in SUBSET Nat
    BY <1>1, <2>1 DEF Line
  <2>4. Line(starts1, read_idx, e, size') /\ size'[e] = 1
    BY <1>3, <2>1, <2>2, <2>3, LineSame
  <2>5. Line(starts0 \cup {write_idx}, 0, write_idx, size')
    BY <1>4, <2>1
  <2> QED BY <1>1, <2>4, <2>5
<1> QED BY <1>2, <1>3, <1>5, <1>6 DEF Ring, OnePiece, TwoPieces

(* front goes on at block 0: the second piece is all there is.             *)
LEMMA RingTurned == ASSUME IInv, Front, size[read_idx] = 1 PROVE Ring'
<1>1. /\ read_idx > write_idx /\ end \in Blk /\ end <= write_idx
      /\ \A i \in Blk : i \in Nat
      /\ read_idx \in Blk /\ write_idx \in Blk
  BY AtHead, Numbers
<1>2. /\ read_idx' = 0 /\ write_idx' = write_idx /\ end' = end /\ size' = size
      /\ size[end] = 0
  BY DEF Front, end, producerVars, IInv, Ring
<1>3. \E starts \in SUBSET Blk : Line(starts, 0, end, size)
  BY <1>1 DEF IInv, Ring, TwoPieces
<1>4. read_idx' <= write_idx' /\ ~ read_idx' > write_idx'
  BY <1>1, <1>2
<1> QED BY <1>2, <1>3, <1>4 DEF Ring, OnePiece

(* pop takes the first message away.                                       *)
LEMMA RingPopped == ASSUME IInv, Pop PROVE Ring'
<1>1. /\ size[read_idx] \in MsgBytes /\ read_idx # end
      /\ read_idx' = read_idx + BlkSz(size[read_idx])
      /\ read_idx' \in Blk /\ read_idx' >= read_idx
      /\ read_idx <= write_idx => read_idx' <= write_idx
  BY PopGoesOn
<1>2. /\ write_idx' = write_idx /\ end' = end /\ size' = size /\ size[end] = 0
  BY DEF Pop, end, producerVars, IInv, Ring
<1>3. /\ read_idx \in Nat /\ write_idx \in Nat /\ end \in Nat /\ read_idx' \in Nat
      /\ \A i \in Blk : i \in Nat
  BY <1>1, AtHead, Numbers
<1>4. ASSUME read_idx' <= write_idx
      PROVE  \E starts \in SUBSET Blk : Line(starts, read_idx', end, size)
  <2>1. read_idx <= write_idx
    BY <1>1, <1>3, <1>4
  <2>2. PICK starts \in SUBSET Blk : Line(starts, read_idx, end, size)
    BY <2>1 DEF IInv, Ring, OnePiece
  <2>3. Line(starts \ {read_idx}, read_idx', end, size)
    BY <1>1, <1>3, <2>2, LineRest
  <2> QED BY <2>3
<1>5. ASSUME read_idx' > write_idx
      PROVE  \E starts0 \in SUBSET Blk, starts1 \in SUBSET Blk, e \in Blk :
               /\ Line(starts0, 0, end, size)
               /\ Line(starts1, read_idx', e, size)
               /\ size[e] = 1
  <2>1. read_idx > write_idx
    BY <1>1, <1>3, <1>5
  <2>2. PICK starts0 \in SUBSET Blk, starts1 \in SUBSET Blk, e \in Blk :
          /\ Line(starts0, 0, end, size) /\ Line(starts1, read_idx, e, size) /\ size[e] = 1
    BY <2>1 DEF IInv, Ring, TwoPieces
  <2>3. read_idx # e
    BY <1>1, <2>2, MsgSize
  <2>4. Line(starts1 \ {read_idx}, read_idx', e, size)
    BY <1>1, <1>3, <2>2, <2>3, LineRest
  <2> QED BY <2>2, <2>4
<1> QED BY <1>2, <1>4, <1>5 DEF Ring, OnePiece, TwoPieces

(* A step keeps the messages between read_idx and write_idx in one or two  *)
(* unbroken pieces.                                                        *)
LEMMA RingStep == IInv /\ [Next]_vars => Ring'
<1> SUFFICES ASSUME IInv, [Next]_vars PROVE Ring'
  OBVIOUS
<1> USE DEF queueVars, producerVars, consumerVars
<1>0. /\ size \in [Blk -> Nat] /\ size[end] = 0
      /\ read_idx \in Blk /\ write_idx \in Blk /\ end \in Blk /\ end <= write_idx
      /\ \A i \in Blk : i \in Nat
  BY Numbers, AtHead DEF IInv, TypeOK, Ring
<1>1. CASE Log \/ ReadIdx \/ Fill \/ FrontFirst \/ Handle \/ UNCHANGED vars
  <2>1. /\ size' = size /\ read_idx' = read_idx /\ write_idx' = write_idx /\ end' = end
    BY <1>1 DEF Log, ReadIdx, Fill, FrontFirst, Handle, vars, end, ReserveOrFail
  <2> QED BY <1>0, <2>1, RingKept
<1>2. CASE WrapFirst
  <2>1. /\ read_idx > 0 /\ read_idx <= write_idx
    BY <1>2, Numbers DEF WrapFirst, IInv, Allocating
  <2>2. /\ size' = [size EXCEPT ![0] = 0] /\ read_idx' = read_idx
        /\ write_idx' = write_idx /\ end' = end
    BY <1>2 DEF WrapFirst, end
  <2>3. \A s \in Blk : Unread(s) => size'[s] = size[s]
    BY <1>0, <2>1, <2>2 DEF Unread
  <2>4. size'[end] = 0
    BY <1>0, <2>2
  <2> QED BY <1>0, <2>2, <2>3, <2>4, RingKept
<1>3. CASE WrapMark
  BY <1>3, RingMarked
<1>4. CASE Reserve
  <2>1. /\ blk_sz \in Nat /\ blk_sz >= 2 /\ write_idx + blk_sz \in Blk
        /\ read_idx > write_idx => write_idx + blk_sz < read_idx
    BY <1>4, Numbers DEF Reserve, IInv, Free, Allocating
  <2>2. /\ size' = [size EXCEPT ![write_idx + blk_sz] = 0] /\ read_idx' = read_idx
        /\ write_idx' = write_idx + blk_sz /\ end' = end
    BY <1>4 DEF Reserve, end
  <2>3. \A s \in Blk : Unread(s) => size'[s] = size[s]
    BY <1>0, <2>1, <2>2 DEF Unread
  <2>4. size'[end] = 0
    BY <1>0, <2>2
  <2>5. (read_idx <= write_idx) <=> (read_idx' <= write_idx')
    BY <1>0, <2>1, <2>2
  <2> QED BY <2>1, <2>2, <2>3, <2>4, <2>5, RingKept
<1>5. CASE Push
  BY <1>5, RingPushed
<1>6. CASE Front
  <2>1. CASE size[read_idx] = 1
    BY <1>6, <2>1, RingTurned
  <2>2. CASE size[read_idx] # 1
    <3>1. /\ size' = size /\ read_idx' = read_idx /\ write_idx' = write_idx /\ end' = end
      BY <1>6, <2>2 DEF Front, end
    <3> QED BY <1>0, <3>1, RingKept
  <2> QED BY <2>1, <2>2
<1>7. CASE Pop
  BY <1>7, RingPopped
<1> QED BY <1>1, <1>2, <1>3, <1>4, <1>5, <1>6, <1>7
        DEF Next, Producer, FinishLog, Consumer

(* The conjunction of the above is inductive.                              *)
LEMMA StepIInv == IInv /\ [Next]_vars => IInv'
BY TypesStep, RingStep, FreeStep, AllocatingStep, PollingStep DEF IInv

(* The invariant holds at all times.                                       *)
THEOREM Inductive == Spec => []IInv
BY InitIInv, StepIInv, PTL DEF Spec

(* The queue keeps to its types: above all, no index leaves the array.     *)
THEOREM TypeCorrect == Spec => []TypeOK
<1>1. IInv => TypeOK
  BY DEF IInv
<1> QED BY <1>1, Inductive, PTL

(* alloc marks no block behind the array as empty, and front never meets   *)
(* a message that ends at or behind the end of the array.                  *)
THEOREM InBoundsHolds == Spec => []InBounds
<1>1. ASSUME IInv PROVE InBounds
  <2>1. ppc = "reserve" => write_idx + blk_sz \in Blk
    BY <1>1, Numbers DEF IInv, Free, Allocating
  <2>2. cpc \in {"handle", "pop"} => header + BlkSz(size[header]) \in Blk
    BY <1>1, AtHead DEF IInv, Polling
  <2> QED BY <2>1, <2>2 DEF InBounds
<1> QED BY <1>1, Inductive, PTL

-----------------------------------------------------------------------------
(* The walk through the ring                                               *)

(* Every set of natural numbers has a least element.                       *)
LEMMA Least ==
  ASSUME NEW S \in SUBSET Nat, S # {}
  PROVE  \E m \in S : \A n \in S : m <= n
<1> DEFINE R == {ss \in Nat \X Nat : ss[1] < ss[2]}
<1>1. R = OpToRel(<, Nat)
  BY Zenon DEF OpToRel
<1>2. IsWellFoundedOn(R, Nat)
  BY <1>1, NatLessThanWellFounded, Zenon
<1>3. \A x, y \in S : <<y, x>> \notin R => x <= y
  OBVIOUS
<1> HIDE DEF R
<1>4. PICK m \in S : \A n \in S : ~ (<<n, m>> \in R)
  BY <1>2, WFMin
<1> QED BY <1>3, <1>4

(* MessageAt and the body of Walk, for any contents of the blocks.         *)
Msg(sz, dt, i) == [k \in 1 .. BlkSz(sz[i]) |-> dt[i + k - 1]]

WalkBody(f, sz, dt, i, n) ==
  IF n = 0 \/ sz[i] = 0 THEN << >>
  ELSE IF sz[i] = 1 THEN f[n - 1][0]
  ELSE IF i + BlkSz(sz[i]) \notin Blk THEN << >>
  ELSE <<Msg(sz, dt, i)>> \o f[n - 1][i + BlkSz(sz[i])]

IsWalk(f, sz, dt) ==
  f = [n \in 0 .. BLK_CNT |-> [i \in Blk |-> WalkBody(f, sz, dt, i, n)]]

(* The recursive definition has a solution.                                *)
LEMMA WalkExists == ASSUME NEW sz, NEW dt PROVE \E f : IsWalk(f, sz, dt)
<1> DEFINE Upto(n, f) ==
             f = [m \in 0 .. n |-> [i \in Blk |-> WalkBody(f, sz, dt, i, m)]]
           missing == {n \in Nat : ~ \E f : Upto(n, f)}
<1>1. ASSUME NEW f, NEW g, NEW n \in Nat, n # 0 => f[n - 1] = g[n - 1], NEW i
      PROVE  WalkBody(f, sz, dt, i, n) = WalkBody(g, sz, dt, i, n)
  BY <1>1 DEF WalkBody
<1>2. 0 \notin missing
  <2> DEFINE f == [m \in 0 .. 0 |-> [i \in Blk |-> << >>]]
  <2>1. \A i \in Blk : WalkBody(f, sz, dt, i, 0) = << >>
    BY DEF WalkBody
  <2> QED BY <2>1
<1>3. ASSUME NEW n \in Nat, n # 0, n - 1 \notin missing PROVE n \notin missing
  <2>1. PICK g : Upto(n - 1, g)
    BY <1>3
  <2> DEFINE f == [m \in 0 .. n |->
                     IF m = n THEN [i \in Blk |-> WalkBody(g, sz, dt, i, n)] ELSE g[m]]
  <2>2. ASSUME NEW m \in 0 .. n
        PROVE  f[m] = [i \in Blk |-> WalkBody(f, sz, dt, i, m)]
    <3>1. m \in Nat /\ (m # 0 => f[m - 1] = g[m - 1])
      OBVIOUS
    <3>2. f[m] = [i \in Blk |-> WalkBody(g, sz, dt, i, m)]
      <4>1. CASE m = n
        BY <4>1
      <4>2. CASE m # n
        <5>1. m \in 0 .. n - 1 /\ f[m] = g[m]
          BY <4>2, <1>3
        <5> HIDE DEF f
        <5> QED BY <2>1, <5>1
      <4> QED BY <4>1, <4>2
    <3> HIDE DEF f
    <3>3. \A i \in Blk : WalkBody(g, sz, dt, i, m) = WalkBody(f, sz, dt, i, m)
      BY <1>1, <3>1, Zenon
    <3> QED BY <3>2, <3>3
  <2>3. f = [m \in 0 .. n |-> f[m]]
    OBVIOUS
  <2> HIDE DEF f
  <2>4. Upto(n, f)
    BY <2>2, <2>3
  <2> QED BY <2>4
<1>4. missing = {}
  <2>1. SUFFICES ASSUME missing # {} PROVE FALSE
    OBVIOUS
  <2>2. missing \in SUBSET Nat
    OBVIOUS
  <2> HIDE DEF missing
  <2>3. PICK n \in missing : \A m \in missing : n <= m
    BY <2>1, <2>2, Least
  <2> QED BY <1>2, <1>3, <2>2, <2>3
<1>5. PICK f : Upto(BLK_CNT, f)
  BY <1>4, QueueAssumption
<1> QED BY <1>5 DEF IsWalk

(* The function Walk satisfies the equation that defines it.               *)
LEMMA WalkIsWalk == IsWalk(Walk, size, data)
<1>1. \E f : IsWalk(f, size, data)
  BY WalkExists, Zenon
<1> QED BY <1>1, Zenon DEF Walk, IsWalk, WalkBody, MessageAt, Msg

(* The same in the next state.                                             *)
LEMMA WalkIsWalkNext == IsWalk(Walk', size', data')
<1>1. \E f : IsWalk(f, size', data')
  BY WalkExists, Zenon
<1> QED BY <1>1, Zenon DEF Walk, IsWalk, WalkBody, MessageAt, Msg

(* A walk step by step.                                                    *)
LEMMA WalkSteps ==
  ASSUME NEW f, NEW sz, NEW dt, IsWalk(f, sz, dt)
  PROVE  \A n \in 0 .. BLK_CNT, i \in Blk :
           /\ n = 0 \/ sz[i] = 0 => f[n][i] = << >>
           /\ n # 0 /\ sz[i] = 1 => f[n][i] = f[n - 1][0]
           /\ n # 0 /\ sz[i] \notin {0, 1} /\ i + BlkSz(sz[i]) \in Blk =>
                f[n][i] = <<Msg(sz, dt, i)>> \o f[n - 1][i + BlkSz(sz[i])]
<1> SUFFICES ASSUME NEW n \in 0 .. BLK_CNT, NEW i \in Blk
             PROVE  /\ n = 0 \/ sz[i] = 0 => f[n][i] = << >>
                    /\ n # 0 /\ sz[i] = 1 => f[n][i] = f[n - 1][0]
                    /\ n # 0 /\ sz[i] \notin {0, 1} /\ i + BlkSz(sz[i]) \in Blk =>
                         f[n][i] = <<Msg(sz, dt, i)>> \o f[n - 1][i + BlkSz(sz[i])]
  OBVIOUS
<1>1. f[n][i] = WalkBody(f, sz, dt, i, n)
  BY DEF IsWalk
<1> QED BY <1>1 DEF WalkBody

(* The walk of Contents step by step, now and after a step.                *)
LEMMA WalkStepsNow ==
  \A n \in 0 .. BLK_CNT, i \in Blk :
    /\ n = 0 \/ size[i] = 0 => Walk[n][i] = << >>
    /\ n # 0 /\ size[i] = 1 => Walk[n][i] = Walk[n - 1][0]
    /\ n # 0 /\ size[i] \notin {0, 1} /\ i + BlkSz(size[i]) \in Blk =>
         Walk[n][i] = <<Msg(size, data, i)>> \o Walk[n - 1][i + BlkSz(size[i])]
<1> DEFINE f == Walk
<1>1. IsWalk(f, size, data)
  BY WalkIsWalk
<1> HIDE DEF f
<1>2. \A n \in 0 .. BLK_CNT, i \in Blk :
        /\ n = 0 \/ size[i] = 0 => f[n][i] = << >>
        /\ n # 0 /\ size[i] = 1 => f[n][i] = f[n - 1][0]
        /\ n # 0 /\ size[i] \notin {0, 1} /\ i + BlkSz(size[i]) \in Blk =>
             f[n][i] = <<Msg(size, data, i)>> \o f[n - 1][i + BlkSz(size[i])]
  BY <1>1, WalkSteps
<1> QED BY <1>2 DEF f

(* One block after the other, in the next state.                           *)
LEMMA WalkStepsNext ==
  \A n \in 0 .. BLK_CNT, i \in Blk :
    /\ n = 0 \/ size'[i] = 0 => Walk'[n][i] = << >>
    /\ n # 0 /\ size'[i] = 1 => Walk'[n][i] = Walk'[n - 1][0]
    /\ n # 0 /\ size'[i] \notin {0, 1} /\ i + BlkSz(size'[i]) \in Blk =>
         Walk'[n][i] = <<Msg(size', data', i)>> \o Walk'[n - 1][i + BlkSz(size'[i])]
BY WalkIsWalkNext, WalkSteps

(* What a walk comes across is a sequence of messages.                     *)
LEMMA WalkType ==
  ASSUME NEW f, NEW sz, NEW dt, IsWalk(f, sz, dt)
  PROVE  \A n \in 0 .. BLK_CNT, i \in Blk : f[n][i] \in Seq({Msg(sz, dt, j) : j \in Blk})
<1> DEFINE M == {Msg(sz, dt, j) : j \in Blk}
           bad == {n \in 0 .. BLK_CNT : \E i \in Blk : f[n][i] \notin Seq(M)}
<1>0. BLK_CNT \in Nat /\ 0 \in Blk
  BY QueueAssumption DEF Blk
<1>1. SUFFICES ASSUME bad # {} PROVE FALSE
  OBVIOUS
<1>2. bad \in SUBSET Nat
  BY <1>0
<1>3. PICK n \in bad : \A m \in bad : n <= m
  <2> HIDE DEF bad
  <2> QED BY <1>1, <1>2, Least
<1>4. PICK i \in Blk : f[n][i] \notin Seq(M)
  BY <1>3
<1>5. n \in 0 .. BLK_CNT /\ n \in Nat
  BY <1>0, <1>3
<1>6. f[n][i] = WalkBody(f, sz, dt, i, n)
  BY <1>5 DEF IsWalk
<1>7. n # 0 => \A j \in Blk : f[n - 1][j] \in Seq(M)
  <2>1. n # 0 => n - 1 \in 0 .. BLK_CNT /\ n - 1 \notin bad
    <3> HIDE DEF bad
    <3> QED BY <1>0, <1>2, <1>3, <1>5
  <2> QED BY <2>1
<1>8. Msg(sz, dt, i) \in M
  OBVIOUS
<1> HIDE DEF M, bad
<1>9. WalkBody(f, sz, dt, i, n) \in Seq(M)
  <2>1. \A a \in Seq(M), m \in M : <<m>> \o a \in Seq(M)
    OBVIOUS
  <2>2. << >> \in Seq(M)
    OBVIOUS
  <2> QED BY <1>0, <1>7, <1>8, <2>1, <2>2 DEF WalkBody
<1> QED BY <1>4, <1>6, <1>9

-----------------------------------------------------------------------------
(* Trails: the blocks a walk goes through, and how far each is at most     *)
(* from the last one                                                       *)

Follows(sz, i) == IF sz[i] = 1 THEN 0 ELSE i + BlkSz(sz[i])

Trail(S, dist, last, sz) ==
  /\ S \subseteq Blk /\ last \in S
  /\ \A s \in S : dist[s] \in Nat
  /\ sz[last] = 0
  /\ \A s \in S \ {last} : /\ sz[s] # 0 /\ Follows(sz, s) \in S
                          /\ dist[Follows(sz, s)] < dist[s]

(* A walk of more steps than it takes comes across the same messages.      *)
LEMMA WalkSettles ==
  ASSUME NEW f, NEW sz, NEW dt, IsWalk(f, sz, dt),
         NEW S, NEW dist, NEW last, Trail(S, dist, last, sz)
  PROVE  \A s \in S, n \in 0 .. BLK_CNT, m \in 0 .. BLK_CNT :
           dist[s] <= n /\ dist[s] <= m => f[n][s] = f[m][s]
<1> DEFINE bad == {d \in Nat : \E s \in S, n \in 0 .. BLK_CNT, m \in 0 .. BLK_CNT :
                     d = dist[s] /\ d <= n /\ d <= m /\ f[n][s] # f[m][s]}
<1>0. BLK_CNT \in Nat
  BY QueueAssumption
<1>S. \A n \in 0 .. BLK_CNT, i \in Blk :
        /\ n = 0 \/ sz[i] = 0 => f[n][i] = << >>
        /\ n # 0 /\ sz[i] = 1 => f[n][i] = f[n - 1][0]
        /\ n # 0 /\ sz[i] \notin {0, 1} /\ i + BlkSz(sz[i]) \in Blk =>
             f[n][i] = <<Msg(sz, dt, i)>> \o f[n - 1][i + BlkSz(sz[i])]
  BY WalkSteps
<1>1. SUFFICES bad = {}
  BY DEF Trail
<1>2. SUFFICES ASSUME bad # {} PROVE FALSE
  OBVIOUS
<1>3. bad \in SUBSET Nat
  OBVIOUS
<1>4. PICK d \in bad : \A b \in bad : d <= b
  <2> HIDE DEF bad
  <2> QED BY <1>2, <1>3, Least
<1>5. PICK s \in S, n \in 0 .. BLK_CNT, m \in 0 .. BLK_CNT :
        dist[s] <= n /\ dist[s] <= m /\ f[n][s] # f[m][s] /\ d = dist[s]
  BY <1>4
<1>6. s \in Blk
  BY DEF Trail
<1>7. s # last
  <2>1. last \in Blk /\ sz[last] = 0
    BY DEF Trail
  <2>2. f[n][last] = << >> /\ f[m][last] = << >>
    BY <1>S, <2>1
  <2> HIDE DEF bad
  <2> QED BY <1>5, <2>2
<1> DEFINE t == Follows(sz, s)
<1>8. sz[s] # 0 /\ t \in S /\ t \in Blk /\ dist[t] < d /\ dist[t] \in Nat
  BY <1>5, <1>7 DEF Trail
<1>9. d \in Nat /\ n \in Nat /\ m \in Nat /\ n # 0 /\ m # 0
      /\ n - 1 \in 0 .. BLK_CNT /\ m - 1 \in 0 .. BLK_CNT
      /\ dist[t] <= n - 1 /\ dist[t] <= m - 1
  <2> HIDE DEF t, bad
  <2> QED BY <1>0, <1>3, <1>4, <1>5, <1>8
<1>10. f[n - 1][t] = f[m - 1][t]
  <2>1. dist[t] \notin bad
    <3> HIDE DEF t, bad
    <3> QED BY <1>3, <1>4, <1>8, <1>9
  <2> HIDE DEF t
  <2> QED BY <1>8, <1>9, <2>1
<1>11. CASE sz[s] = 1
  <2>1. t = 0
    BY <1>11 DEF Follows
  <2> HIDE DEF t, bad
  <2> QED BY <1>5, <1>6, <1>9, <1>10, <1>11, <2>1, <1>S
<1>12. CASE sz[s] # 1
  <2>1. t = s + BlkSz(sz[s])
    BY <1>12 DEF Follows
  <2> HIDE DEF t, bad
  <2>2. sz[s] \notin {0, 1} /\ s + BlkSz(sz[s]) \in Blk
    BY <1>8, <1>12, <2>1
  <2>3. f[n][s] = <<Msg(sz, dt, s)>> \o f[n - 1][t]
    BY <1>6, <1>9, <2>1, <2>2, <1>S
  <2>4. f[m][s] = <<Msg(sz, dt, s)>> \o f[m - 1][t]
    BY <1>6, <1>9, <2>1, <2>2, <1>S
  <2> QED BY <1>5, <1>10, <2>3, <2>4
<1> QED BY <1>11, <1>12

(* What comes to stand at the end of a trail is come across at the end.    *)
LEMMA WalkExtends ==
  ASSUME NEW f, NEW sz, NEW dt, IsWalk(f, sz, dt),
         NEW g, NEW sz2, NEW dt2, IsWalk(g, sz2, dt2),
         NEW S, NEW dist, NEW last, Trail(S, dist, last, sz),
         \A s \in S \ {last} :
           /\ sz2[s] = sz[s]
           /\ sz[s] # 1 => Msg(sz2, dt2, s) = Msg(sz, dt, s),
         NEW T, NEW tail \in Seq(T),
         \A n \in 1 .. BLK_CNT : g[n][last] = tail
  PROVE  \A s \in S, n \in 0 .. BLK_CNT : dist[s] < n => g[n][s] = f[n][s] \o tail
<1> DEFINE M == {Msg(sz, dt, j) : j \in Blk} \cup T
           bad == {n \in 0 .. BLK_CNT : \E s \in S :
                     dist[s] < n /\ g[n][s] # f[n][s] \o tail}
<1>0. BLK_CNT \in Nat
  BY QueueAssumption
<1>S. \A n \in 0 .. BLK_CNT, i \in Blk :
        /\ n = 0 \/ sz[i] = 0 => f[n][i] = << >>
        /\ n # 0 /\ sz[i] = 1 => f[n][i] = f[n - 1][0]
        /\ n # 0 /\ sz[i] \notin {0, 1} /\ i + BlkSz(sz[i]) \in Blk =>
             f[n][i] = <<Msg(sz, dt, i)>> \o f[n - 1][i + BlkSz(sz[i])]
  BY WalkSteps
<1>G. \A n \in 0 .. BLK_CNT, i \in Blk :
        /\ n = 0 \/ sz2[i] = 0 => g[n][i] = << >>
        /\ n # 0 /\ sz2[i] = 1 => g[n][i] = g[n - 1][0]
        /\ n # 0 /\ sz2[i] \notin {0, 1} /\ i + BlkSz(sz2[i]) \in Blk =>
             g[n][i] = <<Msg(sz2, dt2, i)>> \o g[n - 1][i + BlkSz(sz2[i])]
  BY WalkSteps
<1>1. SUFFICES ASSUME bad # {} PROVE FALSE
  OBVIOUS
<1>2. bad \in SUBSET Nat
  BY <1>0
<1>3. PICK n \in bad : \A m \in bad : n <= m
  <2> HIDE DEF bad
  <2> QED BY <1>1, <1>2, Least
<1>4. PICK s \in S : dist[s] < n /\ g[n][s] # f[n][s] \o tail
  BY <1>3
<1>5. n \in 1 .. BLK_CNT /\ n - 1 \in 0 .. BLK_CNT /\ n \in 0 .. BLK_CNT /\ n # 0
  BY <1>0, <1>3, <1>4 DEF Trail
<1>6. s \in Blk /\ s # last
  <2>1. f[n][last] = << >>
    BY <1>5, <1>S DEF Trail
  <2>2. << >> \o tail = tail
    OBVIOUS
  <2> QED BY <1>4, <1>5, <2>1, <2>2 DEF Trail
<1> DEFINE t == Follows(sz, s)
<1>7. /\ sz[s] # 0 /\ t \in S /\ t \in Blk /\ dist[t] < n - 1 /\ sz2[s] = sz[s]
      /\ sz[s] # 1 => Msg(sz2, dt2, s) = Msg(sz, dt, s)
  <2>1. /\ sz[s] # 0 /\ t \in S /\ t \in Blk /\ dist[t] < dist[s] /\ sz2[s] = sz[s]
        /\ dist[t] \in Nat /\ dist[s] \in Nat
        /\ sz[s] # 1 => Msg(sz2, dt2, s) = Msg(sz, dt, s)
    BY <1>6 DEF Trail
  <2> HIDE DEF t
  <2> QED BY <1>4, <1>5, <2>1
<1>8. g[n - 1][t] = f[n - 1][t] \o tail
  <2>1. n - 1 \notin bad
    <3> HIDE DEF bad
    <3> QED BY <1>2, <1>3, <1>5
  <2> HIDE DEF t
  <2> QED BY <1>5, <1>7, <2>1
<1>9. f[n - 1][t] \in Seq(M) /\ tail \in Seq(M)
  <2>1. f[n - 1][t] \in Seq({Msg(sz, dt, j) : j \in Blk})
    <3>1. \A m \in 0 .. BLK_CNT, i \in Blk : f[m][i] \in Seq({Msg(sz, dt, j) : j \in Blk})
      BY WalkType
    <3> HIDE DEF t, M, bad
    <3> QED BY <1>5, <1>7, <3>1
  <2> QED BY <2>1
<1> HIDE DEF M, bad
<1>10. CASE sz[s] = 1
  <2>1. t = 0
    BY <1>10 DEF Follows
  <2> HIDE DEF t
  <2> QED BY <1>4, <1>5, <1>6, <1>7, <1>8, <1>10, <2>1, <1>S, <1>G, Zenon
<1>11. CASE sz[s] # 1
  <2>1. t = s + BlkSz(sz[s])
    BY <1>11 DEF Follows
  <2>2. Msg(sz, dt, s) \in M
    BY <1>6 DEF M
  <2> HIDE DEF t
  <2>3. f[n][s] = <<Msg(sz, dt, s)>> \o f[n - 1][t]
    BY <1>5, <1>6, <1>7, <1>11, <2>1, <1>S, <1>G
  <2>4. g[n][s] = <<Msg(sz, dt, s)>> \o g[n - 1][t]
    BY <1>5, <1>6, <1>7, <1>11, <2>1, <1>S, <1>G, Zenon
  <2>5. \A m \in M, a, b \in Seq(M) : <<m>> \o (a \o b) = (<<m>> \o a) \o b
    OBVIOUS
  <2> QED BY <1>4, <1>8, <1>9, <2>2, <2>3, <2>4, <2>5
<1> QED BY <1>10, <1>11

-----------------------------------------------------------------------------
(* The ring implements LogFifo                                             *)

(* A place of a line but its last.                                         *)
LEMMA LineAt ==
  ASSUME NEW i \in Nat, NEW j \in Nat, NEW S, NEW sz, Line(S, i, j, sz), NEW s \in S \ {j}
  PROVE  /\ s \in Nat /\ i <= s /\ s < j /\ sz[s] \notin {0, 1}
         /\ BlkSz(sz[s]) \in Nat /\ BlkSz(sz[s]) >= 2
         /\ s + BlkSz(sz[s]) \in S /\ s + BlkSz(sz[s]) <= j
<1>1. s \in i .. j /\ sz[s] \in MsgBytes /\ s + BlkSz(sz[s]) \in S /\ S \subseteq i .. j
  BY DEF Line
<1>2. BlkSz(sz[s]) \in Nat /\ BlkSz(sz[s]) >= 2 /\ sz[s] \notin {0, 1}
  BY <1>1, MsgSize
<1> QED BY <1>1, <1>2

(* The whole of the message at block s is unread.                          *)
Whole(s) ==
  /\ Unread(s)
  /\ size[s] # 1 => /\ BlkSz(size[s]) \in Nat
                    /\ \A b \in s .. s + BlkSz(size[s]) - 1 : b \in Blk /\ Unread(b)

(* There is a trail from the place front looks at to the end.              *)
LEMMA TrailThere ==
  ASSUME IInv
  PROVE  \E S, dist : /\ Trail(S, dist, end, size)
                      /\ read_idx \in S /\ dist[read_idx] < BLK_CNT
                      /\ \A s \in S \ {end} : Whole(s)
<1>1. /\ BLK_CNT \in Nat /\ read_idx \in Blk /\ write_idx \in Blk /\ end \in Blk
      /\ end <= write_idx /\ size[end] = 0 /\ 0 \in Blk
      /\ \A i \in Blk : i \in Nat /\ i < BLK_CNT
      /\ \A i \in Nat : i < BLK_CNT => i \in Blk
  BY Numbers, AtHead DEF IInv, Ring
<1>2. CASE read_idx <= write_idx
  <2>1. PICK S \in SUBSET Blk : Line(S, read_idx, end, size)
    BY <1>2 DEF IInv, Ring, OnePiece
  <2> DEFINE dist == [s \in S |-> end - s]
  <2>2. read_idx \in S /\ end \in S /\ \A s \in S : s \in Nat /\ s <= end /\ read_idx <= s
    BY <1>1, <2>1 DEF Line
  <2>3. \A s \in S : dist[s] \in Nat
    BY <1>1, <2>2
  <2>4. ASSUME NEW s \in S \ {end}
        PROVE  /\ size[s] # 0 /\ Follows(size, s) \in S
               /\ dist[Follows(size, s)] < dist[s] /\ Whole(s)
    <3>1. /\ s \in Nat /\ read_idx <= s /\ s < end /\ size[s] \notin {0, 1}
          /\ BlkSz(size[s]) \in Nat /\ BlkSz(size[s]) >= 2
          /\ s + BlkSz(size[s]) \in S /\ s + BlkSz(size[s]) <= end
      BY <1>1, <2>1, LineAt
    <3>2. Follows(size, s) = s + BlkSz(size[s])
      BY <3>1 DEF Follows
    <3>3. dist[Follows(size, s)] < dist[s]
      BY <1>1, <3>1, <3>2
    <3>4. \A b \in s .. s + BlkSz(size[s]) - 1 : b \in Blk /\ Unread(b)
      BY <1>1, <1>2, <3>1 DEF Unread
    <3> QED BY <1>1, <1>2, <3>1, <3>2, <3>3, <3>4 DEF Whole, Unread
  <2>5. dist[read_idx] < BLK_CNT
    BY <1>1, <2>2
  <2> HIDE DEF dist
  <2>6. Trail(S, dist, end, size)
    BY <1>1, <2>2, <2>3, <2>4 DEF Trail
  <2> QED BY <2>2, <2>4, <2>5, <2>6
<1>3. CASE read_idx > write_idx
  <2>1. PICK S0 \in SUBSET Blk, S1 \in SUBSET Blk, e \in Blk :
          /\ Line(S0, 0, end, size) /\ Line(S1, read_idx, e, size) /\ size[e] = 1
    BY <1>3 DEF IInv, Ring, TwoPieces
  <2> DEFINE S == S0 \cup S1
             dist == [s \in S |-> IF s <= end THEN end - s ELSE BLK_CNT - s + end]
  <2>2. /\ 0 \in S0 /\ end \in S0 /\ read_idx \in S1 /\ e \in S1
        /\ \A s \in S0 : s \in Nat /\ s <= end
        /\ \A s \in S1 : s \in Nat /\ s > end /\ read_idx <= s /\ s < BLK_CNT
        /\ ~ read_idx <= write_idx
    BY <1>1, <1>3, <2>1 DEF Line
  <2>3. \A s \in S : dist[s] \in Nat
    BY <1>1, <2>2
  <2>4. ASSUME NEW s \in S0 \ {end}
        PROVE  /\ size[s] # 0 /\ Follows(size, s) \in S
               /\ dist[Follows(size, s)] < dist[s] /\ Whole(s)
    <3>1. /\ s \in Nat /\ s < end /\ size[s] \notin {0, 1}
          /\ BlkSz(size[s]) \in Nat /\ BlkSz(size[s]) >= 2
          /\ s + BlkSz(size[s]) \in S0 /\ s + BlkSz(size[s]) <= end
      BY <1>1, <2>1, LineAt
    <3>2. Follows(size, s) = s + BlkSz(size[s])
      BY <3>1 DEF Follows
    <3>3. dist[Follows(size, s)] < dist[s]
      BY <1>1, <3>1, <3>2
    <3>4. \A b \in s .. s + BlkSz(size[s]) - 1 : b \in Blk /\ Unread(b)
      BY <1>1, <2>2, <3>1 DEF Unread
    <3> QED BY <1>1, <2>2, <3>1, <3>2, <3>3, <3>4 DEF Whole, Unread
  <2>5. ASSUME NEW s \in S1 \ {e}
        PROVE  /\ size[s] # 0 /\ Follows(size, s) \in S
               /\ dist[Follows(size, s)] < dist[s] /\ Whole(s)
    <3>1. /\ s \in Nat /\ read_idx <= s /\ s < e /\ size[s] \notin {0, 1}
          /\ BlkSz(size[s]) \in Nat /\ BlkSz(size[s]) >= 2
          /\ s + BlkSz(size[s]) \in S1 /\ s + BlkSz(size[s]) <= e
      BY <1>1, <2>1, LineAt
    <3>2. Follows(size, s) = s + BlkSz(size[s])
      BY <3>1 DEF Follows
    <3>3. dist[Follows(size, s)] < dist[s]
      BY <1>1, <2>2, <3>1, <3>2
    <3>4. \A b \in s .. s + BlkSz(size[s]) - 1 : b \in Blk /\ Unread(b)
      BY <1>1, <2>1, <2>2, <3>1 DEF Unread
    <3> QED BY <1>1, <2>2, <3>1, <3>2, <3>3, <3>4 DEF Whole, Unread
  <2>6. /\ size[e] # 0 /\ Follows(size, e) \in S
        /\ dist[Follows(size, e)] < dist[e] /\ Whole(e)
    <3>1. Follows(size, e) = 0
      BY <2>1 DEF Follows
    <3>2. dist[0] < dist[e]
      BY <1>1, <2>2
    <3> QED BY <2>1, <2>2, <3>1, <3>2 DEF Whole, Unread
  <2>7. dist[read_idx] < BLK_CNT
    BY <1>1, <2>2
  <2>8. S \subseteq Blk /\ end \in S /\ read_idx \in S
    BY <2>2
  <2>9. \A s \in S \ {end} : s \in S0 \ {end} \/ s \in S1 \ {e} \/ s = e
    OBVIOUS
  <2> HIDE DEF dist, S
  <2>10. Trail(S, dist, end, size)
    BY <1>1, <2>3, <2>4, <2>5, <2>6, <2>8, <2>9 DEF Trail
  <2> QED BY <2>4, <2>5, <2>6, <2>7, <2>8, <2>9, <2>10
<1> QED BY <1>1, <1>2, <1>3

(* A step that leaves the unread blocks alone adds to the contents of the  *)
(* ring what it puts at the end.                                           *)
LEMMA ContentsExtended ==
  ASSUME IInv, read_idx' = read_idx,
         \A b \in Blk : Unread(b) => size'[b] = size[b] /\ data'[b] = data[b],
         NEW T, NEW tail \in Seq(T),
         \A n \in 1 .. BLK_CNT : Walk'[n][end] = tail
  PROVE  Contents' = Contents \o tail
<1>1. PICK S, dist : /\ Trail(S, dist, end, size)
                     /\ read_idx \in S /\ dist[read_idx] < BLK_CNT
                     /\ \A s \in S \ {end} : Whole(s)
  BY TrailThere
<1>2. ASSUME NEW s \in S \ {end}
      PROVE  /\ size'[s] = size[s]
             /\ size[s] # 1 => Msg(size', data', s) = Msg(size, data, s)
  <2>1. s \in Blk /\ Whole(s)
    BY <1>1 DEF Trail
  <2>2. size'[s] = size[s]
    BY <2>1 DEF Whole
  <2>3. ASSUME size[s] # 1
        PROVE  Msg(size', data', s) = Msg(size, data, s)
    <3>1. ASSUME NEW k \in 1 .. BlkSz(size[s])
          PROVE  data'[s + k - 1] = data[s + k - 1]
      <4>1. s \in Nat /\ BlkSz(size[s]) \in Nat
        BY <2>1, <2>3, Numbers DEF Whole
      <4>2. s + k - 1 \in s .. s + BlkSz(size[s]) - 1
        BY <4>1
      <4> QED BY <2>1, <2>3, <4>2 DEF Whole
    <3> QED BY <2>2, <3>1 DEF Msg
  <2> QED BY <2>2, <2>3
<1>3. \A s \in S, n \in 0 .. BLK_CNT : dist[s] < n => Walk'[n][s] = Walk[n][s] \o tail
  BY <1>1, <1>2, WalkIsWalk, WalkIsWalkNext, WalkExtends
<1>4. BLK_CNT \in 0 .. BLK_CNT
  BY QueueAssumption
<1> QED BY <1>1, <1>3, <1>4 DEF Contents

(* It leaves the contents as they are if it puts nothing there.            *)
LEMMA ContentsKept ==
  ASSUME IInv, read_idx' = read_idx,
         \A b \in Blk : Unread(b) => size'[b] = size[b] /\ data'[b] = data[b],
         \/ size'[end] = 0
         \/ size'[end] = 1 /\ size'[0] = 0
  PROVE  Contents' = Contents
<1>1. end \in Blk /\ 0 \in Blk
  BY AtHead, Numbers
<1>2. ASSUME NEW n \in 1 .. BLK_CNT PROVE Walk'[n][end] = << >>
  <2>1. n \in 0 .. BLK_CNT /\ n - 1 \in 0 .. BLK_CNT /\ n # 0
    BY QueueAssumption
  <2>3. CASE size'[end] = 0
    BY <1>1, <2>1, WalkStepsNext, <2>3
  <2>4. CASE size'[end] = 1 /\ size'[0] = 0
    BY <1>1, <2>1, WalkStepsNext, <2>4, Zenon
  <2> QED BY <2>3, <2>4
<1>3. Contents \in Seq({Msg(size, data, j) : j \in Blk})
  <2>1. BLK_CNT \in 0 .. BLK_CNT /\ read_idx \in Blk
    BY QueueAssumption, Numbers
  <2> QED BY <2>1, WalkIsWalk, WalkType DEF Contents
<1> DEFINE T == {Msg(size, data, j) : j \in Blk}
<1>4. << >> \in Seq(T) /\ \A a \in Seq(T) : a \o << >> = a
  OBVIOUS
<1>5. Contents' = Contents \o << >>
  <2> HIDE DEF T
  <2> QED BY <1>2, <1>4, ContentsExtended
<1> HIDE DEF T
<1> QED BY <1>3, <1>4, <1>5 DEF T

(* The message that is handled is the first of the ring, and the rest      *)
(* comes behind it.                                                        *)
LEMMA ContentsAtHead ==
  ASSUME IInv, size[read_idx] # 0
  PROVE  /\ size[read_idx] = 1 => Contents = Walk[BLK_CNT][0]
         /\ size[read_idx] # 1 =>
              /\ Contents # << >> /\ Head(Contents) = MessageAt(read_idx, size[read_idx])
              /\ Tail(Contents) = Walk[BLK_CNT][read_idx + BlkSz(size[read_idx])]
<1>1. PICK S, dist : /\ Trail(S, dist, end, size)
                     /\ read_idx \in S /\ dist[read_idx] < BLK_CNT
  BY TrailThere
<1> DEFINE t == Follows(size, read_idx)
<1>2. /\ BLK_CNT \in Nat /\ BLK_CNT # 0 /\ BLK_CNT \in 0 .. BLK_CNT /\ BLK_CNT - 1 \in 0 .. BLK_CNT
      /\ read_idx \in Blk
  BY QueueAssumption, Numbers
<1>3. t \in S /\ t \in Blk /\ dist[t] < dist[read_idx] /\ dist[t] \in Nat /\ dist[read_idx] \in Nat
  BY <1>1 DEF Trail
<1>4. Walk[BLK_CNT - 1][t] = Walk[BLK_CNT][t]
  <2> HIDE DEF t
  <2>1. dist[t] <= BLK_CNT /\ dist[t] <= BLK_CNT - 1
    BY <1>1, <1>2, <1>3
  <2> QED BY <1>1, <1>2, <1>3, <2>1, WalkIsWalk, WalkSettles
<1>5. CASE size[read_idx] = 1
  <2>1. t = 0
    BY <1>5 DEF Follows
  <2> HIDE DEF t
  <2> QED BY <1>2, <1>4, <1>5, <2>1, WalkStepsNow DEF Contents
<1>6. CASE size[read_idx] # 1
  <2>1. t = read_idx + BlkSz(size[read_idx])
    BY <1>6 DEF Follows
  <2> DEFINE M == {Msg(size, data, j) : j \in Blk}
  <2>2. Msg(size, data, read_idx) \in M
    BY <1>2
  <2>3. Walk[BLK_CNT][t] \in Seq(M)
    BY <1>2, <1>3, WalkIsWalk, WalkType
  <2>4. Msg(size, data, read_idx) = MessageAt(read_idx, size[read_idx])
    BY DEF Msg, MessageAt
  <2> HIDE DEF t, M
  <2>5. Contents = <<Msg(size, data, read_idx)>> \o Walk[BLK_CNT - 1][t]
    <3>2. size[read_idx] \notin {0, 1} /\ read_idx + BlkSz(size[read_idx]) \in Blk
      BY <1>3, <1>6, <2>1
    <3>3. Walk[BLK_CNT][read_idx] = <<Msg(size, data, read_idx)>> \o Walk[BLK_CNT - 1][t]
      BY <1>2, <2>1, WalkStepsNow, <3>2
    <3> QED BY <3>3 DEF Contents
  <2>6. \A m \in M, a \in Seq(M) :
          /\ <<m>> \o a # << >> /\ Head(<<m>> \o a) = m /\ Tail(<<m>> \o a) = a
    OBVIOUS
  <2> QED BY <1>4, <1>6, <2>1, <2>2, <2>3, <2>4, <2>5, <2>6
<1> QED BY <1>5, <1>6

(* log fills the blocks of a message with its number.                      *)
LEMMA PushSimulates == ASSUME IInv, Push PROVE \E m \in Messages : Fifo!Push(m)
<1>1. /\ ret \in Blk /\ write_idx \in Blk /\ write_idx = ret + blk_sz /\ size[write_idx] = 0
      /\ blk_sz = BlkSz(bytes) /\ bytes \in MsgBytes /\ blk_sz \in Nat /\ blk_sz >= 2
      /\ end = ret /\ id \in 0 .. Ids - 1
      /\ \A i \in Blk : ret <= i /\ i < ret + blk_sz => data[i] = id
  BY Numbers DEF Push, IInv, TypeOK, Allocating, end, blk_sz
<1>2. /\ size' = [size EXCEPT ![ret] = bytes] /\ size \in [Blk -> Nat]
      /\ data' = data /\ read_idx' = read_idx /\ got' = got /\ cpc' = cpc
  BY DEF Push, consumerVars, IInv, TypeOK
<1>3. bytes \notin {0, 1} /\ ret # write_idx
  <2>1. bytes \notin {0, 1}
    BY <1>1, MsgSize
  <2>2. ret \in Nat
    BY <1>1, Numbers
  <2> QED BY <1>1, <2>1, <2>2
<1>4. size'[ret] = bytes /\ size'[write_idx] = 0
  BY <1>1, <1>2, <1>3
<1> DEFINE m == [k \in 1 .. BlkSz(bytes) |-> id]
<1>5. Msg(size', data', ret) = m
  <2>1. ASSUME NEW k \in 1 .. BlkSz(bytes) PROVE data[ret + k - 1] = id
    <3>1. ret \in Nat /\ write_idx \in Nat /\ write_idx < BLK_CNT
      BY <1>1, Numbers
    <3>2. ret + k - 1 \in Nat /\ ret <= ret + k - 1 /\ ret + k - 1 < ret + blk_sz
      BY <1>1, <3>1
    <3>3. ret + k - 1 \in Blk
      BY <1>1, <3>1, <3>2, Numbers
    <3> QED BY <1>1, <3>2, <3>3
  <2> QED BY <1>2, <1>4, <2>1 DEF Msg
<1>6. m \in Messages
  <2>1. PICK sz \in Sizes : bytes = sz + HdrSz
    BY <1>1 DEF MsgBytes
  <2> QED BY <1>1, <2>1 DEF Messages
<1> HIDE DEF m
<1>7. ASSUME NEW n \in 1 .. BLK_CNT PROVE Walk'[n][end] = <<m>>
  <2>1. n \in 0 .. BLK_CNT /\ n - 1 \in 0 .. BLK_CNT /\ n # 0
    BY QueueAssumption
  <2>3. Walk'[n - 1][write_idx] = << >>
    BY <1>1, <1>4, <2>1, WalkStepsNext
  <2>4. Walk'[n][ret] = <<m>> \o Walk'[n - 1][write_idx]
    BY <1>1, <1>3, <1>4, <1>5, <2>1, WalkStepsNext
  <2>5. <<m>> \o << >> = <<m>>
    OBVIOUS
  <2> QED BY <1>1, <2>3, <2>4, <2>5
<1>8. \A b \in Blk : Unread(b) => size'[b] = size[b] /\ data'[b] = data[b]
  <2>1. /\ ret \in Nat /\ write_idx \in Nat /\ read_idx \in Nat
        /\ \A b \in Blk : b \in Nat
    BY <1>1, Numbers
  <2>2. \A b \in Blk : Unread(b) => b # ret
    <3>1. ret < write_idx
      <4>1. blk_sz \in Nat /\ blk_sz >= 2 /\ write_idx = ret + blk_sz
        BY <1>1
      <4> QED BY <2>1, <4>1
    <3> QED BY <1>1, <2>1, <3>1 DEF Unread
  <2> QED BY <1>2, <2>2
<1>9. Contents' = Contents \o <<m>>
  <2>1. <<m>> \in Seq({m})
    OBVIOUS
  <2> QED BY <1>2, <1>7, <1>8, <2>1, ContentsExtended
<1>10. Contents' = Append(Contents, m)
  <2>1. Contents \in Seq({Msg(size, data, j) : j \in Blk})
    <3>1. BLK_CNT \in 0 .. BLK_CNT /\ read_idx \in Blk
      BY QueueAssumption, Numbers
    <3> QED BY <3>1, WalkIsWalk, WalkType DEF Contents
  <2>2. ASSUME NEW T, NEW a \in Seq(T) PROVE a \o <<m>> = Append(a, m)
    OBVIOUS
  <2> QED BY <1>9, <2>1, <2>2
<1>11. UNCHANGED <<got, cpc = "pop">>
  BY <1>2
<1> QED BY <1>6, <1>10, <1>11 DEF Fifo!Push

(* Every step of the ring is a step of LogFifo or leaves it as it is.      *)
LEMMA StepSimulates == IInv /\ [Next]_vars => [Fifo!Next]_(Fifo!vars)
<1> SUFFICES ASSUME IInv, [Next]_vars PROVE [Fifo!Next]_(Fifo!vars)
  OBVIOUS
<1> USE DEF queueVars, producerVars, consumerVars
<1>0. /\ size \in [Blk -> Nat] /\ data \in [Blk -> 0 .. Ids] /\ size[end] = 0
      /\ read_idx \in Blk /\ write_idx \in Blk /\ end \in Blk /\ end <= write_idx
      /\ 0 \in Blk /\ \A i \in Blk : i \in Nat
  BY Numbers, AtHead DEF IInv, TypeOK, Ring
(* What the producer does before push is not visible.                      *)
<1>1. ASSUME read_idx' = read_idx, got' = got, cpc' = cpc,
             \A b \in Blk : Unread(b) => size'[b] = size[b] /\ data'[b] = data[b],
             size'[end] = 0 \/ (size'[end] = 1 /\ size'[0] = 0)
      PROVE  UNCHANGED Fifo!vars
  <2>1. Contents' = Contents
    BY <1>1, ContentsKept
  <2> QED BY <1>1, <2>1 DEF Fifo!vars
<1>2. CASE Log \/ ReadIdx \/ UNCHANGED vars
  <2>1. /\ size' = size /\ data' = data /\ read_idx' = read_idx /\ got' = got /\ cpc' = cpc
    BY <1>2 DEF Log, ReadIdx, vars
  <2> QED BY <1>0, <1>1, <2>1
<1>3. CASE WrapFirst
  <2>1. read_idx > 0 /\ read_idx <= write_idx
    BY <1>3, Numbers DEF WrapFirst, IInv, Allocating
  <2>2. /\ size' = [size EXCEPT ![0] = 0] /\ data' = data
        /\ read_idx' = read_idx /\ got' = got /\ cpc' = cpc
    BY <1>3 DEF WrapFirst
  <2>3. \A b \in Blk : Unread(b) => size'[b] = size[b] /\ data'[b] = data[b]
    BY <1>0, <2>1, <2>2 DEF Unread
  <2>4. size'[end] = 0
    BY <1>0, <2>2
  <2> QED BY <1>1, <2>2, <2>3, <2>4
<1>4. CASE WrapMark
  <2>1. /\ read_idx > 0 /\ read_idx <= write_idx /\ size[0] = 0 /\ end = write_idx
    BY <1>4, Numbers DEF WrapMark, IInv, Allocating, end
  <2>2. /\ size' = [size EXCEPT ![write_idx] = 1] /\ data' = data
        /\ read_idx' = read_idx /\ got' = got /\ cpc' = cpc
    BY <1>4 DEF WrapMark
  <2>3. \A b \in Blk : Unread(b) => size'[b] = size[b] /\ data'[b] = data[b]
    BY <1>0, <2>1, <2>2 DEF Unread
  <2>4. size'[end] = 1 /\ size'[0] = 0
    BY <1>0, <2>1, <2>2
  <2> QED BY <1>1, <2>2, <2>3, <2>4
<1>5. CASE Reserve
  <2>1. /\ blk_sz \in Nat /\ blk_sz >= 2 /\ write_idx + blk_sz \in Blk
        /\ read_idx > write_idx => write_idx + blk_sz < read_idx
    BY <1>5, Numbers DEF Reserve, IInv, Free, Allocating
  <2>2. /\ size' = [size EXCEPT ![write_idx + blk_sz] = 0] /\ data' = data
        /\ read_idx' = read_idx /\ got' = got /\ cpc' = cpc
    BY <1>5 DEF Reserve
  <2>3. \A b \in Blk : Unread(b) => size'[b] = size[b] /\ data'[b] = data[b]
    BY <1>0, <2>1, <2>2 DEF Unread
  <2>4. size'[end] = 0
    BY <1>0, <2>2
  <2> QED BY <1>1, <2>2, <2>3, <2>4
<1>6. CASE Fill
  <2>1. /\ blk_sz \in Nat /\ write_idx = ret + blk_sz /\ end = ret
    BY <1>6, Numbers DEF Fill, IInv, Allocating, end
  <2>2. /\ size' = size /\ read_idx' = read_idx /\ got' = got /\ cpc' = cpc
        /\ data' = [i \in Blk |-> IF ret <= i /\ i < ret + blk_sz THEN id ELSE data[i]]
    BY <1>6 DEF Fill
  <2>3. \A b \in Blk : Unread(b) => ~ (ret <= b /\ b < ret + blk_sz)
    BY <1>0, <2>1 DEF Unread
  <2>4. \A b \in Blk : Unread(b) => size'[b] = size[b] /\ data'[b] = data[b]
    BY <2>2, <2>3
  <2> QED BY <1>0, <1>1, <2>2, <2>4
<1>7. CASE Push
  BY <1>7, PushSimulates DEF Fifo!Next
<1>8. CASE Front
  <2>1. CASE size[read_idx] = 1
    <3>1. Contents = Walk[BLK_CNT][0]
      BY <2>1, ContentsAtHead
    <3>2. /\ size' = size /\ data' = data /\ read_idx' = 0 /\ got' = got
          /\ cpc = "front" /\ cpc' = "first"
      BY <1>8, <2>1 DEF Front
    <3>3. Walk' = Walk
      BY <3>2 DEF Walk, MessageAt
    <3> QED BY <3>1, <3>2, <3>3 DEF Contents, Fifo!vars
  <2>2. CASE size[read_idx] # 1
    <3>1. /\ size' = size /\ data' = data /\ read_idx' = read_idx /\ got' = got
          /\ cpc = "front" /\ cpc' # "pop"
      BY <1>8, <2>2 DEF Front, Found
    <3>2. Contents' = Contents
      BY <1>0, <3>1, ContentsKept
    <3> QED BY <3>1, <3>2 DEF Fifo!vars
  <2> QED BY <2>1, <2>2
<1>9. CASE FrontFirst
  <2>1. /\ size' = size /\ data' = data /\ read_idx' = read_idx /\ got' = got
        /\ cpc = "first" /\ cpc' # "pop"
    BY <1>9 DEF FrontFirst, Found
  <2>2. Contents' = Contents
    BY <1>0, <2>1, ContentsKept
  <2> QED BY <2>1, <2>2 DEF Fifo!vars
<1>10. CASE Handle
  <2>1. /\ size' = size /\ data' = data /\ read_idx' = read_idx
        /\ cpc = "handle" /\ cpc' = "pop"
        /\ got' = MessageAt(read_idx, size[read_idx]) /\ size[read_idx] \notin {0, 1}
    BY <1>10 DEF Handle, IInv, Polling
  <2>2. Contents' = Contents
    BY <1>0, <2>1, ContentsKept
  <2>3. Contents # << >> /\ Head(Contents) = MessageAt(read_idx, size[read_idx])
    BY <2>1, ContentsAtHead
  <2> QED BY <2>1, <2>2, <2>3 DEF Fifo!Next, Fifo!Handle
<1>11. CASE Pop
  <2>1. /\ size' = size /\ data' = data /\ got' = got /\ cpc = "pop" /\ cpc' = "front"
        /\ read_idx' = read_idx + BlkSz(size[read_idx]) /\ size[read_idx] \notin {0, 1}
    BY <1>11 DEF Pop, IInv, Polling
  <2>2. Walk' = Walk
    BY <2>1 DEF Walk, MessageAt
  <2>3. Tail(Contents) = Walk[BLK_CNT][read_idx']
    BY <2>1, ContentsAtHead
  <2>4. Contents' = Tail(Contents)
    BY <2>2, <2>3 DEF Contents
  <2> QED BY <2>1, <2>4 DEF Fifo!Next, Fifo!Pop
<1> QED BY <1>2, <1>3, <1>4, <1>5, <1>6, <1>7, <1>8, <1>9, <1>10, <1>11
        DEF Next, Producer, FinishLog, Consumer

(* The ring implements LogFifo: a message is handled whole, once and in    *)
(* order, whatever the lengths, the number of blocks and the interleaving. *)
THEOREM Refinement == Spec => ImplementsFifo
<1>1. Init => Fifo!Init
  <2> SUFFICES ASSUME Init PROVE Fifo!Init
    OBVIOUS
  <2>1. size[0] = 0 /\ read_idx = 0 /\ got = << >> /\ cpc # "pop" /\ 0 \in Blk
        /\ BLK_CNT \in 0 .. BLK_CNT
    BY QueueAssumption DEF Init, Blk
  <2>2. Contents = << >>
    BY <2>1, WalkStepsNow DEF Contents
  <2> QED BY <2>1, <2>2 DEF Fifo!Init
<1> QED BY <1>1, InitIInv, StepIInv, StepSimulates, PTL
        DEF Spec, ImplementsFifo, Fifo!Spec
=============================================================================
