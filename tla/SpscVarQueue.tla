---------------------------- MODULE SpscVarQueue ----------------------------
(***************************************************************************)
(* SPSCVarQueueOPT of log/fmtlog.h: the ring of blocks through which one   *)
(* thread passes log messages of different lengths to the one that polls.  *)
(* There is no lock.  A message occupies consecutive blocks, the first of  *)
(* which starts with its size; size 0 means that nothing is there yet, and *)
(* size 1 that the producer went on at block 0.                            *)
(*                                                                         *)
(* Each access to memory both threads use is a step of its own, and steps  *)
(* take effect in program order: what an x86-64 build does as long as the  *)
(* compiler keeps the order of the stores.                                 *)
(***************************************************************************)
EXTENDS Integers, Sequences

CONSTANTS
  BLK_CNT,     \* number of blocks (2^17)
  Sizes,       \* argument of allocMsg in bytes, at least 8 (the time stamp)
  Ids          \* messages in flight are told apart by a number below Ids

ASSUME QueueAssumption ==
  /\ BLK_CNT \in Nat \ {0}
  /\ Sizes \subseteq {size \in Nat : size >= 8}
  /\ Ids \in Nat \ {0}

HdrSz == 8     \* sizeof(MsgHeader), also the size of a block
Blk == 0 .. BLK_CNT - 1

(* Blocks needed for so many bytes, header included (alloc and pop).       *)
BlkSz(bytes) == (bytes + HdrSz - 1) \div HdrSz

VARIABLES
  size,            \* blk[i].size
  data,            \* what else is in blk[i]: the message it belongs to
  write_idx, free_write_cnt, read_idx,
  (* the producer: its place in log/allocMsg and its local variables *)
  ppc, id, bytes, read_idx_cache, ret,
  (* the consumer: its place in the loop of poll, the header front returned *)
  cpc, header, got

queueVars == <<size, data, write_idx, free_write_cnt, read_idx>>
producerVars == <<ppc, id, bytes, read_idx_cache, ret>>
consumerVars == <<cpc, header, got>>
vars == <<queueVars, producerVars, consumerVars>>

Init ==
  /\ size = [i \in Blk |-> 0]
  /\ data = [i \in Blk |-> Ids]
  /\ write_idx = 0 /\ free_write_cnt = BLK_CNT /\ read_idx = 0
  /\ ppc = "idle" /\ id = 0 /\ bytes = 0 /\ read_idx_cache = 0 /\ ret = 0
  /\ cpc = "front" /\ header = 0 /\ got = << >>

-----------------------------------------------------------------------------
(* alloc                                                                   *)

blk_sz == BlkSz(bytes)

(* A log statement: room is known to be left, or read_idx is looked up.    *)
Log ==
  /\ ppc = "idle"
  /\ \E sz \in Sizes :
       /\ bytes' = sz + HdrSz
       /\ ppc' = IF BlkSz(bytes') >= free_write_cnt THEN "read" ELSE "reserve"
  /\ UNCHANGED <<queueVars, consumerVars, id, read_idx_cache, ret>>

(* Mutated form: a message may take the last free block, too.              *)
ReserveOrFail_exact(free) == IF free < blk_sz THEN "idle" ELSE "reserve"

(* free_write_cnt <= blk_sz: the message is discarded (FMTLOG_BLOCK = 0).  *)
ReserveOrFail(free) == IF free <= blk_sz THEN "idle" ELSE "reserve"

(* Mutated form: wraps even if the reader still is at block 0.             *)
MustWrap_atZero(cache) == cache <= write_idx /\ blk_sz >= BLK_CNT - write_idx

MustWrap(cache) ==
  cache <= write_idx /\ blk_sz >= BLK_CNT - write_idx /\ cache # 0

(* Mutated form: free_write_cnt is not refreshed from read_idx.            *)
ReadIdx_stale ==
  /\ ppc = "read"
  /\ read_idx_cache' = read_idx
  /\ ppc' = IF MustWrap(read_idx) THEN "wrap" ELSE ReserveOrFail(free_write_cnt)
  /\ UNCHANGED <<size, data, write_idx, free_write_cnt, read_idx, consumerVars,
                 id, bytes, ret>>

ReadIdx ==
  /\ ppc = "read"
  /\ read_idx_cache' = read_idx
  /\ free_write_cnt' = IF read_idx <= write_idx THEN BLK_CNT - write_idx
                                                ELSE read_idx - write_idx
  /\ ppc' = IF MustWrap(read_idx) THEN "wrap" ELSE ReserveOrFail(free_write_cnt')
  /\ UNCHANGED <<size, data, write_idx, read_idx, consumerVars, id, bytes, ret>>

WrapFirst ==
  /\ ppc = "wrap"
  /\ size' = [size EXCEPT ![0] = 0]
  /\ ppc' = "mark"
  /\ UNCHANGED <<data, write_idx, free_write_cnt, read_idx, consumerVars,
                 id, bytes, read_idx_cache, ret>>

WrapMark ==
  /\ ppc = "mark"
  /\ size' = [size EXCEPT ![write_idx] = 1]
  /\ write_idx' = 0
  /\ free_write_cnt' = read_idx_cache
  /\ ppc' = ReserveOrFail(free_write_cnt')
  /\ UNCHANGED <<data, read_idx, consumerVars, id, bytes, read_idx_cache, ret>>

Reserve ==
  /\ ppc = "reserve"
  /\ ret' = write_idx
  /\ write_idx' = write_idx + blk_sz
  /\ free_write_cnt' = free_write_cnt - blk_sz
  /\ size' = [size EXCEPT ![write_idx'] = 0]
  /\ ppc' = "fill"
  /\ UNCHANGED <<data, read_idx, consumerVars, id, bytes, read_idx_cache>>

(* log fills the message in and pushes it.                                 *)
Fill ==
  /\ ppc = "fill"
  /\ data' = [i \in Blk |-> IF ret <= i /\ i < ret + blk_sz THEN id ELSE data[i]]
  /\ ppc' = "push"
  /\ UNCHANGED <<size, write_idx, free_write_cnt, read_idx, consumerVars,
                 id, bytes, read_idx_cache, ret>>

Push ==
  /\ ppc = "push"
  /\ size' = [size EXCEPT ![ret] = bytes]
  /\ id' = (id + 1) % Ids
  /\ ppc' = "idle"
  /\ UNCHANGED <<data, write_idx, free_write_cnt, read_idx, consumerVars,
                 bytes, read_idx_cache, ret>>

FinishLog == ReadIdx \/ WrapFirst \/ WrapMark \/ Reserve \/ Fill \/ Push

Producer == Log \/ FinishLog

-----------------------------------------------------------------------------
(* front, handleLog and pop                                                *)

(* front has read the size of the block at idx.                            *)
Found(idx) ==
  IF size[idx] = 0 THEN cpc' = "front" /\ UNCHANGED header
                   ELSE cpc' = "handle" /\ header' = idx

(* Mutated form: the wrap mark is taken for an empty queue.                *)
Front_ignoresMark ==
  /\ cpc = "front"
  /\ IF size[read_idx] = 1 THEN UNCHANGED <<cpc, header>> ELSE Found(read_idx)
  /\ UNCHANGED <<queueVars, producerVars, got>>

Front ==
  /\ cpc = "front"
  /\ IF size[read_idx] = 1
     THEN read_idx' = 0 /\ cpc' = "first" /\ UNCHANGED header
     ELSE Found(read_idx) /\ UNCHANGED read_idx
  /\ UNCHANGED <<size, data, write_idx, free_write_cnt, producerVars, got>>

FrontFirst ==
  /\ cpc = "first"
  /\ Found(0)
  /\ UNCHANGED <<queueVars, producerVars, got>>

(* The contents of a message of so many bytes that begins at block i.      *)
MessageAt(i, sz) == [k \in 1 .. BlkSz(sz) |-> data[i + k - 1]]

Handle ==
  /\ cpc = "handle"
  /\ got' = MessageAt(header, size[header])
  /\ cpc' = "pop"
  /\ UNCHANGED <<queueVars, producerVars, header>>

Pop ==
  /\ cpc = "pop"
  /\ read_idx' = read_idx + BlkSz(size[read_idx])
  /\ cpc' = "front"
  /\ UNCHANGED <<size, data, write_idx, free_write_cnt, producerVars, header, got>>

Consumer == Front \/ FrontFirst \/ Handle \/ Pop

Next == Producer \/ Consumer

Spec == Init /\ [][Next]_vars

(* The polling thread keeps polling; a log statement that was begun ends.  *)
FairSpec == Spec /\ WF_vars(Consumer) /\ WF_vars(FinishLog)

-----------------------------------------------------------------------------
(* Properties                                                              *)

TypeOK ==
  /\ size \in [Blk -> Nat]
  /\ data \in [Blk -> 0 .. Ids]
  /\ write_idx \in Blk /\ free_write_cnt \in 0 .. BLK_CNT /\ read_idx \in Blk
  /\ ppc \in {"idle", "read", "wrap", "mark", "reserve", "fill", "push"}
  /\ id \in 0 .. Ids - 1
  /\ bytes \in Nat /\ read_idx_cache \in Blk /\ ret \in Blk
  /\ cpc \in {"front", "first", "handle", "pop"}
  /\ header \in Blk
  /\ got \in Seq(0 .. Ids)

(* The messages a walk through the ring of at most so many steps comes     *)
(* across from block i, in the way the consumer walks.                     *)
Walk[steps \in 0 .. BLK_CNT] == [i \in Blk |->
  IF steps = 0 \/ size[i] = 0 THEN << >>
  ELSE IF size[i] = 1 THEN Walk[steps - 1][0]
  ELSE IF i + BlkSz(size[i]) \notin Blk THEN << >>
  ELSE <<MessageAt(i, size[i])>> \o Walk[steps - 1][i + BlkSz(size[i])]]

Contents == Walk[BLK_CNT][read_idx]

Messages == {[k \in 1 .. BlkSz(sz + HdrSz) |-> m] : sz \in Sizes, m \in 0 .. Ids - 1}

(* No block outside the array is written or read: the block behind a       *)
(* message, which is marked empty, is always there.                        *)
InBounds ==
  /\ ppc = "reserve" => write_idx + blk_sz \in Blk
  /\ cpc \in {"handle", "pop"} => header + BlkSz(size[header]) \in Blk

(* The ring implements a FIFO queue: whatever the interleaving, a message  *)
(* is handled whole, once and in order.                                    *)
Fifo == INSTANCE LogFifo WITH queue <- Contents, handled <- cpc = "pop"
ImplementsFifo == Fifo!Spec

(* A message that has been pushed is handled in the end.                   *)
PushedIsHandled ==
  \A m \in 0 .. Ids - 1 :
    ppc = "push" /\ id = m ~> got # << >> /\ got[1] = m

(* A thread that keeps logging gets messages through again and again: it   *)
(* is impossible that every message is discarded from some point on, even  *)
(* if each of them needs nearly the whole ring.                            *)
KeepsAccepting == []<>(ppc # "idle") => []<>(ppc = "push")
=============================================================================
