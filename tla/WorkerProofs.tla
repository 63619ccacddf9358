---------------------------- MODULE WorkerProofs ----------------------------
(***************************************************************************)
(* The inductive invariant of a worker process, for pools, descriptor      *)
(* tables, queues and sets of clients of any size.  To the tables and the  *)
(* events of module WorkerPoolProofs it adds the package buffers and the   *)
(* sessions of the clients.                                                *)
(***************************************************************************)
EXTENDS WorkerPoolProofs

(* The header in front of a package that is being received.                *)
HeldHeader ==
  \A c \in Conns : pool.conn[c].ifnewrecvMem =>
    /\ pool.conn[c].pnewMemPointer \in Bufs
    /\ heap[pool.conn[c].pnewMemPointer] = MsgHeader(c)

QueueBounded == Len(m_MsgRecvQueue) < QHigh

Memory == BufferOwnership /\ HeldHeader /\ QueueBounded

(* A queued message names a connection and a client that was connected.    *)
QueuedHeaders ==
  \A b \in Queue :
    /\ heap[b].pConn \in Conns
    /\ heap[b].iCurrsequence <= pool.conn[heap[b].pConn].iCurrsequence
    /\ heap[b].from \in Clients
    /\ peer[heap[b].from] # "absent"

(* A client waits at one socket only, and has not been connected before.   *)
Waiting ==
  \A l \in Listeners : \A client \in backlog[l] :
    /\ peer[client] # "absent"
    /\ \A fd \in ConnFds : file[fd] # client
    /\ \A b \in Queue : heap[b].from # client
    /\ \A k \in Listeners : client \in backlog[k] => k = l

Connected == \A fd \in ConnFds : file[fd] # NoClient => peer[file[fd]] # "absent"

Sessions == SequenceIdentifiesSession /\ QueuedHeaders /\ Waiting /\ Connected

IInv == TypeOK /\ Tables /\ Events /\ Memory /\ Sessions

(* The part of TypeOK about the rest.                                      *)
OtherTypes ==
  /\ exited \in BOOLEAN
  /\ heap \in [Bufs -> [pConn : Conns \cup {nullptr}, iCurrsequence : Nat,
                        from : Clients \cup {NoClient}]]
  /\ m_MsgRecvQueue \in Seq(Bufs)
  /\ use_accept4 \in BOOLEAN
  /\ backlog \in [Listeners -> SUBSET Clients]
  /\ blocking \subseteq ConnFds
  /\ peer \in [Clients -> {"absent", "alive", "fin", "reset", "over"}]
  /\ unread \in [Clients -> BOOLEAN]

(* The type invariant, split by who changes the variables.                 *)
LEMMA TypeParts == TypeOK <=> TableTypes /\ EventTypes /\ OtherTypes
BY DEF TypeOK, TableTypes, EventTypes, OtherTypes

-----------------------------------------------------------------------------
(* Counting buffers                                                        *)

(* The connections that hold a buffer.                                     *)
Holders == {d \in Conns : pool.conn[d].ifnewrecvMem}

(* At most one buffer per connection is being filled.                      *)
LEMMA HeldCount ==
  ASSUME NEW S \in SUBSET Conns, Holders \subseteq S
  PROVE  /\ IsFiniteSet(Held) /\ IsFiniteSet(S)
         /\ Cardinality(Held) \in Nat /\ Cardinality(S) \in Nat
         /\ Cardinality(Held) <= Cardinality(S)
<1> DEFINE f == [d \in Holders |-> pool.conn[d].pnewMemPointer]
<1>1. IsFiniteSet(Conns)
  BY PoolAssumption, FS_Interval DEF Conns
<1>2. IsFiniteSet(S) /\ Cardinality(S) \in Nat
  BY <1>1, FS_Subset, FS_CardinalityType
<1>3. /\ IsFiniteSet(Holders) /\ Cardinality(Holders) \in Nat
      /\ Cardinality(Holders) <= Cardinality(S)
  BY <1>2, FS_Subset, FS_CardinalityType
<1>4. f \in Surjection(Holders, Held)
  BY DEF Held, Holders, Surjection
<1>5. IsFiniteSet(Held) /\ Cardinality(Held) <= Cardinality(Holders)
  BY <1>3, <1>4, FS_Surjection
<1>6. Cardinality(Held) \in Nat
  BY <1>5, FS_CardinalityType
<1> QED BY <1>2, <1>3, <1>5, <1>6

(* Fewer than QHigh buffers are queued.                                    *)
LEMMA QueueCount ==
  ASSUME m_MsgRecvQueue \in Seq(Bufs), QueueBounded
  PROVE  /\ IsFiniteSet(Queue) /\ Cardinality(Queue) \in Nat
         /\ Cardinality(Queue) <= QHigh - 1
<1> DEFINE n == Len(m_MsgRecvQueue)
<1>1. n \in Nat /\ m_MsgRecvQueue \in [1 .. n -> Bufs] /\ n < QHigh /\ QHigh \in Nat
  BY WorkerAssumption DEF QueueBounded
<1> HIDE DEF n
<1>2. IsFiniteSet(1 .. n) /\ Cardinality(1 .. n) = n
  BY <1>1, FS_Interval
<1>3. m_MsgRecvQueue \in Surjection(1 .. n, Queue)
  BY <1>1 DEF Queue, Surjection
<1>4. IsFiniteSet(Queue) /\ Cardinality(Queue) <= n
  BY <1>2, <1>3, FS_Surjection
<1>5. Cardinality(Queue) \in Nat
  BY <1>4, FS_CardinalityType
<1> QED BY <1>1, <1>4, <1>5

(* Both together, for any set of connections that includes the holders.    *)
LEMMA LiveCount ==
  ASSUME TypeOK, Memory, NEW S \in SUBSET Conns, Holders \subseteq S
  PROVE  /\ IsFiniteSet(Live) /\ Cardinality(Live) \in Nat /\ Cardinality(S) \in Nat
         /\ Cardinality(Live) <= QHigh - 1 + Cardinality(S)
<1>1. /\ IsFiniteSet(Held) /\ Cardinality(Held) \in Nat /\ Cardinality(S) \in Nat
      /\ Cardinality(Held) <= Cardinality(S)
  BY HeldCount
<1>2. /\ IsFiniteSet(Queue) /\ Cardinality(Queue) \in Nat
      /\ Cardinality(Queue) <= QHigh - 1
  BY QueueCount DEF TypeOK, Memory
<1>3. Live = Queue \cup Held /\ Queue \cap Held = {}
  BY DEF Memory, BufferOwnership
<1>4. IsFiniteSet(Live) /\ Cardinality(Live) = Cardinality(Queue) + Cardinality(Held)
  <2>1. Cardinality(Queue \cap Held) = 0
    BY <1>3, FS_EmptySet
  <2>2. /\ IsFiniteSet(Queue \cup Held)
        /\ Cardinality(Queue \cup Held)
             = Cardinality(Queue) + Cardinality(Held) - Cardinality(Queue \cap Held)
    BY <1>1, <1>2, FS_Union
  <2> QED BY <1>1, <1>2, <1>3, <2>1, <2>2
<1> QED BY <1>1, <1>2, <1>4, WorkerAssumption

(* A connection that waits for a header holds no buffer and finds one that *)
(* is free.                                                                *)
LEMMA RoomForHeader ==
  ASSUME TypeOK, Memory, NEW c \in Conns, pool.conn[c].rx.curStat \in HeadStats
  PROVE  /\ ~ pool.conn[c].ifnewrecvMem
         /\ AllocMemory \in Bufs /\ heap[AllocMemory] = Unallocated
         /\ AllocMemory \notin Queue /\ AllocMemory \notin Held
<1>1. pool.conn[c].rx.curStat \notin BodyStats
  BY ConnTypes, RxTypes DEF TypeOK
<1>2. ~ pool.conn[c].ifnewrecvMem
  BY <1>1 DEF Memory, BufferOwnership
<1> DEFINE S == Conns \ {c}
<1>3. Holders \subseteq S /\ S \in SUBSET Conns
  BY <1>2 DEF Holders
<1>4. Cardinality(S) = PoolSize - 1 /\ PoolSize \in Nat
  <2>1. IsFiniteSet(Conns) /\ Cardinality(Conns) = PoolSize
    BY PoolAssumption, FS_Interval DEF Conns
  <2> QED BY <2>1, FS_RemoveElement, PoolAssumption
<1> HIDE DEF S
<1>5. /\ IsFiniteSet(Live) /\ Cardinality(Live) \in Nat
      /\ Cardinality(Live) <= QHigh - 1 + Cardinality(S)
  BY <1>3, LiveCount
<1>6. Cardinality(Live) < Cardinality(Bufs)
  <2>1. Cardinality(Bufs) \in Nat /\ Cardinality(Bufs) >= PoolSize + QHigh - 1
    BY MemoryAssumption, FS_CardinalityType
  <2> QED BY <1>4, <1>5, <2>1, WorkerAssumption
<1>7. \E b \in Bufs : heap[b] = Unallocated
  <2>1. Live # Bufs
    BY <1>5, <1>6
  <2> QED BY <2>1 DEF Live
<1>8. AllocMemory \in Bufs /\ heap[AllocMemory] = Unallocated
  BY <1>7 DEF AllocMemory
<1>9. AllocMemory \notin Live
  BY <1>8 DEF Live
<1> QED BY <1>2, <1>8, <1>9 DEF Memory, BufferOwnership

(* AllocMemory never fails.                                                *)
LEMMA RoomAlways ==
  ASSUME TypeOK, Memory, NEW c \in Conns
  PROVE  Room(c)
BY RoomForHeader DEF Room

-----------------------------------------------------------------------------
(* The message queue                                                       *)

(* Into the queue and, when it is full, the oldest messages out of it.     *)
LEMMA QueueIn ==
  ASSUME OtherTypes, Memory, NEW h \in [Bufs -> [pConn : Conns \cup {nullptr},
                                                iCurrsequence : Nat,
                                                from : Clients \cup {NoClient}]],
         NEW buf \in Bufs, buf \notin Queue, InMsgRecvQueue(h, buf)
  PROVE  /\ m_MsgRecvQueue' \in Seq(Bufs) /\ QueueBounded'
         /\ \A i, j \in DOMAIN m_MsgRecvQueue' :
              m_MsgRecvQueue'[i] = m_MsgRecvQueue'[j] => i = j
         /\ Queue' \subseteq Queue \cup {buf}
         /\ heap' \in [Bufs -> [pConn : Conns \cup {nullptr}, iCurrsequence : Nat,
                                from : Clients \cup {NoClient}]]
         /\ \A b \in Bufs : heap'[b] = IF b \in (Queue \cup {buf}) \ Queue'
                                       THEN Unallocated ELSE h[b]
<1> DEFINE q == Append(m_MsgRecvQueue, buf)
           ex == Excess(q)
           n == Len(m_MsgRecvQueue)
           new == SubSeq(q, ex + 1, Len(q))
           dropped == {q[i] : i \in 1 .. ex}
<1>1. /\ m_MsgRecvQueue \in Seq(Bufs) /\ n \in Nat /\ n < QHigh
      /\ QHigh \in Nat /\ QLow \in Nat /\ QLow < QHigh
  BY WorkerAssumption DEF OtherTypes, Memory, QueueBounded
<1>2. /\ q \in Seq(Bufs) /\ Len(q) = n + 1 /\ q[n + 1] = buf
      /\ \A i \in 1 .. n : q[i] = m_MsgRecvQueue[i]
  BY <1>1
<1>3. /\ ex \in 0 .. n + 1
      /\ n + 1 - ex \in 0 .. QHigh - 1
  BY <1>1, <1>2 DEF Excess
<1>4. m_MsgRecvQueue' = new /\ heap' = [b \in Bufs |-> IF b \in dropped THEN Unallocated ELSE h[b]]
  BY DEF InMsgRecvQueue
<1>5. \A i, j \in 1 .. n + 1 : q[i] = q[j] => i = j
  <2>1. \A i, j \in 1 .. n : m_MsgRecvQueue[i] = m_MsgRecvQueue[j] => i = j
    BY <1>1 DEF Memory, BufferOwnership
  <2>2. \A i \in 1 .. n : m_MsgRecvQueue[i] # buf
    BY <1>1 DEF Queue
  <2> HIDE DEF q, n
  <2>3. \A i \in 1 .. n + 1 : i \in 1 .. n \/ i = n + 1
    BY <1>1
  <2> QED BY <1>2, <2>1, <2>2, <2>3
<1>6. /\ new \in Seq(Bufs) /\ Len(new) = n + 1 - ex /\ DOMAIN new = 1 .. n + 1 - ex
      /\ \A i \in 1 .. n + 1 - ex : new[i] = q[i + ex]
  <2> HIDE DEF q, ex, n
  <2> QED BY <1>1, <1>2, <1>3
<1>7. {q[i] : i \in 1 .. n + 1} = Queue \cup {buf}
  <2>1. Queue = {m_MsgRecvQueue[i] : i \in 1 .. n}
    BY <1>1 DEF Queue
  <2> HIDE DEF q, n
  <2>2. \A i \in 1 .. n + 1 : i \in 1 .. n \/ i = n + 1
    BY <1>1
  <2>3. \A i \in 1 .. n : i \in 1 .. n + 1
    BY <1>1
  <2>4. n + 1 \in 1 .. n + 1
    BY <1>1
  <2>5. ASSUME NEW i \in 1 .. n + 1
        PROVE  q[i] \in Queue \cup {buf}
    <3>1. CASE i \in 1 .. n
      BY <1>2, <2>1, <3>1
    <3>2. CASE i = n + 1
      BY <1>2, <3>2
    <3> QED BY <2>2, <3>1, <3>2
  <2>6. ASSUME NEW b \in Queue \cup {buf}
        PROVE  \E i \in 1 .. n + 1 : b = q[i]
    <3>1. CASE b = buf
      BY <1>2, <2>4, <3>1
    <3>2. CASE b \in Queue
      BY <1>2, <2>1, <2>3, <3>2
    <3> QED BY <2>6, <3>1, <3>2
  <2> QED BY <2>5, <2>6
<1>8. Queue' = {q[i] : i \in ex + 1 .. n + 1}
  <2> HIDE DEF q, ex, n, new
  <2>1. Queue' = {new[i] : i \in 1 .. n + 1 - ex}
    BY <1>4, <1>6 DEF Queue
  <2>2. \A i \in 1 .. n + 1 - ex : i + ex \in ex + 1 .. n + 1
    BY <1>1, <1>3
  <2>3. \A k \in ex + 1 .. n + 1 : k - ex \in 1 .. n + 1 - ex /\ (k - ex) + ex = k
    BY <1>1, <1>3
  <2>4. \A k \in ex + 1 .. n + 1 : new[k - ex] = q[k]
    BY <1>6, <2>3
  <2>5. ASSUME NEW b \in Queue'
        PROVE  b \in {q[i] : i \in ex + 1 .. n + 1}
    <3>1. PICK i \in 1 .. n + 1 - ex : b = new[i]
      BY <2>1, <2>5
    <3> QED BY <1>6, <2>2, <3>1
  <2>6. ASSUME NEW k \in ex + 1 .. n + 1
        PROVE  q[k] \in Queue'
    BY <2>1, <2>3, <2>4
  <2> QED BY <2>5, <2>6
<1> HIDE DEF q, ex, n, new
<1>9. \A i, j \in DOMAIN m_MsgRecvQueue' :
        m_MsgRecvQueue'[i] = m_MsgRecvQueue'[j] => i = j
  <2>1. ASSUME NEW i \in 1 .. n + 1 - ex, NEW j \in 1 .. n + 1 - ex, new[i] = new[j]
        PROVE  i = j
    <3>1. i + ex \in 1 .. n + 1 /\ j + ex \in 1 .. n + 1 /\ q[i + ex] = q[j + ex]
      BY <1>1, <1>3, <1>6, <2>1
    <3>2. i + ex = j + ex
      BY <1>5, <3>1
    <3> QED BY <1>1, <1>3, <3>2
  <2> QED BY <1>4, <1>6, <2>1
<1>10. \A i \in ex + 1 .. n + 1 : i \in 1 .. n + 1
  BY <1>1, <1>3
<1>11. Queue' \subseteq Queue \cup {buf}
  BY <1>7, <1>8, <1>10
<1>12. dropped = (Queue \cup {buf}) \ Queue'
  <2>1. \A i \in 1 .. n + 1 : i \in 1 .. ex \/ i \in ex + 1 .. n + 1
    BY <1>1, <1>3
  <2>2. \A i \in 1 .. ex : i \in 1 .. n + 1 /\ \A k \in ex + 1 .. n + 1 : i # k
    BY <1>1, <1>3
  <2> QED BY <1>5, <1>7, <1>8, <1>10, <2>1, <2>2
<1>13. QueueBounded'
  BY <1>1, <1>3, <1>4, <1>6 DEF QueueBounded
<1> HIDE DEF dropped
<1>14. heap' \in [Bufs -> [pConn : Conns \cup {nullptr}, iCurrsequence : Nat,
                           from : Clients \cup {NoClient}]]
  <2>1. Unallocated \in [pConn : Conns \cup {nullptr}, iCurrsequence : Nat,
                         from : Clients \cup {NoClient}]
    BY DEF Unallocated
  <2> QED BY <1>4, <2>1
<1> QED BY <1>4, <1>6, <1>9, <1>11, <1>12, <1>13, <1>14

-----------------------------------------------------------------------------
(* Owners of buffers                                                       *)

(* Connection d holds what it held, for the same client.                   *)
SameHolder(d) ==
  /\ pool'.conn[d].ifnewrecvMem = pool.conn[d].ifnewrecvMem
  /\ pool.conn[d].ifnewrecvMem =>
       /\ pool'.conn[d].pnewMemPointer = pool.conn[d].pnewMemPointer
       /\ MsgHeader(d)' = MsgHeader(d)
  /\ (ServesClient(d) /\ pool.conn[d].rx.curStat \in BodyStats)'
       <=> ServesClient(d) /\ pool.conn[d].rx.curStat \in BodyStats

(* No buffer moves and every connection holds what it held.                *)
LEMMA MemoryKept ==
  ASSUME TypeOK, Memory, UNCHANGED <<heap, m_MsgRecvQueue>>, \A d \in Conns : SameHolder(d)
  PROVE  Memory'
<1>1. Queue' = Queue /\ Live' = Live /\ QueueBounded'
  BY DEF Queue, Live, Memory, QueueBounded
<1>2. Held' = Held
  BY DEF Held, SameHolder
<1>3. BufferOwnership'
  <2>1. \A i, j \in DOMAIN m_MsgRecvQueue' : m_MsgRecvQueue'[i] = m_MsgRecvQueue'[j] => i = j
    BY DEF Memory, BufferOwnership
  <2>2. \A c, d \in Conns :
          /\ pool'.conn[c].ifnewrecvMem /\ pool'.conn[d].ifnewrecvMem
          /\ pool'.conn[c].pnewMemPointer = pool'.conn[d].pnewMemPointer
          => c = d
    BY DEF Memory, BufferOwnership, SameHolder
  <2>3. \A c \in Conns : pool'.conn[c].ifnewrecvMem
          <=> (ServesClient(c) /\ pool.conn[c].rx.curStat \in BodyStats)'
    BY DEF Memory, BufferOwnership, SameHolder
  <2>4. Live' = Queue' \cup Held' /\ Queue' \cap Held' = {}
    BY <1>1, <1>2 DEF Memory, BufferOwnership
  <2> QED BY <2>1, <2>2, <2>3, <2>4 DEF BufferOwnership
<1>4. HeldHeader'
  BY DEF Memory, HeldHeader, SameHolder
<1> QED BY <1>1, <1>3, <1>4 DEF Memory

(* What the buffers are when connection c changes as well.                 *)
Holds(c) == pool.conn[c].ifnewrecvMem
ForBody(c) == ServesClient(c) /\ pool.conn[c].rx.curStat \in BodyStats
Buffer(c) == pool.conn[c].pnewMemPointer

(* The buffers that are being filled, connection by connection.            *)
LEMMA HolderFacts ==
  ASSUME TypeOK, Memory
  PROVE  /\ Held = {Buffer(d) : d \in Holders}
         /\ Holders = {d \in Conns : Holds(d)}
         /\ \A d \in Conns : Holds(d) <=> ForBody(d)
         /\ \A d \in Conns : Holds(d) =>
              /\ Buffer(d) \in Bufs /\ heap[Buffer(d)] = MsgHeader(d)
              /\ Buffer(d) \in Held /\ Buffer(d) \in Live /\ Buffer(d) \notin Queue
         /\ \A d, e \in Conns : Holds(d) /\ Holds(e) /\ Buffer(d) = Buffer(e) => d = e
<1>1. Held = {Buffer(d) : d \in Holders} /\ Holders = {d \in Conns : Holds(d)}
  BY DEF Held, Holders, Holds, Buffer
<1>2. \A d \in Conns : Holds(d) <=> ForBody(d)
  BY DEF Memory, BufferOwnership, Holds, ForBody
<1>3. \A d, e \in Conns : Holds(d) /\ Holds(e) /\ Buffer(d) = Buffer(e) => d = e
  BY DEF Memory, BufferOwnership, Holds, Buffer
<1>4. \A d \in Conns : Holds(d) => Buffer(d) \in Bufs /\ heap[Buffer(d)] = MsgHeader(d)
  BY DEF Memory, HeldHeader, Holds, Buffer
<1>5. \A d \in Conns : Holds(d) => Buffer(d) \in Held /\ Buffer(d) \in Live /\ Buffer(d) \notin Queue
  BY <1>1 DEF Memory, BufferOwnership
<1> QED BY <1>1, <1>2, <1>3, <1>4, <1>5

(* The same in the next state, from the connections one by one.            *)
LEMMA MemoryFrom ==
  ASSUME \A d \in Conns : Holds(d)' <=> ForBody(d)',
         \A d \in Conns : Holds(d)' => Buffer(d)' \in Bufs /\ heap'[Buffer(d)'] = MsgHeader(d)',
         \A d, e \in Conns : Holds(d)' /\ Holds(e)' /\ Buffer(d)' = Buffer(e)' => d = e,
         \A i, j \in DOMAIN m_MsgRecvQueue' : m_MsgRecvQueue'[i] = m_MsgRecvQueue'[j] => i = j,
         QueueBounded', Queue' \subseteq Bufs,
         \A d \in Conns : Holds(d)' => Buffer(d)' \notin Queue',
         \A b \in Bufs : heap'[b] # Unallocated
                           <=> b \in Queue' \/ \E d \in Conns : Holds(d)' /\ Buffer(d)' = b
  PROVE  Memory'
<1>1. Held' = {Buffer(d)' : d \in {e \in Conns : Holds(e)'}}
  BY DEF Held, Holds, Buffer
<1>2. Live' = {b \in Bufs : heap'[b] # Unallocated}
  BY DEF Live
<1>3. Live' = Queue' \cup Held' /\ Queue' \cap Held' = {}
  BY <1>1, <1>2
<1>4. BufferOwnership'
  BY <1>3 DEF BufferOwnership, Holds, ForBody, Buffer
<1>5. HeldHeader'
  BY DEF HeldHeader, Holds, Buffer
<1> QED BY <1>4, <1>5 DEF Memory

(* The same for a connection that does not change.                         *)
LEMMA SameHolderFacts ==
  ASSUME NEW d, SameHolder(d)
  PROVE  /\ Holds(d)' = Holds(d)
         /\ ForBody(d)' <=> ForBody(d)
         /\ Holds(d) => Buffer(d)' = Buffer(d) /\ MsgHeader(d)' = MsgHeader(d)
BY DEF SameHolder, Holds, ForBody, Buffer

(* The types of the queue and of the headers.                              *)
LEMMA QueueTypes ==
  ASSUME TypeOK
  PROVE  /\ Queue \subseteq Bufs /\ m_MsgRecvQueue \in Seq(Bufs)
         /\ heap \in [Bufs -> [pConn : Conns \cup {nullptr}, iCurrsequence : Nat,
                               from : Clients \cup {NoClient}]]
         /\ \A b \in Bufs : heap[b] # Unallocated <=> b \in Live
BY DEF TypeOK, Queue, Live

(* A connection is closed and its unfinished package freed.                *)
LEMMA MemoryEnds ==
  ASSUME TypeOK, Memory, NEW c \in Conns, \A d \in Conns \ {c} : SameHolder(d),
         ~ Holds(c)', ~ ForBody(c)',
         heap' = IF Holds(c) THEN [heap EXCEPT ![Buffer(c)] = Unallocated] ELSE heap,
         m_MsgRecvQueue' = m_MsgRecvQueue
  PROVE  Memory'
<1>1. Queue' = Queue /\ QueueBounded' /\ Queue \subseteq Bufs
  BY QueueTypes DEF Queue, Memory, QueueBounded
<1>2. \A d \in Conns : Holds(d)' =>
        /\ d # c /\ Holds(d) /\ Buffer(d)' = Buffer(d) /\ MsgHeader(d)' = MsgHeader(d)
  BY SameHolderFacts
<1>3. \A d \in Conns : d # c /\ Holds(d) => Holds(d)'
  BY SameHolderFacts
<1>4. \A d \in Conns : Holds(d)' <=> ForBody(d)'
  BY SameHolderFacts, HolderFacts
<1>5. ASSUME NEW b \in Bufs
      PROVE  heap'[b] = IF Holds(c) /\ b = Buffer(c) THEN Unallocated ELSE heap[b]
  BY QueueTypes
<1>6. ASSUME NEW d \in Conns, Holds(d)'
      PROVE  /\ Buffer(d)' \in Bufs /\ heap'[Buffer(d)'] = MsgHeader(d)'
             /\ Buffer(d)' \notin Queue'
  <2>1. Holds(d) /\ Buffer(d)' = Buffer(d) /\ MsgHeader(d)' = MsgHeader(d) /\ d # c
    BY <1>2, <1>6
  <2>2. /\ Buffer(d) \in Bufs /\ heap[Buffer(d)] = MsgHeader(d) /\ Buffer(d) \notin Queue
        /\ ~ (Holds(c) /\ Buffer(d) = Buffer(c))
    BY <2>1, HolderFacts
  <2> QED BY <1>1, <1>5, <2>1, <2>2
<1>7. ASSUME NEW b \in Bufs
      PROVE  heap'[b] # Unallocated
               <=> b \in Queue' \/ \E d \in Conns : Holds(d)' /\ Buffer(d)' = b
  <2>1. heap[b] # Unallocated <=> b \in Queue \/ \E d \in Conns : Holds(d) /\ Buffer(d) = b
    BY QueueTypes, HolderFacts DEF Memory, BufferOwnership
  <2>2. CASE Holds(c) /\ b = Buffer(c)
    <3>1. b \notin Queue /\ \A d \in Conns : Holds(d) /\ Buffer(d) = b => d = c
      BY <2>2, HolderFacts
    <3> QED BY <1>1, <1>2, <1>5, <2>2, <3>1
  <2>3. CASE ~ (Holds(c) /\ b = Buffer(c))
    <3>1. (\E d \in Conns : Holds(d)' /\ Buffer(d)' = b) <=> \E d \in Conns : Holds(d) /\ Buffer(d) = b
      BY <1>2, <1>3, <2>3
    <3> QED BY <1>1, <1>5, <2>1, <2>3, <3>1
  <2> QED BY <2>2, <2>3
<1>8. \A d, e \in Conns : Holds(d)' /\ Holds(e)' /\ Buffer(d)' = Buffer(e)' => d = e
  BY <1>2, HolderFacts
<1>9. \A i, j \in DOMAIN m_MsgRecvQueue' : m_MsgRecvQueue'[i] = m_MsgRecvQueue'[j] => i = j
  BY DEF Memory, BufferOwnership
<1> QED BY <1>1, <1>4, <1>6, <1>7, <1>8, <1>9, MemoryFrom

(* A connection takes a free buffer for a package.                         *)
LEMMA MemoryStarts ==
  ASSUME TypeOK, Memory, NEW c \in Conns, \A d \in Conns \ {c} : SameHolder(d),
         ~ Holds(c), Holds(c)', ForBody(c)',
         NEW buf \in Bufs, heap[buf] = Unallocated, Buffer(c)' = buf,
         heap' = [heap EXCEPT ![buf] = MsgHeader(c)], MsgHeader(c)' = MsgHeader(c),
         m_MsgRecvQueue' = m_MsgRecvQueue
  PROVE  Memory'
<1>1. Queue' = Queue /\ QueueBounded' /\ Queue \subseteq Bufs
  BY QueueTypes DEF Queue, Memory, QueueBounded
<1>2. \A d \in Conns : Holds(d)' /\ d # c =>
        Holds(d) /\ Buffer(d)' = Buffer(d) /\ MsgHeader(d)' = MsgHeader(d)
  BY SameHolderFacts
<1>3. \A d \in Conns : Holds(d) => d # c /\ Holds(d)' /\ Buffer(d)' = Buffer(d)
  BY SameHolderFacts
<1>4. \A d \in Conns : Holds(d)' <=> ForBody(d)'
  BY SameHolderFacts, HolderFacts
<1>5. ASSUME NEW b \in Bufs
      PROVE  heap'[b] = IF b = buf THEN MsgHeader(c) ELSE heap[b]
  BY QueueTypes
<1>6. buf \notin Live /\ buf \notin Queue /\ \A d \in Conns : Holds(d) => Buffer(d) # buf
  BY QueueTypes, HolderFacts DEF Memory, BufferOwnership
<1>7. MsgHeader(c) # Unallocated
  <2>1. MsgHeader(c).pConn = c /\ Unallocated.pConn = 0 /\ c # 0
    BY DEF MsgHeader, Unallocated, nullptr, Conns
  <2> QED BY <2>1
<1>8. ASSUME NEW d \in Conns, Holds(d)'
      PROVE  /\ Buffer(d)' \in Bufs /\ heap'[Buffer(d)'] = MsgHeader(d)'
             /\ Buffer(d)' \notin Queue'
  <2>1. CASE d = c
    BY <2>1, <1>1, <1>5, <1>6
  <2>2. CASE d # c
    <3>1. /\ Holds(d) /\ Buffer(d)' = Buffer(d) /\ MsgHeader(d)' = MsgHeader(d)
          /\ Buffer(d) \in Bufs /\ heap[Buffer(d)] = MsgHeader(d) /\ Buffer(d) \notin Queue
      BY <1>2, <1>8, <2>2, HolderFacts
    <3> QED BY <1>1, <1>5, <1>6, <3>1
  <2> QED BY <2>1, <2>2
<1>9. ASSUME NEW b \in Bufs
      PROVE  heap'[b] # Unallocated
               <=> b \in Queue' \/ \E d \in Conns : Holds(d)' /\ Buffer(d)' = b
  <2>1. heap[b] # Unallocated <=> b \in Queue \/ \E d \in Conns : Holds(d) /\ Buffer(d) = b
    BY QueueTypes, HolderFacts DEF Memory, BufferOwnership
  <2>2. CASE b = buf
    BY <1>5, <1>7, <2>2
  <2>3. CASE b # buf
    <3>1. (\E d \in Conns : Holds(d)' /\ Buffer(d)' = b) <=> \E d \in Conns : Holds(d) /\ Buffer(d) = b
      BY <1>2, <1>3, <2>3
    <3> QED BY <1>1, <1>5, <2>1, <2>3, <3>1
  <2> QED BY <2>2, <2>3
<1>10. \A d, e \in Conns : Holds(d)' /\ Holds(e)' /\ Buffer(d)' = Buffer(e)' => d = e
  BY <1>2, <1>6, HolderFacts
<1>11. \A i, j \in DOMAIN m_MsgRecvQueue' : m_MsgRecvQueue'[i] = m_MsgRecvQueue'[j] => i = j
  BY DEF Memory, BufferOwnership
<1> QED BY <1>1, <1>4, <1>8, <1>9, <1>10, <1>11, MemoryFrom

(* A package goes into the queue.                                          *)
LEMMA MemoryQueues ==
  ASSUME TypeOK, Memory, NEW c \in Conns, \A d \in Conns \ {c} : SameHolder(d),
         ~ Holds(c)', ~ ForBody(c)',
         NEW buf \in Bufs, buf \notin Queue, \A d \in Conns \ {c} : Holds(d) => Buffer(d) # buf,
         Holds(c) => Buffer(c) = buf,
         NEW h \in [Bufs -> [pConn : Conns \cup {nullptr}, iCurrsequence : Nat,
                             from : Clients \cup {NoClient}]],
         h[buf] # Unallocated, \A b \in Bufs \ {buf} : h[b] = heap[b],
         InMsgRecvQueue(h, buf)
  PROVE  /\ Memory'
         /\ m_MsgRecvQueue' \in Seq(Bufs)
         /\ heap' \in [Bufs -> [pConn : Conns \cup {nullptr}, iCurrsequence : Nat,
                                from : Clients \cup {NoClient}]]
         /\ Queue' \subseteq Queue \cup {buf}
         /\ \A b \in Queue' : heap'[b] = h[b]
<1>1. /\ m_MsgRecvQueue' \in Seq(Bufs) /\ QueueBounded'
      /\ \A i, j \in DOMAIN m_MsgRecvQueue' :
           m_MsgRecvQueue'[i] = m_MsgRecvQueue'[j] => i = j
      /\ Queue' \subseteq Queue \cup {buf}
      /\ heap' \in [Bufs -> [pConn : Conns \cup {nullptr}, iCurrsequence : Nat,
                             from : Clients \cup {NoClient}]]
      /\ \A b \in Bufs : heap'[b] = IF b \in (Queue \cup {buf}) \ Queue'
                                    THEN Unallocated ELSE h[b]
  BY QueueIn, TypeParts
<1>2. Queue \subseteq Bufs /\ Queue' \subseteq Bufs
  BY <1>1, QueueTypes
<1>3. \A d \in Conns : Holds(d)' =>
        /\ d # c /\ Holds(d) /\ Buffer(d)' = Buffer(d) /\ MsgHeader(d)' = MsgHeader(d)
  BY SameHolderFacts
<1>4. \A d \in Conns : d # c /\ Holds(d) => Holds(d)'
  BY SameHolderFacts
<1>5. \A d \in Conns : Holds(d)' <=> ForBody(d)'
  BY SameHolderFacts, HolderFacts
<1>6. ASSUME NEW d \in Conns, Holds(d)'
      PROVE  /\ Buffer(d)' \in Bufs /\ heap'[Buffer(d)'] = MsgHeader(d)'
             /\ Buffer(d)' \notin Queue'
  <2>1. /\ d # c /\ Holds(d) /\ Buffer(d)' = Buffer(d) /\ MsgHeader(d)' = MsgHeader(d)
        /\ Buffer(d) \in Bufs /\ heap[Buffer(d)] = MsgHeader(d) /\ Buffer(d) \notin Queue
    BY <1>3, <1>6, HolderFacts
  <2>2. Buffer(d) # buf
    BY <2>1
  <2> QED BY <1>1, <2>1, <2>2
<1>7. ASSUME NEW b \in Bufs
      PROVE  heap'[b] # Unallocated
               <=> b \in Queue' \/ \E d \in Conns : Holds(d)' /\ Buffer(d)' = b
  <2>1. heap[b] # Unallocated <=> b \in Queue \/ \E d \in Conns : Holds(d) /\ Buffer(d) = b
    BY QueueTypes, HolderFacts DEF Memory, BufferOwnership
  <2>2. CASE b = buf
    <3>1. ~ \E d \in Conns : Holds(d)' /\ Buffer(d)' = b
      BY <1>3, <2>2
    <3> QED BY <1>1, <2>2, <3>1
  <2>3. CASE b # buf
    <3>1. (\E d \in Conns : Holds(d)' /\ Buffer(d)' = b) <=> \E d \in Conns : Holds(d) /\ Buffer(d) = b
      BY <1>3, <1>4, <2>3
    <3>2. CASE b \in Queue
      <4>1. ~ \E d \in Conns : Holds(d) /\ Buffer(d) = b
        BY <3>2, HolderFacts
      <4> QED BY <1>1, <2>1, <2>3, <3>1, <3>2, <4>1
    <3>3. CASE b \notin Queue
      BY <1>1, <2>1, <2>3, <3>1, <3>3
    <3> QED BY <3>2, <3>3
  <2> QED BY <2>2, <2>3
<1>8. \A d, e \in Conns : Holds(d)' /\ Holds(e)' /\ Buffer(d)' = Buffer(e)' => d = e
  BY <1>3, HolderFacts
<1>9. Memory'
  BY <1>1, <1>2, <1>5, <1>6, <1>7, <1>8, MemoryFrom
<1> QED BY <1>1, <1>2, <1>9

-----------------------------------------------------------------------------
(* Sessions                                                                *)

Number(c) == pool.conn[c].iCurrsequence

(* Connection d serves whom it served.                                     *)
SameSession(d) ==
  /\ Number(d)' = Number(d)
  /\ ServesClient(d)' <=> ServesClient(d)
  /\ ServesClient(d) => Client(d)' = Client(d)

(* It was closed or serves somebody from whom no message is queued.        *)
NewSession(d) ==
  /\ Number(d)' > Number(d)
  /\ ServesClient(d)' => \A b \in Queue : heap[b].from # Client(d)'

(* The types of what identifies a session.                                 *)
LEMMA SessionFacts ==
  ASSUME TypeOK, Tables, Sessions
  PROVE  /\ \A d \in Conns : Number(d) \in Nat
         /\ \A d \in Conns : ServesClient(d) =>
              Client(d) \in Clients /\ peer[Client(d)] # "absent"
         /\ \A b \in Bufs : heap[b].iCurrsequence \in Nat
<1>1. \A d \in Conns : Number(d) \in Nat
  BY ConnTypes DEF TypeOK, Number
<1>2. ASSUME NEW d \in Conns, ServesClient(d)
      PROVE  Client(d) \in Clients /\ peer[Client(d)] # "absent"
  <2>1. pool.conn[d].fd \in ConnFds /\ file[pool.conn[d].fd] # NoClient
    BY <1>2 DEF ServesClient, Tables, PoolConserved
  <2> QED BY <2>1 DEF Client, Sessions, Connected, TypeOK
<1>3. \A b \in Bufs : heap[b].iCurrsequence \in Nat
  BY DEF TypeOK
<1> QED BY <1>1, <1>2, <1>3

(* A session that goes on keeps its number, one that begins or ends gets a *)
(* higher number than any queued message has; so the numbers go on telling *)
(* sessions apart.                                                         *)
LEMMA SessionsKept ==
  ASSUME TypeOK, Tables, Sessions, TableTypes',
         \A x \in Clients : peer[x] # "absent" => peer'[x] # "absent",
         \A l \in Listeners : backlog'[l] \subseteq backlog[l],
         \A fd \in ConnFds :
           \/ file'[fd] = file[fd]
           \/ file'[fd] = NoClient
           \/ /\ file'[fd] \in Clients /\ peer'[file'[fd]] # "absent"
              /\ \A l \in Listeners : file'[fd] \notin backlog'[l],
         \A d \in Conns : SameSession(d) \/ NewSession(d),
         \A b \in Queue' :
           \/ b \in Queue /\ heap'[b] = heap[b]
           \/ \E d \in Conns : heap'[b] = MsgHeader(d) /\ ServesClient(d) /\ SameSession(d)
  PROVE  Sessions'
<1>1. \A d \in Conns : Number(d) \in Nat /\ Number(d)' \in Nat
  BY ConnTypes DEF TypeOK, TableTypes, Number
<1>2. ASSUME NEW b \in Queue', NEW d \in Conns,
             heap'[b] = MsgHeader(d), ServesClient(d), SameSession(d)
      PROVE  /\ heap'[b].pConn = d /\ heap'[b].iCurrsequence = Number(d)'
             /\ heap'[b].from = Client(d) /\ heap'[b].from = Client(d)'
             /\ ServesClient(d)' /\ Client(d) \in Clients /\ peer[Client(d)] # "absent"
  BY <1>2, SessionFacts DEF MsgHeader, SameSession, Number
<1>3. ASSUME NEW b \in Queue, NEW c, c = heap[b].pConn
      PROVE  /\ c \in Conns /\ heap[b].iCurrsequence \in Nat
             /\ heap[b].iCurrsequence <= Number(c)
             /\ heap[b].from \in Clients /\ peer[heap[b].from] # "absent"
             /\ heap[b].iCurrsequence = Number(c) <=> ServesClient(c) /\ Client(c) = heap[b].from
  <2>1. b \in Bufs
    BY QueueTypes
  <2> QED BY <1>3, <2>1, SessionFacts
          DEF Sessions, QueuedHeaders, SequenceIdentifiesSession, Number
<1>4. ASSUME NEW b \in Queue'
      PROVE  /\ heap'[b].from \in Clients /\ peer'[heap'[b].from] # "absent"
             /\ \A l \in Listeners : heap'[b].from \notin backlog'[l]
             /\ \E c \in Conns :
                  /\ heap'[b].pConn = c
                  /\ heap'[b].iCurrsequence <= Number(c)'
                  /\ heap'[b].iCurrsequence = Number(c)'
                       <=> ServesClient(c)' /\ Client(c)' = heap'[b].from
  <2>1. CASE b \in Queue /\ heap'[b] = heap[b]
    <3>1. PICK c : c = heap[b].pConn
      OBVIOUS
    <3>2. /\ c \in Conns /\ heap[b].iCurrsequence \in Nat
          /\ heap[b].iCurrsequence <= Number(c)
          /\ heap[b].from \in Clients /\ peer[heap[b].from] # "absent"
          /\ heap[b].iCurrsequence = Number(c) <=> ServesClient(c) /\ Client(c) = heap[b].from
      BY <1>3, <2>1, <3>1
    <3>3. \A l \in Listeners : heap[b].from \notin backlog'[l]
      BY <2>1 DEF Sessions, Waiting
    <3>4. /\ heap[b].iCurrsequence <= Number(c)'
          /\ heap[b].iCurrsequence = Number(c)'
               <=> ServesClient(c)' /\ Client(c)' = heap[b].from
      <4>1. CASE SameSession(c)
        BY <3>2, <4>1 DEF SameSession
      <4>2. CASE NewSession(c)
        <5>1. heap[b].iCurrsequence < Number(c)'
          BY <1>1, <3>2, <4>2 DEF NewSession
        <5>2. ~ (ServesClient(c)' /\ Client(c)' = heap[b].from)
          BY <2>1, <4>2 DEF NewSession
        <5> QED BY <1>1, <3>2, <5>1, <5>2
      <4> QED BY <3>2, <4>1, <4>2
    <3> QED BY <2>1, <3>1, <3>2, <3>3, <3>4
  <2>2. ASSUME NEW d \in Conns, heap'[b] = MsgHeader(d), ServesClient(d), SameSession(d)
        PROVE  /\ heap'[b].from \in Clients /\ peer'[heap'[b].from] # "absent"
               /\ \A l \in Listeners : heap'[b].from \notin backlog'[l]
               /\ \E c \in Conns :
                    /\ heap'[b].pConn = c
                    /\ heap'[b].iCurrsequence <= Number(c)'
                    /\ heap'[b].iCurrsequence = Number(c)'
                         <=> ServesClient(c)' /\ Client(c)' = heap'[b].from
    <3>1. /\ heap'[b].pConn = d /\ heap'[b].iCurrsequence = Number(d)'
          /\ heap'[b].from = Client(d) /\ heap'[b].from = Client(d)'
          /\ ServesClient(d)' /\ Client(d) \in Clients /\ peer[Client(d)] # "absent"
      BY <1>2, <2>2
    <3>2. Client(d) = file[pool.conn[d].fd] /\ pool.conn[d].fd \in ConnFds
      BY <2>2 DEF Client, ServesClient
    <3>3. \A l \in Listeners : Client(d) \notin backlog'[l]
      BY <3>2 DEF Sessions, Waiting
    <3> QED BY <1>1, <3>1, <3>3
  <2> QED BY <2>1, <2>2
<1>5. SequenceIdentifiesSession'
  <2>1. ASSUME NEW b \in Queue', NEW c, c = heap'[b].pConn
        PROVE  heap'[b].iCurrsequence = pool'.conn[c].iCurrsequence
                 <=> ServesClient(c)' /\ Client(c)' = heap'[b].from
    BY <1>4, <2>1 DEF Number
  <2> QED BY <2>1 DEF SequenceIdentifiesSession, ServesClient, InUse, Client
<1>6. QueuedHeaders'
  <2>1. ASSUME NEW b \in Queue', NEW c, c = heap'[b].pConn
        PROVE  c \in Conns /\ heap'[b].iCurrsequence <= pool'.conn[c].iCurrsequence
    BY <1>4, <2>1 DEF Number
  <2> QED BY <1>4, <2>1 DEF QueuedHeaders
<1>7. Waiting'
  <2>1. ASSUME NEW l \in Listeners, NEW client \in backlog'[l]
        PROVE  /\ peer'[client] # "absent"
               /\ \A fd \in ConnFds : file'[fd] # client
               /\ \A b \in Queue' : heap'[b].from # client
               /\ \A k \in Listeners : client \in backlog'[k] => k = l
    <3>1. /\ client \in backlog[l] /\ client \in Clients /\ client # NoClient
          /\ \A k \in Listeners : client \in backlog'[k] => client \in backlog[k]
      BY <2>1, WorkerAssumption DEF TypeOK
    <3>2. /\ peer[client] # "absent" /\ \A fd \in ConnFds : file[fd] # client
          /\ \A k \in Listeners : client \in backlog[k] => k = l
      BY <3>1 DEF Sessions, Waiting
    <3>3. \A fd \in ConnFds : file'[fd] # client
      BY <2>1, <3>1, <3>2
    <3> QED BY <1>4, <2>1, <3>1, <3>2, <3>3
  <2> QED BY <2>1 DEF Waiting
<1>8. Connected'
  <2>1. ASSUME NEW fd \in ConnFds, file'[fd] # NoClient
        PROVE  peer'[file'[fd]] # "absent"
    <3>1. CASE file'[fd] = file[fd]
      BY <2>1, <3>1 DEF Sessions, Connected, TypeOK
    <3> QED BY <2>1, <3>1
  <2> QED BY <2>1 DEF Connected
<1> QED BY <1>5, <1>6, <1>7, <1>8 DEF Sessions

-----------------------------------------------------------------------------
(* Each step keeps the buffers and the sessions                            *)

(* The invariant taken apart.                                              *)
LEMMA Parts ==
  ASSUME IInv
  PROVE  /\ TypeOK /\ TableTypes /\ EventTypes /\ OtherTypes
         /\ Tables /\ Events /\ Memory /\ Sessions
BY TypeParts DEF IInv

(* And put together again.                                                 *)
LEMMA WholeFrom ==
  ASSUME TableTypes', EventTypes', OtherTypes', Tables', Events', Memory', Sessions'
  PROVE  IInv'
BY DEF IInv, TypeOK, TableTypes, EventTypes, OtherTypes

(* The head of the chain serves nobody and holds nothing.                  *)
LEMMA FreeHead ==
  ASSUME IInv, pool.free # << >>
  PROVE  LET h == Head(pool.free) IN
           /\ h \in Conns /\ pool.conn[h].fd = -1
           /\ ~ InUse(h) /\ ~ ServesClient(h) /\ ~ Holds(h) /\ ~ ForBody(h)
<1> DEFINE h == Head(pool.free)
<1>1. /\ pool.free \in Seq(Conns) /\ pool.free_n = Len(pool.free)
      /\ \A c \in Conns : pool.conn[c].fd = -1 <=> \E i \in 1 .. Len(pool.free) : pool.free[i] = c
  BY Parts DEF TableTypes, Pool, Tables, PoolConserved, Conserved
<1>2. h \in Conns /\ h = pool.free[1] /\ Len(pool.free) \in Nat /\ Len(pool.free) > 0
  BY <1>1, TailFacts
<1>3. pool.conn[h].fd = -1
  BY <1>1, <1>2
<1> HIDE DEF h
<1>4. ~ InUse(h) /\ ~ ServesClient(h) /\ ~ ForBody(h)
  BY <1>3 DEF InUse, ServesClient, ForBody
<1> QED BY <1>2, <1>3, <1>4, Parts, HolderFacts DEF h

(* A connection that does not change, nor its client.                      *)
LEMMA Untouched ==
  ASSUME NEW d \in Conns, pool'.conn[d] = pool.conn[d],
         ServesClient(d) => file'[pool.conn[d].fd] = file[pool.conn[d].fd],
         Holds(d) => ServesClient(d)
  PROVE  SameHolder(d) /\ SameSession(d)
<1>1. ServesClient(d)' <=> ServesClient(d)
  BY DEF ServesClient, InUse
<1>2. ServesClient(d) => Client(d)' = Client(d)
  BY DEF Client
<1>3. Holds(d) => MsgHeader(d)' = MsgHeader(d)
  BY <1>2 DEF MsgHeader
<1> QED BY <1>1, <1>2, <1>3 DEF SameHolder, SameSession, Number, Holds

(* The head of the chain is bound, or bound and freed again: nothing else  *)
(* changes in the pool, and whoever it serves next left no message behind. *)
LEMMA BoundHead ==
  ASSUME IInv, TableTypes', pool.free # << >>, UNCHANGED <<heap, m_MsgRecvQueue>>,
         OtherTypes', NEW h, h = Head(pool.free),
         \A d \in Conns \ {h} : pool'.conn[d] = pool.conn[d],
         pool'.conn[h].iCurrsequence > pool.conn[h].iCurrsequence,
         pool'.conn[h].rx = RxStart, pool'.conn[h].ifnewrecvMem = FALSE,
         \A fd \in ConnFds : file[fd] # NoClient => file'[fd] = file[fd],
         \A fd \in ConnFds :
           file'[fd] # file[fd] =>
             /\ file'[fd] \in Clients /\ peer[file'[fd]] # "absent"
             /\ \A l \in Listeners : file'[fd] \notin backlog'[l],
         ServesClient(h)' =>
           \A b \in Queue : heap[b].from # Client(h)',
         \A x \in Clients : peer[x] # "absent" => peer'[x] # "absent",
         \A l \in Listeners : backlog'[l] \subseteq backlog[l]
  PROVE  Memory' /\ Sessions'
<1>1. /\ TypeOK /\ Tables /\ Memory /\ Sessions
      /\ h \in Conns /\ ~ ServesClient(h) /\ ~ Holds(h) /\ ~ ForBody(h)
  BY Parts, FreeHead
<1>2. ASSUME NEW d \in Conns \ {h}
      PROVE  SameHolder(d) /\ SameSession(d)
  <2>1. ServesClient(d) => file'[pool.conn[d].fd] = file[pool.conn[d].fd]
    <3>1. ServesClient(d) => pool.conn[d].fd \in ConnFds /\ file[pool.conn[d].fd] # NoClient
      BY <1>1 DEF ServesClient, Tables, PoolConserved
    <3> QED BY <3>1
  <2>2. Holds(d) => ServesClient(d)
    BY <1>1, HolderFacts DEF ForBody
  <2> QED BY <1>2, <2>1, <2>2, Untouched
<1>3. SameHolder(h)
  <2>1. pool'.conn[h].rx.curStat \notin BodyStats
    BY DEF RxStart, BodyStats
  <2>2. pool'.conn[h].ifnewrecvMem = pool.conn[h].ifnewrecvMem
    BY <1>1, ConnTypes DEF TypeOK, Holds
  <2> QED BY <1>1, <2>1, <2>2 DEF SameHolder, Holds, ForBody
<1>4. NewSession(h)
  BY DEF NewSession, Number
<1>5. Memory'
  BY <1>1, <1>2, <1>3, MemoryKept
<1>6. Queue' = Queue
  BY DEF Queue
<1>7. \A fd \in ConnFds :
        \/ file'[fd] = file[fd]
        \/ file'[fd] = NoClient
        \/ /\ file'[fd] \in Clients /\ peer'[file'[fd]] # "absent"
           /\ \A l \in Listeners : file'[fd] \notin backlog'[l]
  OBVIOUS
<1>8. \A d \in Conns : SameSession(d) \/ NewSession(d)
  BY <1>2, <1>4
<1>9. \A b \in Queue' :
        \/ b \in Queue /\ heap'[b] = heap[b]
        \/ \E d \in Conns : heap'[b] = MsgHeader(d) /\ ServesClient(d) /\ SameSession(d)
  BY <1>6
<1>10. Sessions'
  BY <1>1, <1>7, <1>8, <1>9, SessionsKept
<1> QED BY <1>5, <1>10

(* Nobody is connected or closed and no buffer moves.                      *)
LEMMA NobodyMoves ==
  ASSUME IInv, TableTypes', UNCHANGED <<pool, file, heap, m_MsgRecvQueue>>,
         \A x \in Clients : peer[x] # "absent" => peer'[x] # "absent",
         \A l \in Listeners : backlog'[l] \subseteq backlog[l]
  PROVE  Memory' /\ Sessions'
<1>1. TypeOK /\ Tables /\ Memory /\ Sessions
  BY Parts
<1>2. \A d \in Conns : SameHolder(d) /\ SameSession(d)
  <2>1. ASSUME NEW d \in Conns
        PROVE  SameHolder(d) /\ SameSession(d)
    <3>1. Holds(d) => ServesClient(d)
      BY <1>1, HolderFacts DEF ForBody
    <3> QED BY <3>1, Untouched
  <2> QED BY <2>1
<1>3. Memory'
  BY <1>1, <1>2, MemoryKept
<1>4. Queue' = Queue
  BY DEF Queue
<1>5. Sessions'
  BY <1>1, <1>2, <1>4, SessionsKept
<1> QED BY <1>3, <1>5

(* epoll_init binds a connection to a listening socket.                    *)
LEMMA InitListenerInv ==
  ASSUME IInv, InitListener
  PROVE  IInv'
<1>1. /\ TableTypes /\ EventTypes /\ OtherTypes /\ Tables /\ Events
      /\ pos \in Listeners
  BY Parts DEF InitListener
<1>2. TableTypes' /\ Tables' /\ Events' /\ EventTypes'
  BY <1>1, InitListenerTables
<1>3. UNCHANGED <<heap, m_MsgRecvQueue, use_accept4, backlog, file, blocking, peer, unread>>
  BY DEF InitListener
<1>4. OtherTypes'
  BY <1>1, <1>3 DEF InitListener, OtherTypes
<1>5. Memory' /\ Sessions'
  <2>1. CASE pool' = pool
    BY <1>2, <1>3, <2>1, NobodyMoves
  <2>2. CASE pool' # pool
    <3>1. /\ pool.free # << >>
          /\ pool' = Bind(pool, pos, pos, "event_accept")
      BY <2>2 DEF InitListener, Bind
    <3>2. PICK h : h = Head(pool.free)
      OBVIOUS
    <3>3. Binds(pool, pool', h, pos, pos, "event_accept")
      BY <1>1, <3>1, <3>2, FdFacts, BindChanges DEF TableTypes, Handlers, Listeners
    <3>4. /\ \A d \in Conns \ {h} : pool'.conn[d] = pool.conn[d]
          /\ pool'.conn[h].iCurrsequence > pool.conn[h].iCurrsequence
          /\ pool'.conn[h].rx = RxStart /\ pool'.conn[h].ifnewrecvMem = FALSE
          /\ pool'.conn[h].fd = pos
      <4>1. pool.conn[h].iCurrsequence \in Nat
        BY <1>1, <3>3, ConnTypes DEF TableTypes, Binds
      <4> QED BY <3>3, <4>1 DEF Binds
    <3>5. ~ ServesClient(h)'
      BY <1>1, <3>4, FdFacts DEF ServesClient
    <3> QED BY <1>2, <1>3, <1>4, <3>1, <3>2, <3>4, <3>5, BoundHead
  <2> QED BY <2>1, <2>2
<1> QED BY <1>2, <1>4, <1>5, WholeFrom

(* epoll_wait only fetches events.                                         *)
LEMMA EpollWaitInv ==
  ASSUME IInv, EpollWait
  PROVE  IInv'
<1>1. TableTypes /\ EventTypes /\ OtherTypes /\ Tables /\ Events
  BY Parts
<1>2. Events' /\ EventTypes'
  BY <1>1, EpollWaitEvents
<1>3. UNCHANGED <<pos, exited, pool, heap, m_MsgRecvQueue, use_accept4, kernelVars>>
  BY DEF EpollWait
<1>4. TableTypes' /\ OtherTypes'
  BY <1>1, <1>3 DEF kernelVars, TableTypes, OtherTypes
<1>5. SameUse /\ pos \in Nat /\ pos' = pos
  BY <1>1, <1>3, NothingSameUse DEF kernelVars, TableTypes
<1>6. Tables'
  BY <1>1, <1>5, SameUseTables
<1>7. Memory' /\ Sessions'
  BY <1>3, <1>4, NobodyMoves DEF kernelVars
<1> QED BY <1>2, <1>4, <1>6, <1>7, WholeFrom

-----------------------------------------------------------------------------
(* The clients                                                             *)

(* A step of the kernel or a client that the process does not see yet.     *)
LEMMA OutsideTables ==
  ASSUME IInv, UNCHANGED <<procVars, file, interest, blocking>>
  PROVE  TableTypes' /\ Tables' /\ Events' /\ EventTypes'
<1>1. TableTypes /\ EventTypes /\ OtherTypes /\ Tables /\ Events
  BY Parts
<1>2. SameUse /\ pos \in Nat /\ pos' = pos
  BY <1>1, NothingSameUse DEF procVars, TableTypes
<1>3. Tables'
  BY <1>1, <1>2, SameUseTables
<1>4. TableTypes'
  BY <1>1 DEF procVars, TableTypes
<1>5. Events' /\ EventTypes'
  BY <1>1, EventsWait DEF procVars
<1> QED BY <1>3, <1>4, <1>5

(* A client that was absent is in no table and has sent nothing.           *)
LEMMA ConnectsInv ==
  ASSUME IInv, NEW client \in Clients, NEW l \in Listeners, ClientConnects(client, l)
  PROVE  IInv'
<1>1. /\ TableTypes /\ OtherTypes /\ Memory /\ Sessions /\ Tables /\ TypeOK
      /\ peer[client] = "absent" /\ UNCHANGED <<procVars, file, interest, blocking, unread>>
  BY Parts DEF ClientConnects
<1>2. TableTypes' /\ Tables' /\ Events' /\ EventTypes'
  BY <1>1, OutsideTables
<1>3. UNCHANGED <<pos, exited, pool, m_events, heap, m_MsgRecvQueue, use_accept4>>
  BY <1>1 DEF procVars
<1>4. /\ peer' \in [Clients -> {"absent", "alive", "fin", "reset", "over"}]
      /\ peer'[client] = "alive" /\ \A x \in Clients \ {client} : peer'[x] = peer[x]
  BY <1>1 DEF ClientConnects, OtherTypes
<1>5. /\ backlog' \in [Listeners -> SUBSET Clients]
      /\ \A k \in Listeners : backlog'[k] = IF k = l THEN backlog[k] \cup {client} ELSE backlog[k]
  BY <1>1 DEF ClientConnects, OtherTypes
<1>6. OtherTypes'
  BY <1>1, <1>3, <1>4, <1>5 DEF OtherTypes
<1>7. \A d \in Conns : SameHolder(d) /\ SameSession(d)
  <2>1. ASSUME NEW d \in Conns
        PROVE  SameHolder(d) /\ SameSession(d)
    <3>1. Holds(d) => ServesClient(d)
      BY <1>1, HolderFacts DEF ForBody
    <3> QED BY <1>1, <1>3, <3>1, Untouched
  <2> QED BY <2>1
<1>8. Memory'
  BY <1>1, <1>3, <1>7, MemoryKept
<1>9. Queue' = Queue
  BY <1>3 DEF Queue
<1>10. \A x \in Clients : peer[x] # "absent" => peer'[x] # "absent"
  BY <1>4
<1>11. SequenceIdentifiesSession'
  BY <1>1, <1>3, <1>9 DEF Sessions, SequenceIdentifiesSession, ServesClient, InUse, Client
<1>12. QueuedHeaders'
  BY <1>1, <1>3, <1>9, <1>10 DEF Sessions, QueuedHeaders
<1>13. Connected'
  BY <1>1, <1>10 DEF Sessions, Connected, TableTypes
<1>14. Waiting'
  <2>1. ASSUME NEW k \in Listeners, NEW x \in backlog'[k]
        PROVE  /\ peer'[x] # "absent"
               /\ \A fd \in ConnFds : file'[fd] # x
               /\ \A b \in Queue' : heap'[b].from # x
               /\ \A j \in Listeners : x \in backlog'[j] => j = k
    <3>1. CASE x = client
      <4>1. \A fd \in ConnFds : file[fd] # client
        BY <1>1, WorkerAssumption DEF Sessions, Connected
      <4>2. \A b \in Queue : heap[b].from # client
        BY <1>1 DEF Sessions, QueuedHeaders
      <4>3. \A j \in Listeners : client \notin backlog[j]
        BY <1>1 DEF Sessions, Waiting
      <4> QED BY <1>1, <1>3, <1>4, <1>5, <1>9, <2>1, <3>1, <4>1, <4>2, <4>3
    <3>2. CASE x # client
      <4>1. x \in backlog[k] /\ x \in Clients
        BY <1>1, <1>5, <2>1, <3>2 DEF OtherTypes
      <4>2. /\ peer[x] # "absent"
            /\ \A fd \in ConnFds : file[fd] # x
            /\ \A b \in Queue : heap[b].from # x
            /\ \A j \in Listeners : x \in backlog[j] => j = k
        BY <1>1, <4>1 DEF Sessions, Waiting
      <4> QED BY <1>1, <1>3, <1>5, <1>9, <1>10, <3>2, <4>1, <4>2
    <3> QED BY <3>1, <3>2
  <2> QED BY <2>1 DEF Waiting
<1> QED BY <1>2, <1>6, <1>8, <1>11, <1>12, <1>13, <1>14, WholeFrom DEF Sessions

(* What clients and other workers do.                                      *)
LEMMA EnvironmentInv ==
  ASSUME IInv, Environment
  PROVE  IInv'
<1>1. PICK client \in Clients :
        \/ \E l \in Listeners : ClientConnects(client, l) \/ TakenElsewhere(client, l)
        \/ ClientSends(client)
        \/ ClientShutsDown(client)
        \/ ClientResets(client)
  BY DEF Environment
<1>2. OtherTypes
  BY Parts
<1>3. ASSUME UNCHANGED <<procVars, file, interest, blocking>>, OtherTypes',
             \A x \in Clients : peer[x] # "absent" => peer'[x] # "absent",
             \A l \in Listeners : backlog'[l] \subseteq backlog[l]
      PROVE  IInv'
  <2>1. TableTypes' /\ Tables' /\ Events' /\ EventTypes'
    BY <1>3, OutsideTables
  <2>2. Memory' /\ Sessions'
    BY <1>3, <2>1, NobodyMoves DEF procVars
  <2> QED BY <1>3, <2>1, <2>2, WholeFrom
<1>4. CASE \E l \in Listeners : ClientConnects(client, l)
  BY <1>4, ConnectsInv
<1>5. CASE \E l \in Listeners : TakenElsewhere(client, l)
  <2>1. PICK l \in Listeners : TakenElsewhere(client, l)
    BY <1>5
  <2>2. OtherTypes'
    BY <1>2, <2>1 DEF TakenElsewhere, OtherTypes, procVars
  <2>3. \A x \in Clients : peer[x] # "absent" => peer'[x] # "absent"
    BY <1>2, <2>1 DEF TakenElsewhere, OtherTypes
  <2>4. \A k \in Listeners : backlog'[k] \subseteq backlog[k]
    BY <1>2, <2>1 DEF TakenElsewhere, OtherTypes
  <2> QED BY <1>3, <2>1, <2>2, <2>3, <2>4 DEF TakenElsewhere
<1>6. CASE ClientSends(client)
  <2>1. OtherTypes'
    BY <1>2, <1>6 DEF ClientSends, OtherTypes, procVars
  <2> QED BY <1>3, <1>6, <2>1 DEF ClientSends, procVars
<1>7. CASE ClientShutsDown(client)
  <2>1. OtherTypes' /\ \A x \in Clients : peer[x] # "absent" => peer'[x] # "absent"
    BY <1>2, <1>7 DEF ClientShutsDown, OtherTypes, procVars
  <2> QED BY <1>3, <1>7, <2>1 DEF ClientShutsDown, procVars
<1>8. CASE ClientResets(client)
  <2>1. OtherTypes' /\ \A x \in Clients : peer[x] # "absent" => peer'[x] # "absent"
    BY <1>2, <1>8 DEF ClientResets, OtherTypes, procVars
  <2> QED BY <1>3, <1>8, <2>1 DEF ClientResets, procVars
<1> QED BY <1>1, <1>4, <1>5, <1>6, <1>7, <1>8

-----------------------------------------------------------------------------
(* The handlers                                                            *)

(* event_accept: a client leaves the backlog, or nothing happens.          *)
LEMMA AcceptInv ==
  ASSUME IInv, TableTypes', NEW c \in Conns, InUse(c),
         pool.conn[c].rhandler = "event_accept", EventAccept(c), exited' = exited
  PROVE  OtherTypes' /\ Memory' /\ Sessions'
<1>1. TypeOK /\ TableTypes /\ OtherTypes /\ Tables /\ Sessions /\ Memory
  BY Parts
<1>2. PICK listening : listening = pool.conn[c].listening
  OBVIOUS
<1>3. /\ listening \in Listeners
      /\ \/ UNCHANGED <<pool, file, interest>>
         \/ \E s \in ConnFds, client \in Clients :
              /\ file[s] = NoClient
              /\ Registers(s, listening, "wait_request_handler")
              /\ file' = [file EXCEPT ![s] = client]
              /\ client \in backlog[listening]
              /\ backlog' = [backlog EXCEPT ![listening] = @ \ {client}]
              /\ peer' = peer
         \/ \E s \in ConnFds : file[s] = NoClient /\ Undoes(s, listening)
  BY <1>1, <1>2, AcceptEffect
<1>4. /\ UNCHANGED <<heap, m_MsgRecvQueue>> /\ use_accept4' \in BOOLEAN
      /\ backlog' \in [Listeners -> SUBSET Clients] /\ blocking' \subseteq ConnFds
      /\ peer' \in [Clients -> {"absent", "alive", "fin", "reset", "over"}]
      /\ unread' \in [Clients -> BOOLEAN]
      /\ \A l \in Listeners : backlog'[l] \subseteq backlog[l]
      /\ \A x \in Clients : peer[x] # "absent" => peer'[x] # "absent"
  BY <1>1, <1>2, <1>3, AcceptRest DEF OtherTypes
<1>5. OtherTypes'
  BY <1>1, <1>4 DEF OtherTypes
<1>6. CASE UNCHANGED <<pool, file, interest>>
  BY <1>4, <1>5, <1>6, NobodyMoves
<1>7. ASSUME NEW s \in ConnFds, NEW client \in Clients,
             file[s] = NoClient, Registers(s, listening, "wait_request_handler"),
             file' = [file EXCEPT ![s] = client], client \in backlog[listening],
             backlog' = [backlog EXCEPT ![listening] = @ \ {client}], peer' = peer
      PROVE  Memory' /\ Sessions'
  <2>1. PICK h : h = Head(pool.free)
    OBVIOUS
  <2>2. /\ pool.free # << >>
        /\ Binds(pool, pool', h, s, listening, "wait_request_handler")
    BY <1>7, <2>1 DEF Registers
  <2>3. pool.conn[h].iCurrsequence \in Nat
    BY <1>1, <2>2, ConnTypes DEF TableTypes, Binds
  <2>4. /\ \A d \in Conns \ {h} : pool'.conn[d] = pool.conn[d]
        /\ pool'.conn[h].iCurrsequence > pool.conn[h].iCurrsequence
        /\ pool'.conn[h].rx = RxStart /\ pool'.conn[h].ifnewrecvMem = FALSE
        /\ pool'.conn[h].fd = s
    BY <2>2, <2>3 DEF Binds
  <2>5. /\ \A fd \in ConnFds : file[fd] # NoClient => file'[fd] = file[fd]
        /\ file'[s] = client /\ \A fd \in ConnFds : file'[fd] # file[fd] => fd = s
    BY <1>1, <1>7 DEF TableTypes
  <2>6. /\ peer[client] # "absent" /\ \A b \in Queue : heap[b].from # client
        /\ \A l \in Listeners : client \in backlog[l] => l = listening
    BY <1>1, <1>3, <1>7 DEF Sessions, Waiting
  <2>7. \A l \in Listeners : client \notin backlog'[l]
    BY <1>1, <1>3, <1>7, <2>6 DEF OtherTypes
  <2>8. \A fd \in ConnFds :
          file'[fd] # file[fd] =>
            /\ file'[fd] \in Clients /\ peer[file'[fd]] # "absent"
            /\ \A l \in Listeners : file'[fd] \notin backlog'[l]
    BY <1>7, <2>5, <2>6, <2>7
  <2>9. Client(h)' = client
    BY <2>4, <2>5 DEF Client
  <2>10. ServesClient(h)' => \A b \in Queue : heap[b].from # Client(h)'
    BY <2>6, <2>9
  <2>11. \A fd \in ConnFds : file[fd] # NoClient => file'[fd] = file[fd]
    BY <2>5
  <2> QED BY <1>4, <1>5, <2>1, <2>2, <2>4, <2>8, <2>10, <2>11, BoundHead
<1>8. ASSUME NEW s \in ConnFds, Undoes(s, listening)
      PROVE  Memory' /\ Sessions'
  <2>1. PICK h : h = Head(pool.free)
    OBVIOUS
  <2>2. PICK p \in Pool : /\ Binds(pool, p, h, s, listening, "wait_request_handler")
                          /\ Closes(p, pool', h)
    BY <1>8, <2>1 DEF Undoes
  <2>3. pool.conn[h].iCurrsequence \in Nat
    BY <1>1, <2>2, ConnTypes DEF TableTypes, Binds
  <2>4. /\ \A d \in Conns \ {h} : pool'.conn[d] = pool.conn[d]
        /\ pool'.conn[h].iCurrsequence > pool.conn[h].iCurrsequence
        /\ pool'.conn[h].rx = RxStart /\ pool'.conn[h].ifnewrecvMem = FALSE
        /\ pool'.conn[h].fd = -1
    BY <2>2, <2>3 DEF Binds, Closes
  <2>5. ~ ServesClient(h)'
    BY <2>4 DEF ServesClient, InUse
  <2>6. pool.free # << >> /\ file' = file
    BY <1>8 DEF Undoes
  <2> QED BY <1>4, <1>5, <2>1, <2>4, <2>5, <2>6, BoundHead
<1> QED BY <1>3, <1>5, <1>6, <1>7, <1>8

(* Two connections with clients have different descriptors.                *)
LEMMA OthersStay ==
  ASSUME IInv, NEW c \in Conns, ServesClient(c),
         \A d \in Conns \ {c} : pool'.conn[d] = pool.conn[d],
         \A fd \in ConnFds : fd # pool.conn[c].fd => file'[fd] = file[fd]
  PROVE  \A d \in Conns \ {c} : SameHolder(d) /\ SameSession(d)
<1>1. ASSUME NEW d \in Conns \ {c}
      PROVE  SameHolder(d) /\ SameSession(d)
  <2>1. ServesClient(d) => pool.conn[d].fd \in ConnFds /\ pool.conn[d].fd # pool.conn[c].fd
    BY Parts DEF Tables, PoolConserved, ServesClient
  <2>2. Holds(d) => ServesClient(d)
    BY Parts, HolderFacts DEF ForBody
  <2> QED BY <2>1, <2>2, Untouched
<1> QED BY <1>1

(* The connection of a client that is gone is closed.                      *)
LEMMA EndInv ==
  ASSUME IInv, TableTypes', NEW c \in Conns, ServesClient(c), RecvEnd(c), UNCHANGED exited,
         UNCHANGED use_accept4
  PROVE  OtherTypes' /\ Memory' /\ Sessions'
<1>1. /\ TypeOK /\ TableTypes /\ OtherTypes /\ Tables /\ Sessions /\ Memory
      /\ pool \in Pool
  BY Parts DEF TableTypes
<1>2. /\ Ends(c)
      /\ heap' = IF Holds(c) THEN [heap EXCEPT ![Buffer(c)] = Unallocated] ELSE heap
      /\ UNCHANGED <<m_MsgRecvQueue, backlog>>
      /\ blocking' = blocking \ {pool.conn[c].fd}
      /\ peer' = [peer EXCEPT ![Client(c)] = "over"]
  BY <1>1, EndEffect DEF Holds, Buffer
<1>3. /\ \A d \in Conns \ {c} : pool'.conn[d] = pool.conn[d]
      /\ pool'.conn[c].fd = -1 /\ pool'.conn[c].ifnewrecvMem = FALSE
      /\ pool'.conn[c].iCurrsequence = pool.conn[c].iCurrsequence + 1
      /\ file' = [file EXCEPT ![pool.conn[c].fd] = NoClient]
  BY <1>2 DEF Ends, Closes
<1>4. ~ ServesClient(c)' /\ ~ Holds(c)' /\ ~ ForBody(c)'
  BY <1>3 DEF ServesClient, InUse, Holds, ForBody
<1>5. \A fd \in ConnFds :
        /\ fd # pool.conn[c].fd => file'[fd] = file[fd]
        /\ file'[fd] = file[fd] \/ file'[fd] = NoClient
  BY <1>1, <1>3 DEF TableTypes
<1>6. \A d \in Conns \ {c} : SameHolder(d) /\ SameSession(d)
  BY <1>3, <1>5, OthersStay
<1>7. Memory'
  BY <1>1, <1>2, <1>4, <1>6, MemoryEnds
<1>8. NewSession(c)
  <2>1. pool.conn[c].iCurrsequence \in Nat
    BY <1>1, ConnTypes
  <2> QED BY <1>3, <1>4, <2>1 DEF NewSession, Number
<1>9. Queue' = Queue /\ Queue \subseteq Bufs
  BY <1>1, <1>2, QueueTypes DEF Queue
<1>10. \A b \in Queue' : b \in Queue /\ heap'[b] = heap[b]
  <2>1. Holds(c) => Buffer(c) \notin Queue
    BY <1>1, HolderFacts
  <2> QED BY <1>1, <1>2, <1>9, <2>1 DEF OtherTypes
<1>11. \A x \in Clients : peer[x] # "absent" => peer'[x] # "absent"
  BY <1>1, <1>2 DEF OtherTypes
<1>12. Sessions'
  BY <1>1, <1>2, <1>5, <1>6, <1>8, <1>10, <1>11, SessionsKept
<1>13. OtherTypes'
  <2>1. Unallocated \in [pConn : Conns \cup {nullptr}, iCurrsequence : Nat,
                         from : Clients \cup {NoClient}]
    BY DEF Unallocated
  <2>2. heap' \in [Bufs -> [pConn : Conns \cup {nullptr}, iCurrsequence : Nat,
                            from : Clients \cup {NoClient}]]
    BY <1>1, <1>2, <2>1 DEF OtherTypes
  <2>3. unread' = [unread EXCEPT ![Client(c)] = FALSE]
    BY DEF RecvEnd, KernelClose
  <2> QED BY <1>1, <1>2, <2>2, <2>3 DEF OtherTypes
<1> QED BY <1>7, <1>12, <1>13

(* Receiving changes neither the session nor the other connections.        *)
LEMMA ReceivesSame ==
  ASSUME IInv, NEW c \in Conns, ServesClient(c), Keeps(pool, pool', c), file' = file
  PROVE  /\ \A d \in Conns \ {c} : SameHolder(d) /\ SameSession(d)
         /\ SameSession(c) /\ ServesClient(c)' /\ MsgHeader(c)' = MsgHeader(c)
<1>1. \A d \in Conns \ {c} : pool'.conn[d] = pool.conn[d]
  BY DEF Keeps
<1>2. \A d \in Conns \ {c} : SameHolder(d) /\ SameSession(d)
  BY <1>1, OthersStay
<1>3. pool'.conn[c].fd = pool.conn[c].fd /\ pool'.conn[c].iCurrsequence = pool.conn[c].iCurrsequence
  BY DEF Keeps
<1>4. (ServesClient(c)' <=> ServesClient(c)) /\ Client(c)' = Client(c)
  BY <1>3 DEF ServesClient, InUse, Client
<1>5. MsgHeader(c)' = MsgHeader(c)
  BY <1>3, <1>4 DEF MsgHeader
<1> QED BY <1>2, <1>3, <1>4, <1>5 DEF SameSession, Number

(* The header of a package is one and is not an empty place.               *)
LEMMA HeaderTypes ==
  ASSUME IInv, NEW c \in Conns, ServesClient(c)
  PROVE  /\ MsgHeader(c) \in [pConn : Conns \cup {nullptr}, iCurrsequence : Nat,
                              from : Clients \cup {NoClient}]
         /\ MsgHeader(c) # Unallocated
<1>1. Client(c) \in Clients /\ pool.conn[c].iCurrsequence \in Nat
  BY Parts, SessionFacts DEF Number
<1>2. MsgHeader(c) # Unallocated
  <2>1. MsgHeader(c).pConn = c /\ Unallocated.pConn = 0 /\ c # 0
    BY DEF MsgHeader, Unallocated, nullptr, Conns
  <2> QED BY <2>1
<1> QED BY <1>1, <1>2 DEF MsgHeader

(* Nothing is queued.                                                      *)
LEMMA ReceivesOn ==
  ASSUME IInv, TableTypes', NEW c \in Conns, ServesClient(c), Keeps(pool, pool', c),
         UNCHANGED <<file, heap, m_MsgRecvQueue, backlog, peer>>,
         pool'.conn[c].ifnewrecvMem = pool.conn[c].ifnewrecvMem,
         pool'.conn[c].pnewMemPointer = pool.conn[c].pnewMemPointer,
         pool'.conn[c].rx.curStat \in BodyStats <=> pool.conn[c].rx.curStat \in BodyStats
  PROVE  Memory' /\ Sessions'
<1>1. TypeOK /\ Tables /\ Sessions /\ Memory
  BY Parts
<1>2. /\ \A d \in Conns \ {c} : SameHolder(d) /\ SameSession(d)
      /\ SameSession(c) /\ ServesClient(c)' /\ MsgHeader(c)' = MsgHeader(c)
  BY ReceivesSame
<1>3. SameHolder(c)
  BY <1>2 DEF SameHolder
<1>4. Memory'
  BY <1>1, <1>2, <1>3, MemoryKept
<1>5. Queue' = Queue
  BY DEF Queue
<1>6. Sessions'
  BY <1>1, <1>2, <1>5, SessionsKept
<1> QED BY <1>4, <1>6

(* A package begins.                                                       *)
LEMMA ReceivesHeader ==
  ASSUME IInv, TableTypes', NEW c \in Conns, ServesClient(c), Keeps(pool, pool', c),
         pool.conn[c].rx.curStat \in HeadStats,
         UNCHANGED <<file, m_MsgRecvQueue, backlog, peer>>,
         pool'.conn[c].ifnewrecvMem = TRUE,
         NEW buf, buf = AllocMemory,
         pool'.conn[c].pnewMemPointer = buf,
         pool'.conn[c].rx.curStat = "BD_INIT",
         heap' = [heap EXCEPT ![buf] = MsgHeader(c)]
  PROVE  /\ Memory' /\ Sessions'
         /\ heap' \in [Bufs -> [pConn : Conns \cup {nullptr}, iCurrsequence : Nat,
                                from : Clients \cup {NoClient}]]
<1>1. TypeOK /\ Tables /\ Sessions /\ Memory
  BY Parts
<1>2. /\ \A d \in Conns \ {c} : SameHolder(d) /\ SameSession(d)
      /\ SameSession(c) /\ ServesClient(c)' /\ MsgHeader(c)' = MsgHeader(c)
  BY ReceivesSame
<1>3. /\ ~ Holds(c) /\ buf \in Bufs /\ heap[buf] = Unallocated /\ buf \notin Queue
  BY <1>1, RoomForHeader DEF Holds
<1>4. Holds(c)' /\ Buffer(c)' = buf
  BY DEF Holds, Buffer
<1>5. ForBody(c)'
  BY <1>2 DEF ForBody, BodyStats
<1>6. Memory'
  BY <1>1, <1>2, <1>3, <1>4, <1>5, MemoryStarts
<1>7. heap' \in [Bufs -> [pConn : Conns \cup {nullptr}, iCurrsequence : Nat,
                         from : Clients \cup {NoClient}]]
  BY <1>1, HeaderTypes DEF TypeOK
<1>8. Queue' = Queue /\ Queue \subseteq Bufs
  BY <1>1, QueueTypes DEF Queue
<1>9. \A b \in Queue' : b \in Queue /\ heap'[b] = heap[b]
  BY <1>1, <1>3, <1>8 DEF TypeOK
<1>10. Sessions'
  BY <1>1, <1>2, <1>9, SessionsKept
<1> QED BY <1>6, <1>7, <1>10

(* A package is complete.                                                  *)
LEMMA ReceivesPackage ==
  ASSUME IInv, TableTypes', NEW c \in Conns, ServesClient(c), Keeps(pool, pool', c),
         UNCHANGED <<file, backlog, peer>>,
         pool'.conn[c].ifnewrecvMem = FALSE, pool'.conn[c].rx = RxStart,
         NEW buf \in Bufs, buf \notin Queue,
         \A d \in Conns \ {c} : Holds(d) => Buffer(d) # buf,
         Holds(c) => Buffer(c) = buf,
         NEW h \in [Bufs -> [pConn : Conns \cup {nullptr}, iCurrsequence : Nat,
                             from : Clients \cup {NoClient}]],
         h[buf] = MsgHeader(c), \A b \in Bufs \ {buf} : h[b] = heap[b],
         InMsgRecvQueue(h, buf)
  PROVE  /\ Memory' /\ Sessions'
         /\ m_MsgRecvQueue' \in Seq(Bufs)
         /\ heap' \in [Bufs -> [pConn : Conns \cup {nullptr}, iCurrsequence : Nat,
                                from : Clients \cup {NoClient}]]
<1>1. TypeOK /\ Tables /\ Sessions /\ Memory
  BY Parts
<1>2. /\ \A d \in Conns \ {c} : SameHolder(d) /\ SameSession(d)
      /\ SameSession(c) /\ ServesClient(c)' /\ MsgHeader(c)' = MsgHeader(c)
  BY ReceivesSame
<1>3. ~ Holds(c)' /\ ~ ForBody(c)'
  BY DEF Holds, ForBody, RxStart, BodyStats
<1>4. h[buf] # Unallocated
  BY HeaderTypes
<1>5. /\ Memory'
      /\ m_MsgRecvQueue' \in Seq(Bufs)
      /\ heap' \in [Bufs -> [pConn : Conns \cup {nullptr}, iCurrsequence : Nat,
                             from : Clients \cup {NoClient}]]
      /\ Queue' \subseteq Queue \cup {buf}
      /\ \A b \in Queue' : heap'[b] = h[b]
  BY <1>1, <1>2, <1>3, <1>4, MemoryQueues
<1>6. Queue \subseteq Bufs
  BY <1>1, QueueTypes
<1>7. \A b \in Queue' :
        \/ b \in Queue /\ heap'[b] = heap[b]
        \/ \E d \in Conns : heap'[b] = MsgHeader(d) /\ ServesClient(d) /\ SameSession(d)
  BY <1>2, <1>5, <1>6
<1>8. Sessions'
  BY <1>1, <1>2, <1>7, SessionsKept
<1> QED BY <1>5, <1>8

(* wait_request_handler when bytes came in.                                *)
LEMMA BytesInv ==
  ASSUME IInv, TableTypes', NEW c \in Conns, ServesClient(c),
         RecvPart(c) \/ RecvHeader(c) \/ RecvBody(c), UNCHANGED <<exited, use_accept4>>
  PROVE  OtherTypes' /\ Memory' /\ Sessions'
<1>1. /\ TypeOK /\ TableTypes /\ OtherTypes /\ Tables /\ Sessions /\ Memory
      /\ pool \in Pool
  BY Parts DEF TableTypes
<1>2. unread' \in [Clients -> BOOLEAN]
  <2>1. \E n : Recv(c, n)
    BY Zenon DEF RecvPart, RecvHeader, RecvBody
  <2> QED BY <1>1, <2>1 DEF Recv, OtherTypes
<1>3. ASSUME UNCHANGED <<backlog, blocking, peer>>,
             m_MsgRecvQueue' \in Seq(Bufs),
             heap' \in [Bufs -> [pConn : Conns \cup {nullptr}, iCurrsequence : Nat,
                                from : Clients \cup {NoClient}]]
      PROVE  OtherTypes'
  BY <1>1, <1>2, <1>3 DEF OtherTypes
<1>4. CASE RecvPart(c)
  <2>1. /\ Keeps(pool, pool', c)
        /\ pool'.conn[c].ifnewrecvMem = pool.conn[c].ifnewrecvMem
        /\ pool'.conn[c].pnewMemPointer = pool.conn[c].pnewMemPointer
        /\ pool'.conn[c].rx.curStat \in BodyStats <=> pool.conn[c].rx.curStat \in BodyStats
        /\ UNCHANGED <<heap, m_MsgRecvQueue, backlog, file, interest, blocking, peer>>
    BY <1>1, <1>4, PartEffect
  <2>2. Memory' /\ Sessions'
    BY <2>1, ReceivesOn
  <2>3. OtherTypes'
    BY <1>1, <1>3, <2>1 DEF OtherTypes
  <2> QED BY <2>2, <2>3
<1>5. CASE RecvHeader(c)
  <2>1. PICK buf : buf = AllocMemory
    OBVIOUS
  <2>2. /\ pool.conn[c].rx.curStat \in HeadStats
        /\ Keeps(pool, pool', c)
        /\ UNCHANGED <<backlog, file, interest, blocking, peer>>
        /\ \/ /\ pool'.conn[c].ifnewrecvMem = pool.conn[c].ifnewrecvMem
              /\ pool'.conn[c].pnewMemPointer = pool.conn[c].pnewMemPointer
              /\ pool'.conn[c].rx = RxStart
              /\ UNCHANGED <<heap, m_MsgRecvQueue>>
           \/ /\ pool'.conn[c].ifnewrecvMem = FALSE
              /\ pool'.conn[c].rx = RxStart
              /\ InMsgRecvQueue([heap EXCEPT ![buf] = MsgHeader(c)], buf)
           \/ /\ pool'.conn[c].ifnewrecvMem = TRUE
              /\ pool'.conn[c].pnewMemPointer = buf
              /\ pool'.conn[c].rx.curStat = "BD_INIT"
              /\ heap' = [heap EXCEPT ![buf] = MsgHeader(c)]
              /\ UNCHANGED m_MsgRecvQueue
    BY <1>1, <1>5, <2>1, RoomAlways, HeaderEffect
  <2>3. CASE /\ pool'.conn[c].ifnewrecvMem = pool.conn[c].ifnewrecvMem
             /\ pool'.conn[c].pnewMemPointer = pool.conn[c].pnewMemPointer
             /\ pool'.conn[c].rx = RxStart
             /\ UNCHANGED <<heap, m_MsgRecvQueue>>
    <3>1. pool'.conn[c].rx.curStat \in BodyStats <=> pool.conn[c].rx.curStat \in BodyStats
      BY <2>2, <2>3 DEF RxStart, HeadStats, BodyStats
    <3>2. Memory' /\ Sessions'
      BY <2>2, <2>3, <3>1, ReceivesOn
    <3>3. OtherTypes'
      BY <1>1, <1>3, <2>2, <2>3 DEF OtherTypes
    <3> QED BY <3>2, <3>3
  <2>4. CASE /\ pool'.conn[c].ifnewrecvMem = FALSE
             /\ pool'.conn[c].rx = RxStart
             /\ InMsgRecvQueue([heap EXCEPT ![buf] = MsgHeader(c)], buf)
    <3>1. PICK h : h = [heap EXCEPT ![buf] = MsgHeader(c)]
      OBVIOUS
    <3>2. ~ Holds(c) /\ buf \in Bufs /\ buf \notin Queue /\ buf \notin Held
      BY <1>1, <2>1, <2>2, RoomForHeader DEF Holds
    <3>3. \A d \in Conns \ {c} : Holds(d) => Buffer(d) # buf
      BY <1>1, <3>2, HolderFacts
    <3>4. /\ h \in [Bufs -> [pConn : Conns \cup {nullptr}, iCurrsequence : Nat,
                             from : Clients \cup {NoClient}]]
          /\ h[buf] = MsgHeader(c) /\ \A b \in Bufs \ {buf} : h[b] = heap[b]
      BY <1>1, <3>1, <3>2, HeaderTypes DEF OtherTypes
    <3>5. /\ Memory' /\ Sessions'
          /\ m_MsgRecvQueue' \in Seq(Bufs)
          /\ heap' \in [Bufs -> [pConn : Conns \cup {nullptr}, iCurrsequence : Nat,
                                 from : Clients \cup {NoClient}]]
      BY <2>2, <2>4, <3>1, <3>2, <3>3, <3>4, ReceivesPackage
    <3> QED BY <1>3, <2>2, <3>5
  <2>5. CASE /\ pool'.conn[c].ifnewrecvMem = TRUE
             /\ pool'.conn[c].pnewMemPointer = buf
             /\ pool'.conn[c].rx.curStat = "BD_INIT"
             /\ heap' = [heap EXCEPT ![buf] = MsgHeader(c)]
             /\ UNCHANGED m_MsgRecvQueue
    <3>1. /\ Memory' /\ Sessions'
          /\ heap' \in [Bufs -> [pConn : Conns \cup {nullptr}, iCurrsequence : Nat,
                                 from : Clients \cup {NoClient}]]
      BY <2>1, <2>2, <2>5, ReceivesHeader
    <3> QED BY <1>1, <1>3, <2>2, <2>5, <3>1 DEF OtherTypes
  <2> QED BY <2>2, <2>3, <2>4, <2>5
<1>6. CASE RecvBody(c)
  <2>1. /\ pool.conn[c].rx.curStat \in BodyStats
        /\ Keeps(pool, pool', c)
        /\ pool'.conn[c].ifnewrecvMem = FALSE
        /\ pool'.conn[c].rx = RxStart
        /\ InMsgRecvQueue(heap, Buffer(c))
        /\ UNCHANGED <<backlog, file, interest, blocking, peer>>
    BY <1>1, <1>6, BodyEffect DEF Buffer
  <2>2. Holds(c)
    BY <1>1, <2>1, HolderFacts DEF ForBody
  <2>3. PICK buf : buf = Buffer(c)
    OBVIOUS
  <2>4. /\ buf \in Bufs /\ buf \notin Queue /\ heap[buf] = MsgHeader(c)
        /\ \A d \in Conns \ {c} : Holds(d) => Buffer(d) # buf
    BY <1>1, <2>2, <2>3, HolderFacts
  <2>5. /\ Memory' /\ Sessions'
        /\ m_MsgRecvQueue' \in Seq(Bufs)
        /\ heap' \in [Bufs -> [pConn : Conns \cup {nullptr}, iCurrsequence : Nat,
                               from : Clients \cup {NoClient}]]
    <3>1. PICK h : h = heap
      OBVIOUS
    <3> QED BY <1>1, <2>1, <2>3, <2>4, <3>1, ReceivesPackage DEF OtherTypes
  <2> QED BY <1>3, <2>1, <2>5
<1> QED BY <1>4, <1>5, <1>6

(* An event is handled.                                                    *)
LEMMA HandleInv ==
  ASSUME IInv, HandleEvent
  PROVE  IInv'
<1> DEFINE c == Head(m_events).conn
<1>1. TypeOK /\ TableTypes /\ EventTypes /\ OtherTypes /\ Tables /\ Events /\ Memory
  BY Parts
<1>2. /\ c \in Conns /\ InUse(c)
      /\ UNCHANGED <<pos, exited>>
      /\ \/ UNCHANGED <<pool, heap, m_MsgRecvQueue, use_accept4, kernelVars>>
         \/ pool.conn[c].rhandler = "event_accept" /\ EventAccept(c)
         \/ ServesClient(c) /\ WaitRequest(c)
  BY <1>1, Dispatch
<1>3. TableTypes' /\ Tables' /\ Events' /\ EventTypes'
  BY <1>1, <1>2, RoomAlways, HandleTables
<1> HIDE DEF c
<1>4. ASSUME UNCHANGED <<pool, heap, m_MsgRecvQueue, use_accept4, kernelVars>>
      PROVE  OtherTypes' /\ Memory' /\ Sessions'
  <2>1. OtherTypes'
    BY <1>1, <1>2, <1>4 DEF OtherTypes, kernelVars
  <2> QED BY <1>3, <1>4, <2>1, NobodyMoves DEF kernelVars
<1>5. ASSUME pool.conn[c].rhandler = "event_accept", EventAccept(c)
      PROVE  OtherTypes' /\ Memory' /\ Sessions'
  BY <1>2, <1>3, <1>5, AcceptInv
<1>6. ASSUME ServesClient(c), WaitRequest(c)
      PROVE  OtherTypes' /\ Memory' /\ Sessions'
  <2>1. CASE RecvNothing(c)
    BY <1>4, <1>6, <2>1 DEF RecvNothing, WaitRequest
  <2>2. CASE RecvEnd(c)
    BY <1>2, <1>3, <1>6, <2>2, EndInv DEF WaitRequest
  <2>3. CASE RecvPart(c) \/ RecvHeader(c) \/ RecvBody(c)
    BY <1>2, <1>3, <1>6, <2>3, BytesInv DEF WaitRequest
  <2> QED BY <1>6, <2>1, <2>2, <2>3 DEF WaitRequest
<1>7. OtherTypes' /\ Memory' /\ Sessions'
  BY <1>2, <1>4, <1>5, <1>6
<1> QED BY <1>3, <1>7, WholeFrom

-----------------------------------------------------------------------------
(* The invariant                                                           *)

(* The invariant holds in the beginning.                                   *)
LEMMA InitInv ==
  ASSUME Init
  PROVE  IInv
<1>1. /\ NewPool \in Pool /\ Conserved(NewPool)
      /\ \A c \in Conns : NewPool.conn[c].fd = -1 /\ NewPool.conn[c].ifnewrecvMem = FALSE
  BY NewPoolConserved DEF NewPool
<1>2. pool = NewPool /\ \A c \in Conns : ~ InUse(c) /\ ~ ServesClient(c)
  BY <1>1 DEF Init, InUse, ServesClient
<1>3. TypeOK
  <2>1. file \in [ConnFds -> Clients \cup {NoClient}]
    BY DEF Init
  <2>2. heap \in [Bufs -> [pConn : Conns \cup {nullptr}, iCurrsequence : Nat,
                          from : Clients \cup {NoClient}]]
    BY DEF Init, Unallocated
  <2>3. interest \in [Fds -> [conn : Conns \cup {nullptr}, instance : {0, 1}]]
    BY DEF Init, NotRegistered
  <2>4. pos \in 1 .. ListenPortCount + 1
    BY WorkerAssumption DEF Init
  <2>5. m_events = << >> /\ m_MsgRecvQueue = << >>
    BY DEF Init
  <2>6. TableTypes
    BY <1>1, <1>2, <2>1, <2>3, <2>4 DEF TableTypes
  <2>7. EventTypes
    BY <2>5 DEF EventTypes
  <2>8. OtherTypes
    <3>1. m_MsgRecvQueue \in Seq(Bufs)
      BY <2>5
    <3>2. /\ backlog \in [Listeners -> SUBSET Clients]
          /\ blocking \subseteq ConnFds
          /\ exited \in BOOLEAN /\ use_accept4 \in BOOLEAN
      BY DEF Init
    <3>3. /\ peer \in [Clients -> {"absent", "alive", "fin", "reset", "over"}]
          /\ unread \in [Clients -> BOOLEAN]
      BY DEF Init
    <3> QED BY <2>2, <3>1, <3>2, <3>3 DEF OtherTypes
  <2> QED BY <2>6, <2>7, <2>8, TypeParts
<1>4. Tables
  <2>1. PoolConserved
    <3>1. \A fd \in ConnFds : file[fd] = NoClient /\ \A c \in Conns : pool.conn[c].fd # fd
      BY <1>1, <1>2, FdFacts DEF Init
    <3> QED BY <1>1, <1>2, <3>1 DEF PoolConserved
  <2>2. InterestConsistent /\ Descriptors /\ Pointers
    BY <1>2 DEF Init, InterestConsistent, Descriptors, Pointers, Registered
  <2> QED BY <2>1, <2>2 DEF Tables
<1>5. Events
  BY DEF Init, Events, EventsNotStale, EventsDistinct
<1>6. Queue = {} /\ Held = {} /\ Live = {}
  <2>1. Queue = {}
    BY DEF Init, Queue
  <2>2. Held = {}
    BY <1>1, <1>2 DEF Held
  <2>3. Live = {}
    BY DEF Init, Live
  <2> QED BY <2>1, <2>2, <2>3
<1>7. Memory
  <2>1. QueueBounded
    <3>1. Len(m_MsgRecvQueue) = 0
      BY DEF Init
    <3> QED BY <3>1, WorkerAssumption DEF QueueBounded
  <2>2. HeldHeader
    BY <1>1, <1>2 DEF HeldHeader
  <2>3. BufferOwnership
    <3>1. DOMAIN m_MsgRecvQueue = {}
      BY DEF Init
    <3> QED BY <1>1, <1>2, <1>6, <3>1 DEF BufferOwnership
  <2> QED BY <2>1, <2>2, <2>3 DEF Memory
<1>8. Sessions
  <2>1. Connected
    BY DEF Init, Connected
  <2>2. Waiting
    BY DEF Init, Waiting
  <2> QED BY <1>6, <2>1, <2>2 DEF Sessions, SequenceIdentifiesSession, QueuedHeaders
<1> QED BY <1>3, <1>4, <1>5, <1>7, <1>8 DEF IInv

(* A step that changes nothing.                                            *)
LEMMA StutterInv ==
  ASSUME IInv, UNCHANGED vars
  PROVE  IInv'
<1>1. UNCHANGED <<procVars, kernelVars>>
  BY DEF vars
<1>2. TableTypes' /\ Tables' /\ Events' /\ EventTypes'
  BY <1>1, OutsideTables DEF kernelVars
<1>3. OtherTypes'
  BY <1>1, Parts DEF procVars, kernelVars, OtherTypes
<1>4. Memory' /\ Sessions'
  BY <1>1, <1>2, NobodyMoves DEF procVars, kernelVars
<1> QED BY <1>2, <1>3, <1>4, WholeFrom

(* The inductive invariant of the worker.                                  *)
THEOREM Inductive == Spec => []IInv
<1>1. Init => IInv
  BY InitInv
<1>2. IInv /\ [Next]_vars => IInv'
  BY InitListenerInv, EpollWaitInv, HandleInv, EnvironmentInv, StutterInv DEF Next
<1> QED BY <1>1, <1>2, PTL DEF Spec

(* Every variable has its type: in particular no pointer leaves the pool,  *)
(* and every queued buffer is a package buffer.                            *)
THEOREM TypeCorrect == Spec => []TypeOK
<1>1. IInv => TypeOK
  BY DEF IInv
<1> QED BY <1>1, Inductive, PTL

(* No connection object and no descriptor is lost or used twice.           *)
THEOREM PoolConservedHolds == Spec => []PoolConserved
<1>1. IInv => PoolConserved
  BY DEF IInv, Tables
<1> QED BY <1>1, Inductive, PTL

(* epoll and the pool agree.                                               *)
THEOREM InterestConsistentHolds == Spec => []InterestConsistent
<1>1. IInv => InterestConsistent
  BY DEF IInv, Tables
<1> QED BY <1>1, Inductive, PTL

(* No event goes stale between epoll_wait and its turn.                    *)
THEOREM EventsNotStaleHolds == Spec => []EventsNotStale
<1>1. IInv => EventsNotStale
  BY DEF IInv, Events
<1> QED BY <1>1, Inductive, PTL

(* The sequence number of a queued message tells whether its client is     *)
(* still the one that is connected.                                        *)
THEOREM SequenceHolds == Spec => []SequenceIdentifiesSession
<1>1. IInv => SequenceIdentifiesSession
  BY DEF IInv, Sessions
<1> QED BY <1>1, Inductive, PTL

(* Every package buffer has exactly one owner.                             *)
THEOREM OwnershipHolds == Spec => []BufferOwnership
<1>1. IInv => BufferOwnership
  BY DEF IInv, Memory
<1> QED BY <1>1, Inductive, PTL

(* At most one unfinished package per client and QHigh - 1 finished ones   *)
(* are in memory.                                                          *)
THEOREM MemoryBoundedHolds == Spec => []MemoryBounded
<1>1. ASSUME IInv
      PROVE  MemoryBounded
  <2>1. TypeOK /\ Memory
    BY <1>1, Parts
  <2> DEFINE S == {c \in Conns : ServesClient(c)}
  <2>2. Holders \subseteq S /\ S \in SUBSET Conns
    BY <2>1, HolderFacts DEF ForBody
  <2> HIDE DEF S
  <2>3. Cardinality(Live) <= QHigh - 1 + Cardinality(S)
    BY <2>1, <2>2, LiveCount
  <2> QED BY <2>3 DEF MemoryBounded, S
<1> QED BY <1>1, Inductive, PTL

(* Only a client that shut down or reset its connection is disconnected.   *)
THEOREM LiveClientKeptHolds == Spec => LiveClientKept
<1> DEFINE Kept == \A fd \in ConnFds :
              file[fd] # NoClient /\ peer[file[fd]] = "alive" => file'[fd] = file[fd]
<1>1. IInv /\ [Next]_vars => [Kept]_vars
  <2> SUFFICES ASSUME IInv, Next
               PROVE  Kept
    OBVIOUS
  <2>1. TypeOK /\ TableTypes /\ EventTypes /\ Tables /\ Events /\ Memory
    BY Parts
  <2>2. CASE InitListener \/ EpollWait \/ Environment
    <3>1. file' = file
      BY <2>2 DEF InitListener, EpollWait, kernelVars, Environment, ClientConnects,
                  TakenElsewhere, ClientSends, ClientShutsDown, ClientResets
    <3> QED BY <3>1
  <2>3. CASE HandleEvent
    <3>1. PICK c : c = Head(m_events).conn
      OBVIOUS
    <3>2. /\ c \in Conns /\ InUse(c)
          /\ \/ UNCHANGED <<pool, heap, m_MsgRecvQueue, use_accept4, kernelVars>>
             \/ pool.conn[c].rhandler = "event_accept" /\ EventAccept(c)
             \/ ServesClient(c) /\ WaitRequest(c)
      BY <2>1, <2>3, <3>1, Dispatch
    <3>3. CASE UNCHANGED kernelVars
      BY <3>3 DEF kernelVars
    <3>4. CASE pool.conn[c].rhandler = "event_accept" /\ EventAccept(c)
      <4>1. file' = file \/ \E s \in ConnFds, client \in Clients :
                              file[s] = NoClient /\ file' = [file EXCEPT ![s] = client]
        BY <2>1, <3>2, <3>4, AcceptEffect DEF Undoes
      <4> QED BY <2>1, <4>1 DEF TableTypes
    <3>5. CASE ServesClient(c) /\ WaitRequest(c)
      <4>1. CASE RecvEnd(c)
        <5>1. /\ file' = [file EXCEPT ![pool.conn[c].fd] = NoClient]
              /\ peer[file[pool.conn[c].fd]] \in {"fin", "reset"}
          BY <2>1, <3>2, <4>1, EndEffect DEF Ends, TableTypes, Client
        <5> QED BY <2>1, <5>1 DEF TableTypes
      <4>2. CASE ~ RecvEnd(c)
        <5>1. file' = file
          BY <3>5, <4>2, Zenon DEF WaitRequest, RecvNothing, RecvPart, RecvHeader, RecvBody, Recv,
                            kernelVars
        <5> QED BY <5>1
      <4> QED BY <4>1, <4>2
    <3> QED BY <3>2, <3>3, <3>4, <3>5
  <2> QED BY <2>2, <2>3 DEF Next
<1> QED BY <1>1, Inductive, PTL DEF Spec, LiveClientKept
=============================================================================
