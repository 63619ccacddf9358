------------------------------- MODULE Worker -------------------------------
(***************************************************************************)
(* One worker process: epoll_init and then the loop around                 *)
(* epoll_process_event, with the handlers event_accept and                 *)
(* wait_request_handler it dispatches to, the connection pool, the message *)
(* queue, and the part of the kernel these talk to.                        *)
(*                                                                         *)
(* The process is single-threaded: a handler is one step.  What happens    *)
(* outside (clients connect, send, shut down or reset; another worker      *)
(* takes a client from a shared listening socket) comes between any two    *)
(* steps, in particular between epoll_wait and the handling of each event  *)
(* it returned.  The receive state machine is that of module PkgState with *)
(* the contents of the bytes left out: a completed header announces any    *)
(* length in PkgLens.                                                      *)
(***************************************************************************)
EXTENDS ConnectionPool, FiniteSets

CONSTANTS
  ListenPortCount,  \* number of listening sockets; they are descriptors 1 .. ListenPortCount
  FdLimit,          \* highest descriptor the process may open (RLIMIT_NOFILE)
  Clients,          \* the connections clients make, each one at most once
  NoClient,
  MaxEvents,        \* XFLY_MAX_EVENTS (512)
  PkgLens,          \* what a header may announce (0 .. 65535)
  QHigh, QLow,      \* 1000 and 500 of tmpoutMsgRecvQueue
  HasAccept4,       \* FALSE: accept4 fails with ENOSYS
  IoctlMayFail      \* TRUE: ioctl(FIONBIO) may return -1

ASSUME WorkerAssumption ==
  /\ ListenPortCount \in Nat \ {0}
  /\ FdLimit \in Nat /\ FdLimit >= ListenPortCount
  /\ NoClient \notin Clients
  /\ MaxEvents \in Nat \ {0}
  /\ PkgLens \subseteq Nat
  /\ QLow \in Nat /\ QHigh \in Nat /\ QLow < QHigh
  /\ HasAccept4 \in BOOLEAN /\ IoctlMayFail \in BOOLEAN

(* AllocMemory (new) finds a free address: there are enough for a package  *)
(* in every connection and a full queue.                                   *)
ASSUME MemoryAssumption ==
  IsFiniteSet(Bufs) /\ Cardinality(Bufs) >= PoolSize + QHigh - 1

ListenFds == 1 .. ListenPortCount
ConnFds   == ListenPortCount + 1 .. FdLimit
Fds       == 1 .. FdLimit

VARIABLES
  (* the process *)
  pos,              \* the listening socket epoll_init is at; above ListenPortCount: in the loop
  exited,           \* exit(2) was called
  pool,             \* the connection pool
  m_events,         \* events returned by epoll_wait and not yet looked at
  heap,             \* the message header in front of each allocated package buffer
  m_MsgRecvQueue,   \* list of buffers
  use_accept4,
  (* the kernel and the clients *)
  backlog,          \* established connections no process has accepted, per listening socket
  file,             \* the client behind each connection descriptor of this process
  interest,         \* what epoll holds for a descriptor: ev.data.ptr, split in its two parts
  blocking,         \* connection descriptors in blocking mode
  peer,             \* what the client did last
  unread            \* bytes of the client wait to be received

procVars   == <<pos, exited, pool, m_events, heap, m_MsgRecvQueue, use_accept4>>
kernelVars == <<backlog, file, interest, blocking, peer, unread>>
vars == <<procVars, kernelVars>>

-----------------------------------------------------------------------------
(* The kernel's side                                                       *)

NotRegistered == [conn |-> nullptr, instance |-> 0]
Unallocated   == [pConn |-> nullptr, iCurrsequence |-> 0, from |-> NoClient]

Listeners == 1 .. ListenPortCount

Init ==
  /\ pos = 1
  /\ exited = FALSE
  /\ pool = NewPool
  /\ m_events = << >>
  /\ heap = [b \in Bufs |-> Unallocated]
  /\ m_MsgRecvQueue = << >>
  /\ use_accept4 = TRUE
  /\ backlog = [l \in Listeners |-> {}]
  /\ file = [fd \in ConnFds |-> NoClient]
  /\ interest = [fd \in Fds |-> NotRegistered]
  /\ blocking = {}
  /\ peer = [client \in Clients |-> "absent"]
  /\ unread = [client \in Clients |-> FALSE]

ClientConnects(client, l) ==
  /\ peer[client] = "absent"
  /\ peer' = [peer EXCEPT ![client] = "alive"]
  /\ backlog' = [backlog EXCEPT ![l] = @ \cup {client}]
  /\ UNCHANGED <<procVars, file, interest, blocking, unread>>

ClientSends(client) ==
  /\ peer[client] = "alive"
  /\ ~ unread[client]
  /\ unread' = [unread EXCEPT ![client] = TRUE]
  /\ UNCHANGED <<procVars, backlog, file, interest, blocking, peer>>

ClientShutsDown(client) ==
  /\ peer[client] = "alive"
  /\ peer' = [peer EXCEPT ![client] = "fin"]
  /\ UNCHANGED <<procVars, backlog, file, interest, blocking, unread>>

ClientResets(client) ==
  /\ peer[client] \in {"alive", "fin"}
  /\ peer' = [peer EXCEPT ![client] = "reset"]
  /\ UNCHANGED <<procVars, backlog, file, interest, blocking, unread>>

(* The listening sockets are shared by all workers: another one was faster.*)
(* Also: the kernel forgets a client that gave up before it was accepted.  *)
TakenElsewhere(client, l) ==
  /\ client \in backlog[l]
  /\ backlog' = [backlog EXCEPT ![l] = @ \ {client}]
  /\ peer' = [peer EXCEPT ![client] = "over"]
  /\ unread' = [unread EXCEPT ![client] = FALSE]
  /\ UNCHANGED <<procVars, file, interest, blocking>>

Environment ==
  \E client \in Clients :
    \/ \E l \in Listeners : ClientConnects(client, l) \/ TakenElsewhere(client, l)
    \/ ClientSends(client)
    \/ ClientShutsDown(client)
    \/ ClientResets(client)

(* The events epoll_wait has to report for a registered descriptor.        *)
Revents(fd) ==
  IF fd \in ListenFds
  THEN {e \in {"EPOLLIN"} : backlog[fd] # {}}
  ELSE {e \in {"EPOLLIN"} : unread[file[fd]] \/ peer[file[fd]] = "fin"}
         \cup {e \in {"EPOLLERR"} : peer[file[fd]] = "reset"}

Ready == {fd \in Fds : interest[fd] # NotRegistered /\ Revents(fd) # {}}

FreeFds == {fd \in ConnFds : file[fd] = NoClient}
LowestFreeFd == CHOOSE fd \in FreeFds : \A other \in FreeFds : fd <= other

(* close of the descriptor behind which client is.                         *)
KernelClose(fd, client) ==
  /\ file' = [file EXCEPT ![fd] = NoClient]
  /\ interest' = [interest EXCEPT ![fd] = NotRegistered]
  /\ blocking' = blocking \ {fd}
  /\ peer' = [peer EXCEPT ![client] = "over"]
  /\ unread' = [unread EXCEPT ![client] = FALSE]

-----------------------------------------------------------------------------
(* The process's side: epoll_init                                          *)

(* Mutated form: the instance bit is read before get_connection flips it.  *)
DataPtr_early(p, c) == [conn |-> c, instance |-> 1 - p.conn[c].instance]

(* epoll_add_event: the pointer to the connection with its instance bit in *)
(* the lowest bit.                                                         *)
DataPtr(p, c) == [conn |-> c, instance |-> p.conn[c].instance]

(* One round of the loop over m_listenSocketList.  A connection that is    *)
(* missing, or an epoll_ctl that fails, ends the process.                  *)
InitListener ==
  /\ ~ exited
  /\ pos \in Listeners
  /\ \/ /\ pool.free # << >>
        /\ LET c == Head(pool.free)
               p == SetHandler(GetConnection(pool, pos), c, pos, "event_accept") IN
             /\ pool' = p
             /\ interest' = [interest EXCEPT ![pos] = DataPtr(p, c)]
        /\ pos' = pos + 1
        /\ UNCHANGED exited
     \/ /\ exited' = TRUE
        /\ UNCHANGED <<pool, interest, pos>>
  /\ UNCHANGED <<m_events, heap, m_MsgRecvQueue, use_accept4,
                 backlog, file, blocking, peer, unread>>

-----------------------------------------------------------------------------
(* epoll_process_event                                                     *)

Looping == ~ exited /\ pos \notin Listeners

(* The entry of m_events for a descriptor; fd and of (the client the event *)
(* is about) are history, the program does not see them.                   *)
Event(fd) ==
  [conn |-> interest[fd].conn, instance |-> interest[fd].instance,
   revents |-> Revents(fd), fd |-> fd,
   of |-> IF fd \in ListenFds THEN NoClient ELSE file[fd]]

(* epoll_wait reports each ready descriptor once, in any order, and at     *)
(* most MaxEvents of them.  (While none is ready it blocks; a signal makes *)
(* it return and be called again, which changes nothing.)                  *)
EpollWait ==
  /\ Looping
  /\ m_events = << >>
  /\ \E reported \in SUBSET Ready :
       /\ reported # {}
       /\ reported = Ready \/ Cardinality(reported) = MaxEvents
       /\ Cardinality(reported) <= MaxEvents
       /\ \E order \in [1 .. Cardinality(reported) -> reported] :
            /\ \A fd \in reported : \E i \in DOMAIN order : order[i] = fd
            /\ m_events' = [i \in DOMAIN order |-> Event(order[i])]
  /\ UNCHANGED <<pos, exited, pool, heap, m_MsgRecvQueue, use_accept4, kernelVars>>

(* The two tests for an outdated event, and the read bit that an error or  *)
(* hangup turns on.                                                        *)
Outdated(e) ==
  \/ pool.conn[e.conn].fd = -1
  \/ pool.conn[e.conn].instance # e.instance

(* Mutated form: EPOLLERR and EPOLLHUP do not turn on EPOLLIN.             *)
Readable_inOnly(e) == "EPOLLIN" \in e.revents

Readable(e) == e.revents \cap {"EPOLLIN", "EPOLLERR", "EPOLLHUP"} # {}

-----------------------------------------------------------------------------
(* event_accept                                                            *)

(* accept4 or accept returns -1.                                           *)
AcceptNothing(c) ==
  /\ \/ backlog[pool.conn[c].listening] = {}                         \* EAGAIN
     \/ FreeFds = {}                                                 \* EMFILE
     \/ \E client \in backlog[pool.conn[c].listening] : peer[client] = "reset"  \* ECONNABORTED
  /\ UNCHANGED <<pool, backlog, file, interest, blocking, peer, unread>>

(* It returns s, the descriptor of a client.                               *)
Accepted(c, s, client) ==
  /\ FreeFds # {}
  /\ s = LowestFreeFd
  /\ client \in backlog[pool.conn[c].listening]
  /\ backlog' = [backlog EXCEPT ![pool.conn[c].listening] = @ \ {client}]

(* The pool with a new connection for s.                                   *)
WithClient(c, s) ==
  SetHandler(GetConnection(pool, s), Head(pool.free),
             pool.conn[c].listening, "wait_request_handler")

(* accept4 returns a non-blocking socket.  After accept, setnonblocking    *)
(* compares the result of ioctl with 1, so that a failure (-1) passes for  *)
(* success.                                                                *)
StaysBlocking(viaAccept4, ioctlFails) == ~ viaAccept4 /\ ioctlFails

(* Mutated form: the descriptor of a client that is turned away is not     *)
(* closed.                                                                 *)
AcceptTurnAway_leak(c) ==
  /\ pool.free = << >>
  /\ \E s \in ConnFds, client \in Clients :
       Accepted(c, s, client) /\ file' = [file EXCEPT ![s] = client]
  /\ UNCHANGED <<pool, interest, blocking, peer, unread>>

(* No free connection: the client is turned away.                          *)
AcceptTurnAway(c) ==
  /\ pool.free = << >>
  /\ \E s \in ConnFds, client \in Clients :
       Accepted(c, s, client) /\ KernelClose(s, client)
  /\ UNCHANGED pool

(* The connection is set up and registered.                                *)
AcceptRegister(c) ==
  /\ pool.free # << >>
  /\ \E s \in ConnFds, client \in Clients :
       /\ Accepted(c, s, client)
       /\ pool' = WithClient(c, s)
       /\ interest' = [interest EXCEPT ![s] = DataPtr(WithClient(c, s), Head(pool.free))]
       /\ file' = [file EXCEPT ![s] = client]
       /\ \E ioctlFails \in {FALSE, IoctlMayFail} :
            blocking' = {fd \in blocking \cup {s} :
                           fd = s => StaysBlocking(use_accept4', ioctlFails)}
  /\ UNCHANGED <<peer, unread>>

(* Mutated form: no close_connection after a failed epoll_ctl.             *)
AcceptUnregistered_leak(c) ==
  /\ pool.free # << >>
  /\ \E s \in ConnFds, client \in Clients :
       /\ Accepted(c, s, client)
       /\ pool' = WithClient(c, s)
       /\ file' = [file EXCEPT ![s] = client]
  /\ UNCHANGED <<interest, blocking, peer, unread>>

(* epoll_ctl fails: close_connection.                                      *)
AcceptUnregistered(c) ==
  /\ pool.free # << >>
  /\ \E s \in ConnFds, client \in Clients :
       /\ Accepted(c, s, client)
       /\ pool' = CloseConnection(WithClient(c, s), Head(pool.free))
       /\ KernelClose(s, client)

EventAccept(c) ==
  /\ use_accept4' = (use_accept4 /\ HasAccept4)
  /\ AcceptNothing(c) \/ AcceptTurnAway(c) \/ AcceptRegister(c) \/ AcceptUnregistered(c)
  /\ UNCHANGED <<heap, m_MsgRecvQueue>>

-----------------------------------------------------------------------------
(* wait_request_handler                                                    *)

Client(c) == file[pool.conn[c].fd]

(* Mutated form: a client is closed when recv was only interrupted.        *)
RecvNothing_close(c) ==
  /\ pool' = CloseConnection(pool, c)
  /\ KernelClose(pool.conn[c].fd, Client(c))
  /\ UNCHANGED <<heap, m_MsgRecvQueue, backlog>>

(* recv fails with EAGAIN or EINTR: the event comes again.                 *)
RecvNothing(c) == UNCHANGED <<pool, heap, m_MsgRecvQueue, kernelVars>>

(* Mutated form: the connection is freed, its descriptor stays open.       *)
RecvEnd_noClose(c) ==
  /\ \/ peer[Client(c)] = "fin" /\ ~ unread[Client(c)]
     \/ peer[Client(c)] = "reset"
  /\ pool' = CloseConnection(pool, c)
  /\ heap' = IF pool.conn[c].ifnewrecvMem
             THEN [heap EXCEPT ![pool.conn[c].pnewMemPointer] = Unallocated]
             ELSE heap
  /\ UNCHANGED <<m_MsgRecvQueue, kernelVars>>

(* recv returns 0, or fails otherwise: close_connection.                   *)
RecvEnd(c) ==
  /\ \/ peer[Client(c)] = "fin" /\ ~ unread[Client(c)]
     \/ peer[Client(c)] = "reset"
  /\ pool' = CloseConnection(pool, c)
  /\ heap' = IF pool.conn[c].ifnewrecvMem
             THEN [heap EXCEPT ![pool.conn[c].pnewMemPointer] = Unallocated]
             ELSE heap
  /\ KernelClose(pool.conn[c].fd, Client(c))
  /\ UNCHANGED <<m_MsgRecvQueue, backlog>>

(* recv returns n bytes: fewer than asked for only if there are no more.   *)
Recv(c, n) ==
  /\ unread[Client(c)]
  /\ n <= pool.conn[c].rx.irecvlen
  /\ \E more \in BOOLEAN :
       /\ more => n = pool.conn[c].rx.irecvlen
       /\ unread' = [unread EXCEPT ![Client(c)] = more]
  /\ UNCHANGED <<backlog, file, interest, blocking, peer>>

RecvPart(c) ==
  /\ \E n \in 1 .. MaxPkgLen :
       /\ Recv(c, n)
       /\ ~ HeaderDone(pool.conn[c].rx, n)
       /\ ~ BodyDone(pool.conn[c].rx, n)
       /\ pool' = [pool EXCEPT !.conn[c].rx = RxPartial(@, n)]
  /\ UNCHANGED <<heap, m_MsgRecvQueue>>

(* AllocMemory, and the message header wait_request_handler_proc_p1 writes *)
(* to its front.  "from" is history: the client the package came from.     *)
AllocMemory == CHOOSE b \in Bufs : heap[b] = Unallocated

MsgHeader(c) == [pConn |-> c, iCurrsequence |-> pool.conn[c].iCurrsequence,
                 from |-> Client(c)]

(* Mutated form: one message more than QHigh may wait.                     *)
Excess_offByOne(queue) == IF Len(queue) <= QHigh THEN 0 ELSE Len(queue) - QLow

(* inMsgRecvQueue with tmpoutMsgRecvQueue: of QHigh messages only the QLow *)
(* newest are kept.                                                        *)
Excess(queue) == IF Len(queue) < QHigh THEN 0 ELSE Len(queue) - QLow

InMsgRecvQueue(h, buf) ==
  LET queue == Append(m_MsgRecvQueue, buf)
      dropped == {queue[i] : i \in 1 .. Excess(queue)} IN
    /\ m_MsgRecvQueue' = SubSeq(queue, Excess(queue) + 1, Len(queue))
    /\ heap' = [b \in Bufs |-> IF b \in dropped THEN Unallocated ELSE h[b]]

(* Mutated form: ifnewrecvMem stays set when the buffer goes to the queue. *)
HandedOver_keepsFlag(conn) == [conn EXCEPT !.rx = RxStart]

(* wait_request_handler_proc_plast: the connection lets go of the buffer.  *)
HandedOver(conn) ==
  [conn EXCEPT !.ifnewrecvMem = FALSE, !.pnewMemPointer = nullptr, !.rx = RxStart]

(* A completed header (wait_request_handler_proc_p1).                      *)
RecvHeader(c) ==
  \E n \in 1 .. MaxPkgLen, e_pkgLen \in PkgLens :
    /\ Recv(c, n)
    /\ HeaderDone(pool.conn[c].rx, n)
    /\ LET buf == AllocMemory
           h == [heap EXCEPT ![buf] = MsgHeader(c)] IN
         \/ /\ BadLen(e_pkgLen)
            /\ pool' = [pool EXCEPT !.conn[c].rx = RxStart]
            /\ UNCHANGED <<heap, m_MsgRecvQueue>>
         \/ /\ e_pkgLen = HdrLen
            /\ InMsgRecvQueue(h, buf)
            /\ pool' = [pool EXCEPT !.conn[c] = HandedOver(@)]
         \/ /\ ~ BadLen(e_pkgLen) /\ e_pkgLen # HdrLen
            /\ heap' = h
            /\ pool' = [pool EXCEPT !.conn[c] =
                           [@ EXCEPT !.ifnewrecvMem = TRUE, !.pnewMemPointer = buf,
                                     !.rx = RxBody(e_pkgLen)]]
            /\ UNCHANGED m_MsgRecvQueue

(* A completed body.                                                       *)
RecvBody(c) ==
  \E n \in 1 .. MaxPkgLen :
    /\ Recv(c, n)
    /\ BodyDone(pool.conn[c].rx, n)
    /\ InMsgRecvQueue(heap, pool.conn[c].pnewMemPointer)
    /\ pool' = [pool EXCEPT !.conn[c] = HandedOver(@)]

WaitRequest(c) ==
  /\ RecvNothing(c) \/ RecvEnd(c) \/ RecvPart(c) \/ RecvHeader(c) \/ RecvBody(c)
  /\ UNCHANGED use_accept4

-----------------------------------------------------------------------------
(* The body of the loop over the events, for the next one.                 *)
HandleEvent ==
  /\ Looping
  /\ m_events # << >>
  /\ LET e == Head(m_events) IN
       IF Outdated(e) \/ ~ Readable(e)
       THEN UNCHANGED <<pool, heap, m_MsgRecvQueue, use_accept4, kernelVars>>
       ELSE \/ pool.conn[e.conn].rhandler = "event_accept" /\ EventAccept(e.conn)
            \/ pool.conn[e.conn].rhandler = "wait_request_handler" /\ WaitRequest(e.conn)
  /\ m_events' = Tail(m_events)
  /\ UNCHANGED <<pos, exited>>

Next == InitListener \/ EpollWait \/ HandleEvent \/ Environment

Spec == Init /\ [][Next]_vars

(* Fairness.  The process keeps running its loop.  The kernel reports a    *)
(* descriptor that stays ready again and again (its list of ready          *)
(* descriptors is served round-robin), epoll_ctl and recv do not fail      *)
(* forever, and a client sends finitely many bytes.                        *)
Reported(fd) == \E i \in DOMAIN m_events : m_events[i].fd = fd

Progress(client) ==
  \/ unread[client] /\ ~ unread'[client]
  \/ peer[client] # "over" /\ peer'[client] = "over"
  \/ \E l \in Listeners : client \in backlog[l] /\ client \notin backlog'[l]

FairSpec ==
  /\ Spec
  /\ WF_vars(InitListener)
  /\ WF_vars(EpollWait)
  /\ WF_vars(HandleEvent)
  /\ \A fd \in Fds : SF_vars(EpollWait /\ Reported(fd)')
  /\ \A client \in Clients : SF_vars(HandleEvent /\ Progress(client))

-----------------------------------------------------------------------------
(* Properties                                                              *)

InUse(c) == pool.conn[c].fd # -1
Registered(fd) == interest[fd] # NotRegistered
ServesClient(c) == InUse(c) /\ pool.conn[c].fd \in ConnFds
Queue == {m_MsgRecvQueue[i] : i \in DOMAIN m_MsgRecvQueue}
Held == {pool.conn[c].pnewMemPointer : c \in {d \in Conns : pool.conn[d].ifnewrecvMem}}
Live == {b \in Bufs : heap[b] # Unallocated}

TypeOK ==
  /\ pos \in 1 .. ListenPortCount + 1
  /\ exited \in BOOLEAN
  /\ pool \in Pool
  /\ m_events \in Seq([conn : Conns, instance : {0, 1}, fd : Fds,
                       revents : SUBSET {"EPOLLIN", "EPOLLERR"},
                       of : Clients \cup {NoClient}])
  /\ heap \in [Bufs -> [pConn : Conns \cup {nullptr}, iCurrsequence : Nat,
                        from : Clients \cup {NoClient}]]
  /\ m_MsgRecvQueue \in Seq(Bufs)
  /\ use_accept4 \in BOOLEAN
  /\ backlog \in [Listeners -> SUBSET Clients]
  /\ file \in [ConnFds -> Clients \cup {NoClient}]
  /\ interest \in [Fds -> [conn : Conns \cup {nullptr}, instance : {0, 1}]]
  /\ blocking \subseteq ConnFds
  /\ peer \in [Clients -> {"absent", "alive", "fin", "reset", "over"}]
  /\ unread \in [Clients -> BOOLEAN]

(* No connection object and no descriptor is ever lost or used twice: the  *)
(* free chain and the counter are right, no two connections have the same  *)
(* descriptor, and every descriptor event_accept got is either closed or   *)
(* belongs to a connection.                                                *)
PoolConserved ==
  /\ Conserved(pool)
  /\ \A c, d \in Conns : InUse(c) /\ pool.conn[c].fd = pool.conn[d].fd => c = d
  /\ \A fd \in ConnFds : file[fd] # NoClient <=> \E c \in Conns : pool.conn[c].fd = fd

(* epoll and the pool agree: a registration names the connection bound to  *)
(* its descriptor with its present instance bit, a connection in use stays *)
(* registered (or nobody would ever look at it again), and the handler is  *)
(* the one for the kind of socket.                                         *)
InterestConsistent ==
  /\ \A fd \in Fds : Registered(fd) =>
       LET c == interest[fd].conn IN
         pool.conn[c].fd = fd /\ pool.conn[c].instance = interest[fd].instance
  /\ \A c \in Conns : InUse(c) =>
       /\ Registered(pool.conn[c].fd)
       /\ pool.conn[c].listening \in Listeners
       /\ IF pool.conn[c].fd \in ListenFds
          THEN pool.conn[c].rhandler = "event_accept"
               /\ pool.conn[c].listening = pool.conn[c].fd
          ELSE pool.conn[c].rhandler = "wait_request_handler"

(* Between epoll_wait and its turn, an event never goes stale: the         *)
(* connection it points to still has the descriptor, the instance bit and  *)
(* the client it was raised for, although handlers that ran before it in   *)
(* the same batch closed connections and gave them to new clients.         *)
EventsNotStale ==
  \A i \in DOMAIN m_events :
    LET e == m_events[i] IN
      /\ pool.conn[e.conn].fd = e.fd
      /\ pool.conn[e.conn].instance = e.instance
      /\ e.fd \in ConnFds => file[e.fd] = e.of

(* What iCurrsequence is for: a queued message whose sequence number is    *)
(* the one of its connection comes from the client that is connected now;  *)
(* with any other number, that client is gone.                             *)
SequenceIdentifiesSession ==
  \A b \in Queue :
    LET c == heap[b].pConn IN
      heap[b].iCurrsequence = pool.conn[c].iCurrsequence
        <=> ServesClient(c) /\ Client(c) = heap[b].from

(* Every allocated buffer has one owner, the queue or the connection that  *)
(* is still filling it: none is leaked, none is freed twice or while it is *)
(* in use, and a connection holds one exactly while it waits for a body.   *)
BufferOwnership ==
  /\ Live = Queue \cup Held
  /\ Queue \cap Held = {}
  /\ \A i, j \in DOMAIN m_MsgRecvQueue : m_MsgRecvQueue[i] = m_MsgRecvQueue[j] => i = j
  /\ \A c, d \in Conns :
       /\ pool.conn[c].ifnewrecvMem /\ pool.conn[d].ifnewrecvMem
       /\ pool.conn[c].pnewMemPointer = pool.conn[d].pnewMemPointer
       => c = d
  /\ \A c \in Conns :
       pool.conn[c].ifnewrecvMem
         <=> ServesClient(c) /\ pool.conn[c].rx.curStat \in BodyStats

(* The memory for packages is bounded, although nobody reads the queue:    *)
(* at most one unfinished package per client and QHigh - 1 finished ones.  *)
MemoryBounded ==
  Cardinality(Live) <= QHigh - 1 + Cardinality({c \in Conns : ServesClient(c)})

(* A socket that is watched by the event loop is in non-blocking mode:     *)
(* what _include/xfly_socket.h:80 and net/xfly_socket_accept.cpp:88 ask of *)
(* setnonblocking.                                                         *)
RegisteredNonblocking == \A fd \in Fds : Registered(fd) => fd \notin blocking

(* A client that is connected to the worker and neither shut down nor      *)
(* reset the connection stays connected: no step taken for another client, *)
(* no full pool and no queue overflow disconnects it.                      *)
LiveClientKept ==
  [][\A fd \in ConnFds :
       file[fd] # NoClient /\ peer[file[fd]] = "alive" => file'[fd] = file[fd]]_vars

(* A client that left gives its connection and descriptor back: without    *)
(* this the pool would run dry.                                            *)
ClosedPeerReleased ==
  \A client \in Clients :
    (\E fd \in ConnFds : file[fd] = client) /\ peer[client] \in {"fin", "reset"}
      ~> \A fd \in ConnFds : file[fd] # client

(* A client that waits to be accepted is taken (or turned away), unless    *)
(* the worker could not start or has no descriptor left.                   *)
BacklogServed ==
  \A client \in Clients, l \in Listeners :
    client \in backlog[l] ~> client \notin backlog[l] \/ exited \/ FreeFds = {}
=============================================================================
