-------------------------- MODULE WorkerPoolProofs --------------------------
(***************************************************************************)
(* The tables of a worker and the events it has not looked at yet: the     *)
(* connection pool, the registrations with epoll and the open descriptors  *)
(* agree, and no event of a batch goes stale.  The first part is about the *)
(* pool alone: what get_connection and close_connection leave alone, and   *)
(* that no connection gets lost or into the chain twice.  The rest says    *)
(* what the handlers do to the three tables and that each of them keeps    *)
(* Tables and Events; module WorkerProofs puts that together with the      *)
(* buffers.                                                                *)
(***************************************************************************)
EXTENDS Worker, TLAPS, FiniteSetTheorems, WellFoundedInduction

-----------------------------------------------------------------------------
(* The connection pool                                                     *)

(* get_connection and what its callers fill in.                            *)
Bind(p, isock, listening, rhandler) ==
  SetHandler(GetConnection(p, isock), Head(p.free), listening, rhandler)

Handlers == {"event_accept", "wait_request_handler"}

(* The elements and the length of a chain without its head.                *)
LEMMA TailFacts ==
  ASSUME NEW T, NEW q \in Seq(T), q # << >>
  PROVE  /\ Head(q) \in T /\ Head(q) = q[1] /\ Tail(q) \in Seq(T)
         /\ Len(q) \in Nat /\ Len(q) > 0 /\ Len(Tail(q)) = Len(q) - 1
         /\ \A i \in 1 .. Len(q) - 1 : Tail(q)[i] = q[i + 1]
OBVIOUS

(* The elements and the length of a chain with a new head.                 *)
LEMMA ConsFacts ==
  ASSUME NEW T, NEW q \in Seq(T), NEW x \in T
  PROVE  /\ <<x>> \o q \in Seq(T) /\ Len(q) \in Nat /\ Len(<<x>> \o q) = Len(q) + 1
         /\ (<<x>> \o q)[1] = x
         /\ \A i \in 1 .. Len(q) : (<<x>> \o q)[i + 1] = q[i]
OBVIOUS

(* One field of one connection set.                                        *)
LEMMA ListeningSet ==
  ASSUME NEW conn, NEW free, NEW free_n, NEW h, NEW listening
  PROVE  [[conn |-> conn, free |-> free, free_n |-> free_n] EXCEPT !.conn[h].listening = listening]
           = [conn |-> [conn EXCEPT ![h] = [conn[h] EXCEPT !.listening = listening]],
              free |-> free, free_n |-> free_n]
OBVIOUS

(* Filling in the handler of a connection changes nothing else in it.      *)
LEMMA RhandlerSet ==
  ASSUME NEW conn, NEW free, NEW free_n, NEW h, NEW rhandler
  PROVE  [[conn |-> conn, free |-> free, free_n |-> free_n] EXCEPT !.conn[h].rhandler = rhandler]
           = [conn |-> [conn EXCEPT ![h] = [conn[h] EXCEPT !.rhandler = rhandler]],
              free |-> free, free_n |-> free_n]
OBVIOUS

(* The fields of a connection after get_connection and its callers.        *)
LEMMA BoundFields ==
  ASSUME NEW fd, NEW old, NEW listening, NEW instance, NEW iCurrsequence,
         NEW none, NEW rhandler, NEW rx, NEW ifnewrecvMem, NEW pnewMemPointer
  PROVE  [[[fd |-> fd, listening |-> old, instance |-> instance,
            iCurrsequence |-> iCurrsequence, rhandler |-> none, rx |-> rx,
            ifnewrecvMem |-> ifnewrecvMem, pnewMemPointer |-> pnewMemPointer]
              EXCEPT !.listening = listening] EXCEPT !.rhandler = rhandler]
           = [fd |-> fd, listening |-> listening, instance |-> instance,
              iCurrsequence |-> iCurrsequence, rhandler |-> rhandler, rx |-> rx,
              ifnewrecvMem |-> ifnewrecvMem, pnewMemPointer |-> pnewMemPointer]
<1> DEFINE bound(l, r) ==
             [fd |-> fd, listening |-> l, instance |-> instance,
              iCurrsequence |-> iCurrsequence, rhandler |-> r, rx |-> rx,
              ifnewrecvMem |-> ifnewrecvMem, pnewMemPointer |-> pnewMemPointer]
<1>1. [bound(old, none) EXCEPT !.listening = listening] = bound(listening, none)
  OBVIOUS
<1>2. [bound(listening, none) EXCEPT !.rhandler = rhandler] = bound(listening, rhandler)
  OBVIOUS
<1> HIDE DEF bound
<1>3. [[bound(old, none) EXCEPT !.listening = listening] EXCEPT !.rhandler = rhandler]
        = bound(listening, rhandler)
  BY <1>1, <1>2
<1> QED BY <1>3 DEF bound

(* What get_connection does: pool q is p with the head h of its chain      *)
(* bound to isock.                                                         *)
Binds(p, q, h, isock, listening, rhandler) ==
  /\ h \in Conns
  /\ q \in Pool
  /\ \A c \in Conns \ {h} : q.conn[c] = p.conn[c]
  /\ q.conn[h].fd = isock
  /\ q.conn[h].listening = listening
  /\ q.conn[h].rhandler = rhandler
  /\ q.conn[h].instance = 1 - p.conn[h].instance
  /\ q.conn[h].iCurrsequence = p.conn[h].iCurrsequence + 1
  /\ q.conn[h].rx = RxStart
  /\ q.conn[h].ifnewrecvMem = FALSE
  /\ q.free = Tail(p.free)
  /\ q.free_n = p.free_n - 1

(* get_connection and the assignments behind it bind the head of the chain *)
(* and leave the other connections alone.                                  *)
LEMMA BindChanges ==
  ASSUME NEW p \in Pool, p.free # << >>, NEW isock \in Nat, NEW listening \in Nat,
         NEW rhandler \in Handlers
  PROVE  Binds(p, Bind(p, isock, listening, rhandler), Head(p.free), isock, listening, rhandler)
<1> SUFFICES ASSUME NEW q, q = Bind(p, isock, listening, rhandler),
                    NEW h, h = Head(p.free)
             PROVE  Binds(p, q, h, isock, listening, rhandler)
  OBVIOUS
<1>1. /\ p.conn \in [Conns -> Connection] /\ p.free \in Seq(Conns) /\ p.free_n \in Int
  BY DEF Pool
<1>2. h \in Conns /\ Tail(p.free) \in Seq(Conns)
  BY <1>1, TailFacts
<1>3. p.conn[h] \in Connection
  BY <1>1, <1>2
<1> DEFINE fresh == Fresh(p.conn[h], isock)
           new == [[fresh EXCEPT !.listening = listening] EXCEPT !.rhandler = rhandler]
           instance == 1 - p.conn[h].instance
           iCurrsequence == p.conn[h].iCurrsequence + 1
<1>4. RxStart \in Rx
  BY PkgAssumption DEF RxStart, Rx, HeadStats, BodyStats
<1>5. instance \in {0, 1} /\ iCurrsequence \in Nat
  BY <1>3 DEF Connection
<1>6. /\ new \in Connection
      /\ new.fd = isock /\ new.instance = instance /\ new.iCurrsequence = iCurrsequence
      /\ new.rx = RxStart /\ new.ifnewrecvMem = FALSE
      /\ new.listening = listening /\ new.rhandler = rhandler
  <2>1. new = [fd |-> isock, listening |-> listening,
               instance |-> instance, iCurrsequence |-> iCurrsequence,
               rhandler |-> rhandler, rx |-> RxStart,
               ifnewrecvMem |-> FALSE, pnewMemPointer |-> nullptr]
    <3>1. fresh = [fd |-> isock, listening |-> nullptr,
                   instance |-> instance, iCurrsequence |-> iCurrsequence,
                   rhandler |-> "none", rx |-> RxStart,
                   ifnewrecvMem |-> FALSE, pnewMemPointer |-> nullptr]
      BY DEF Fresh
    <3>2. new = [[fresh EXCEPT !.listening = listening] EXCEPT !.rhandler = rhandler]
      OBVIOUS
    <3> HIDE DEF fresh, instance, iCurrsequence, new
    <3> QED BY <3>1, <3>2, BoundFields, Zenon
  <2> HIDE DEF instance, iCurrsequence, new
  <2>2. new \in Connection
    BY <1>4, <1>5, <2>1 DEF Connection, Handlers, nullptr
  <2>3. new.fd = isock /\ new.instance = instance /\ new.iCurrsequence = iCurrsequence
    BY <2>1
  <2>4. new.rx = RxStart /\ new.ifnewrecvMem = FALSE
    BY <2>1
  <2>5. new.listening = listening /\ new.rhandler = rhandler
    BY <2>1
  <2> QED BY <2>2, <2>3, <2>4, <2>5
<1> HIDE DEF fresh
<1>7. /\ q.conn = [p.conn EXCEPT ![h] = new]
      /\ q.free = Tail(p.free) /\ q.free_n = p.free_n - 1
      /\ q = [conn |-> q.conn, free |-> q.free, free_n |-> q.free_n]
  <2> DEFINE conn == [p.conn EXCEPT ![h] = fresh]
             free == Tail(p.free)
             free_n == p.free_n - 1
             got == [conn |-> conn, free |-> free, free_n |-> free_n]
             some == [got EXCEPT !.conn[h].listening = listening]
  <2>1. q = [got EXCEPT !.conn[h].listening = listening, !.conn[h].rhandler = rhandler]
    BY DEF Bind, SetHandler, GetConnection, fresh
  <2>2. conn[h] = fresh /\ h \in DOMAIN conn
    BY <1>1, <1>2
  <2> HIDE DEF conn, free, free_n
  <2>3. some = [conn |-> [conn EXCEPT ![h] = [fresh EXCEPT !.listening = listening]],
                free |-> free, free_n |-> free_n]
    BY <2>2, ListeningSet
  <2> DEFINE conn2 == [conn EXCEPT ![h] = [fresh EXCEPT !.listening = listening]]
  <2>4. conn2[h] = [fresh EXCEPT !.listening = listening]
    BY <2>2
  <2>5. q = [some EXCEPT !.conn[h].rhandler = rhandler]
    BY <2>1
  <2>6. [conn2 EXCEPT ![h] = new] = [p.conn EXCEPT ![h] = new]
    BY <1>1, <1>2 DEF conn
  <2> HIDE DEF conn2
  <2>7. some = [conn |-> conn2, free |-> free, free_n |-> free_n]
    BY <2>3 DEF conn2
  <2> HIDE DEF some
  <2>8. q = [conn |-> [conn2 EXCEPT ![h] = new], free |-> free, free_n |-> free_n]
    BY <2>4, <2>5, <2>7, RhandlerSet
  <2> QED BY <2>6, <2>8 DEF free, free_n
<1> HIDE DEF new
<1>8. q.conn \in [Conns -> Connection] /\ q.free_n \in Int
  BY <1>1, <1>2, <1>6, <1>7
<1>9. q \in Pool
  BY <1>2, <1>7, <1>8 DEF Pool
<1>10. q.conn[h] = new /\ \A c \in Conns \ {h} : q.conn[c] = p.conn[c]
  BY <1>1, <1>2, <1>7
<1> QED BY <1>2, <1>6, <1>7, <1>9, <1>10 DEF Binds

(* get_connection takes the head out of the chain and binds it.            *)
LEMMA BindConserves ==
  ASSUME NEW p \in Pool, p.free # << >>, Conserved(p), NEW isock \in Nat,
         NEW listening \in Nat, NEW rhandler \in Handlers, NEW q, NEW h, h = Head(p.free),
         Binds(p, q, h, isock, listening, rhandler)
  PROVE  /\ p.conn[h].fd = -1
         /\ Conserved(q)
<1>1. /\ h \in Conns /\ q.free = Tail(p.free) /\ q.free_n = p.free_n - 1
      /\ q.conn[h].fd = isock
      /\ \A c \in Conns \ {h} : q.conn[c] = p.conn[c]
  BY DEF Binds
<1>2. p.free \in Seq(Conns) /\ p.conn \in [Conns -> Connection]
  BY DEF Pool
<1>3. /\ h = p.free[1] /\ Len(p.free) \in Nat /\ Len(p.free) > 0
      /\ Len(q.free) = Len(p.free) - 1
      /\ \A i \in 1 .. Len(p.free) - 1 : q.free[i] = p.free[i + 1]
  BY <1>1, <1>2, TailFacts
<1>4. /\ q.conn[h].fd = isock /\ isock # -1
      /\ \A c \in Conns \ {h} : q.conn[c] = p.conn[c]
  BY <1>1
<1>5. p.conn[h].fd = -1
  BY <1>1, <1>3 DEF Conserved
<1>6. \A i, j \in 1 .. Len(q.free) : q.free[i] = q.free[j] => i = j
  BY <1>3 DEF Conserved
<1>7. ASSUME NEW c \in Conns
      PROVE  q.conn[c].fd = -1 <=> \E i \in 1 .. Len(q.free) : q.free[i] = c
  <2>1. CASE c = h
    BY <2>1, <1>3, <1>4 DEF Conserved
  <2>2. CASE c # h
    <3>1. q.conn[c].fd = -1 <=> \E i \in 1 .. Len(p.free) : p.free[i] = c
      BY <1>4, <1>7, <2>2 DEF Conserved
    <3>2. ASSUME NEW i \in 1 .. Len(p.free), p.free[i] = c
          PROVE  \E j \in 1 .. Len(q.free) : q.free[j] = c
      <4>1. i # 1 /\ i - 1 \in 1 .. Len(p.free) - 1 /\ (i - 1) + 1 = i
        BY <1>3, <2>2, <3>2
      <4>2. q.free[i - 1] = c
        BY <1>3, <3>2, <4>1
      <4> QED BY <1>3, <4>1, <4>2
    <3>3. ASSUME NEW j \in 1 .. Len(q.free), q.free[j] = c
          PROVE  \E i \in 1 .. Len(p.free) : p.free[i] = c
      BY <1>3, <3>3
    <3> QED BY <3>1, <3>2, <3>3
  <2> QED BY <2>1, <2>2
<1>8. q.free_n = Len(q.free)
  BY <1>1, <1>3 DEF Conserved
<1> QED BY <1>5, <1>6, <1>7, <1>8 DEF Conserved

(* What close_connection does: pool q is p with connection c closed.       *)
Closes(p, q, c) ==
  /\ q \in Pool
  /\ \A d \in Conns \ {c} : q.conn[d] = p.conn[d]
  /\ q.conn[c].fd = -1
  /\ q.conn[c].listening = p.conn[c].listening
  /\ q.conn[c].instance = p.conn[c].instance
  /\ q.conn[c].iCurrsequence = p.conn[c].iCurrsequence + 1
  /\ q.conn[c].rhandler = p.conn[c].rhandler
  /\ q.conn[c].rx = p.conn[c].rx
  /\ q.conn[c].ifnewrecvMem = FALSE
  /\ q.free = <<c>> \o p.free
  /\ q.free_n = p.free_n + 1

(* close_connection frees one connection, puts it at the head of the chain *)
(* and leaves the others alone.                                            *)
LEMMA CloseChanges ==
  ASSUME NEW p \in Pool, NEW c \in Conns
  PROVE  Closes(p, CloseConnection(p, c), c)
<1>1. /\ p.conn \in [Conns -> Connection] /\ p.free \in Seq(Conns) /\ p.free_n \in Int
      /\ p.conn[c] \in Connection
  BY DEF Pool
<1> DEFINE old == p.conn[c]
           new == Released(old)
<1>2. /\ new \in Connection
      /\ new.fd = -1 /\ new.listening = old.listening /\ new.instance = old.instance
      /\ new.iCurrsequence = old.iCurrsequence + 1 /\ new.rhandler = old.rhandler
      /\ new.rx = old.rx /\ new.ifnewrecvMem = FALSE
  <2> DEFINE m == IF old.ifnewrecvMem THEN nullptr ELSE old.pnewMemPointer
             n == old.iCurrsequence + 1
  <2>1. m \in Bufs \cup {nullptr} /\ n \in Nat
    BY <1>1 DEF Connection
  <2>2. new = [old EXCEPT !.fd = -1, !.ifnewrecvMem = FALSE,
                          !.pnewMemPointer = m, !.iCurrsequence = n]
    BY DEF Released
  <2> HIDE DEF m, n
  <2>3. /\ new \in Connection
        /\ new.fd = -1 /\ new.listening = old.listening /\ new.instance = old.instance
        /\ new.iCurrsequence = n /\ new.rhandler = old.rhandler
        /\ new.rx = old.rx /\ new.ifnewrecvMem = FALSE
    BY <1>1, <2>1, <2>2 DEF Connection
  <2> QED BY <2>3 DEF n
<1> HIDE DEF new
<1>3. <<c>> \o p.free \in Seq(Conns)
  BY <1>1, ConsFacts
<1> DEFINE conn == [p.conn EXCEPT ![c] = new]
<1>4. /\ conn \in [Conns -> Connection]
      /\ conn[c] = new /\ \A d \in Conns \ {c} : conn[d] = p.conn[d]
  BY <1>1, <1>2
<1>5. CloseConnection(p, c) = [conn |-> conn, free |-> <<c>> \o p.free, free_n |-> p.free_n + 1]
  BY DEF CloseConnection, new
<1> HIDE DEF conn
<1>6. CloseConnection(p, c) \in Pool
  BY <1>1, <1>3, <1>4, <1>5 DEF Pool
<1>7. CloseConnection(p, c).conn = conn
  BY <1>5
<1> QED BY <1>2, <1>4, <1>5, <1>6, <1>7 DEF Closes

(* close_connection of a connection in use puts it into the chain.         *)
LEMMA CloseConserves ==
  ASSUME NEW p \in Pool, NEW c \in Conns, Conserved(p), p.conn[c].fd # -1,
         NEW q, Closes(p, q, c)
  PROVE  Conserved(q)
<1>1. /\ p.conn \in [Conns -> Connection] /\ p.free \in Seq(Conns) /\ p.free_n \in Int
  BY DEF Pool
<1>2. q.free = <<c>> \o p.free /\ q.free_n = p.free_n + 1
  BY DEF Closes
<1>3. /\ Len(p.free) \in Nat /\ Len(q.free) = Len(p.free) + 1 /\ q.free[1] = c
      /\ \A i \in 1 .. Len(p.free) : q.free[i + 1] = p.free[i]
  BY <1>1, <1>2, ConsFacts
<1>4. q.conn[c].fd = -1 /\ \A d \in Conns \ {c} : q.conn[d] = p.conn[d]
  BY DEF Closes
<1>5. \A i \in 1 .. Len(p.free) : p.free[i] # c
  BY DEF Conserved
<1>6. \A i \in 2 .. Len(q.free) :
        i - 1 \in 1 .. Len(p.free) /\ q.free[i] = p.free[i - 1] /\ q.free[i] # c
  <2>1. ASSUME NEW i \in 2 .. Len(q.free)
        PROVE  i - 1 \in 1 .. Len(p.free) /\ (i - 1) + 1 = i
    BY <1>3, SMTT(30)
  <2> QED BY <2>1, <1>3, <1>5
<1>7. ASSUME NEW i \in 1 .. Len(q.free), NEW j \in 1 .. Len(q.free), q.free[i] = q.free[j]
      PROVE  i = j
  <2>1. i = 1 \/ i \in 2 .. Len(q.free)
    BY <1>3
  <2>2. j = 1 \/ j \in 2 .. Len(q.free)
    BY <1>3
  <2>3. CASE i = 1 \/ j = 1
    BY <2>1, <2>2, <2>3, <1>3, <1>6, <1>7
  <2>4. CASE i \in 2 .. Len(q.free) /\ j \in 2 .. Len(q.free)
    <3>1. /\ i - 1 \in 1 .. Len(p.free) /\ j - 1 \in 1 .. Len(p.free)
          /\ p.free[i - 1] = p.free[j - 1]
      BY <2>4, <1>6, <1>7
    <3>2. i - 1 = j - 1
      BY <3>1 DEF Conserved
    <3> QED BY <3>2, <2>4, <1>3
  <2> QED BY <2>1, <2>2, <2>3, <2>4
<1>8. ASSUME NEW d \in Conns
      PROVE  q.conn[d].fd = -1 <=> \E i \in 1 .. Len(q.free) : q.free[i] = d
  <2>1. CASE d = c
    <3>1. 1 \in 1 .. Len(q.free)
      BY <1>3
    <3> QED BY <2>1, <3>1, <1>3, <1>4
  <2>2. CASE d # c
    <3>1. q.conn[d].fd = -1 <=> \E i \in 1 .. Len(p.free) : p.free[i] = d
      BY <1>4, <1>8, <2>2 DEF Conserved
    <3>2. ASSUME NEW i \in 1 .. Len(p.free), p.free[i] = d
          PROVE  \E j \in 1 .. Len(q.free) : q.free[j] = d
      <4>1. i + 1 \in 1 .. Len(q.free)
        BY <1>3
      <4> QED BY <4>1, <3>2, <1>3
    <3>3. ASSUME NEW j \in 1 .. Len(q.free), q.free[j] = d
          PROVE  \E i \in 1 .. Len(p.free) : p.free[i] = d
      <4>1. j \in 2 .. Len(q.free)
        BY <1>3, <2>2, <3>3
      <4> QED BY <4>1, <3>3, <1>6
    <3> QED BY <3>1, <3>2, <3>3
  <2> QED BY <2>1, <2>2
<1>9. q.free_n = Len(q.free)
  BY <1>2, <1>3 DEF Conserved
<1> QED BY <1>7, <1>8, <1>9 DEF Conserved

(* epoll_init builds a pool in which every connection is free.             *)
LEMMA NewPoolConserved == NewPool \in Pool /\ Conserved(NewPool)
<1>1. PoolSize \in Nat /\ PoolSize > 0 /\ RxStart \in Rx
  BY PoolAssumption, PkgAssumption DEF RxStart, Rx, HeadStats, BodyStats
<1>2. NewPool.conn \in [Conns -> Connection]
  BY <1>1 DEF NewPool, Connection, nullptr
<1>3. /\ NewPool.free \in Seq(Conns) /\ Len(NewPool.free) = PoolSize
      /\ NewPool.free_n = PoolSize
      /\ \A i \in Conns : NewPool.free[i] = i
  BY <1>1 DEF NewPool, Conns
<1>4. \A c \in Conns : NewPool.conn[c].fd = -1
  BY DEF NewPool
<1>5. NewPool \in Pool
  <2>1. NewPool = [conn |-> NewPool.conn, free |-> NewPool.free, free_n |-> NewPool.free_n]
    BY DEF NewPool
  <2>2. NewPool.free_n \in Int
    BY <1>1, <1>3
  <2> HIDE DEF NewPool
  <2> QED BY <1>2, <1>3, <2>1, <2>2 DEF Pool
<1> QED BY <1>1, <1>3, <1>4, <1>5 DEF Conserved, Conns

-----------------------------------------------------------------------------
(* The tables and the events                                               *)

(* The descriptors of the connections in use are open ones.                *)
Descriptors ==
  \A c \in Conns : InUse(c) =>
    pool.conn[c].fd \in ConnFds \/ pool.conn[c].fd \in 1 .. pos - 1

Pointers == \A fd \in Fds : Registered(fd) => interest[fd].conn \in Conns

Tables == PoolConserved /\ InterestConsistent /\ Descriptors /\ Pointers

(* epoll_wait reports a descriptor once.                                   *)
EventsDistinct ==
  \A i, j \in DOMAIN m_events : m_events[i].fd = m_events[j].fd => i = j

Events == EventsNotStale /\ EventsDistinct

(* The part of TypeOK about the three tables.                              *)
TableTypes ==
  /\ pos \in 1 .. ListenPortCount + 1
  /\ pool \in Pool
  /\ interest \in [Fds -> [conn : Conns \cup {nullptr}, instance : {0, 1}]]
  /\ file \in [ConnFds -> Clients \cup {NoClient}]

EventTypes ==
  m_events \in Seq([conn : Conns, instance : {0, 1}, fd : Fds,
                    revents : SUBSET {"EPOLLIN", "EPOLLERR"},
                    of : Clients \cup {NoClient}])

-----------------------------------------------------------------------------
(* Descriptors                                                             *)

(* Listening sockets come first, then the descriptors of clients.          *)
LEMMA FdFacts ==
  /\ ListenPortCount \in Nat /\ ListenPortCount > 0
  /\ \A fd \in Fds : fd \in Nat /\ fd # -1 /\ fd > 0
  /\ \A fd \in ListenFds : fd \in Fds /\ fd \notin ConnFds
  /\ \A fd \in ConnFds : fd \in Fds /\ fd \notin ListenFds
  /\ \A fd \in Fds : fd \in ListenFds \/ fd \in ConnFds
  /\ ListenFds = Listeners
BY WorkerAssumption DEF Fds, ListenFds, ConnFds, Listeners

(* Every set of natural numbers has a least element.                       *)
LEMMA LeastNumber ==
  ASSUME NEW S \in SUBSET Nat, S # {}
  PROVE  \E m \in S : \A n \in S : m <= n
<1> DEFINE R == {ss \in Nat \X Nat : ss[1] < ss[2]}
<1>1. R = OpToRel(<, Nat)
  BY Zenon DEF OpToRel
<1>2. IsWellFoundedOn(R, Nat)
  BY <1>1, NatLessThanWellFounded, Zenon
<1>3. \A x, y \in S : <<y, x>> \notin R => x <= y
  OBVIOUS
<1> HIDE DEF R
<1>4. PICK m \in S : \A n \in S : ~ (<<n, m>> \in R)
  BY <1>2, WFMin
<1> QED BY <1>3, <1>4

(* The descriptor that accept returns was not open.                        *)
LEMMA AcceptedFree ==
  ASSUME NEW c, NEW s, NEW client, Accepted(c, s, client)
  PROVE  s \in ConnFds /\ file[s] = NoClient
<1>1. FreeFds \in SUBSET Nat /\ FreeFds # {}
  BY FdFacts DEF Accepted, FreeFds
<1>2. PICK m \in FreeFds : \A n \in FreeFds : m <= n
  BY <1>1, LeastNumber
<1>3. LowestFreeFd \in FreeFds
  BY <1>2 DEF LowestFreeFd
<1> QED BY <1>3 DEF Accepted, FreeFds

-----------------------------------------------------------------------------
(* What the handlers do to the tables                                      *)

(* The receive state and the buffer of connection c change, not whom it    *)
(* serves.                                                                 *)
Keeps(p, q, c) ==
  /\ q \in Pool
  /\ \A d \in Conns \ {c} : q.conn[d] = p.conn[d]
  /\ q.conn[c].fd = p.conn[c].fd
  /\ q.conn[c].listening = p.conn[c].listening
  /\ q.conn[c].instance = p.conn[c].instance
  /\ q.conn[c].iCurrsequence = p.conn[c].iCurrsequence
  /\ q.conn[c].rhandler = p.conn[c].rhandler
  /\ q.free = p.free
  /\ q.free_n = p.free_n

(* The head of the chain is bound to fd and registered.                    *)
Registers(fd, listening, rhandler) ==
  /\ pool.free # << >>
  /\ Binds(pool, pool', Head(pool.free), fd, listening, rhandler)
  /\ interest' = [interest EXCEPT ![fd] =
                    [conn |-> Head(pool.free), instance |-> pool'.conn[Head(pool.free)].instance]]

(* A connection is taken for fd and given back at once.                    *)
Undoes(fd, listening) ==
  /\ pool.free # << >>
  /\ \E p \in Pool :
       /\ Binds(pool, p, Head(pool.free), fd, listening, "wait_request_handler")
       /\ Closes(p, pool', Head(pool.free))
  /\ UNCHANGED <<interest, file>>

(* Connection c and its descriptor are closed.                             *)
Ends(c) ==
  /\ Closes(pool, pool', c)
  /\ file' = [file EXCEPT ![pool.conn[c].fd] = NoClient]
  /\ interest' = [interest EXCEPT ![pool.conn[c].fd] = NotRegistered]

(* A descriptor that is not open is not in any table.                      *)
LEMMA FreeFdUnused ==
  ASSUME TableTypes, Tables, NEW s \in ConnFds, file[s] = NoClient
  PROVE  /\ \A c \in Conns : pool.conn[c].fd # s
         /\ interest[s] = NotRegistered
<1>1. \A c \in Conns : pool.conn[c].fd # s
  BY DEF Tables, PoolConserved
<1>2. s \in Fds
  BY FdFacts
<1> QED BY <1>1, <1>2 DEF Tables, Pointers, InterestConsistent, Registered

(* A descriptor that is not open may be closed: nothing changes.           *)
LEMMA CloseUnused ==
  ASSUME TableTypes, Tables, NEW s \in ConnFds, file[s] = NoClient, NEW client,
         KernelClose(s, client)
  PROVE  UNCHANGED <<interest, file>>
<1>1. interest[s] = NotRegistered
  BY FreeFdUnused
<1>2. interest' = interest
  BY <1>1 DEF KernelClose, TableTypes
<1>3. file' = file
  BY DEF KernelClose, TableTypes
<1> QED BY <1>2, <1>3

(* Registering a new descriptor keeps the tables.                          *)
LEMMA RegistersTables ==
  ASSUME TableTypes, Tables, NEW fd \in Fds, NEW listening \in Listeners,
         NEW rhandler \in Handlers, Registers(fd, listening, rhandler),
         \A c \in Conns : pool.conn[c].fd # fd,
         IF fd \in ListenFds
         THEN rhandler = "event_accept" /\ listening = fd /\ fd < pos'
         ELSE rhandler = "wait_request_handler",
         pos \in Nat, pos' \in Nat, pos <= pos',
         \A d \in ConnFds : file'[d] # NoClient <=> file[d] # NoClient \/ d = fd
  PROVE  Tables'
<1> DEFINE h == Head(pool.free)
<1>1. /\ h \in Conns
      /\ \A c \in Conns \ {h} : pool'.conn[c] = pool.conn[c]
      /\ pool'.conn[h].fd = fd /\ pool'.conn[h].listening = listening
      /\ pool'.conn[h].rhandler = rhandler
  BY DEF Registers, Binds
<1>2. pool.conn[h].fd = -1 /\ Conserved(pool')
  <2>1. fd \in Nat /\ listening \in Nat /\ pool \in Pool /\ Conserved(pool)
    BY FdFacts DEF Listeners, TableTypes, Tables, PoolConserved
  <2> QED BY <2>1, BindConserves DEF Registers
<1>3. /\ interest'[fd] = [conn |-> h, instance |-> pool'.conn[h].instance]
      /\ \A d \in Fds \ {fd} : interest'[d] = interest[d]
  BY DEF Registers, TableTypes
<1>4. fd # -1 /\ interest'[fd] # NotRegistered
  <2>1. interest'[fd].conn = h /\ h # nullptr
    BY <1>1, <1>3 DEF Conns, nullptr
  <2> QED BY <2>1, FdFacts DEF NotRegistered
<1> HIDE DEF h
<1>5. PoolConserved'
  <2>1. ASSUME NEW c \in Conns, NEW d \in Conns, InUse(c)', pool'.conn[c].fd = pool'.conn[d].fd
        PROVE  c = d
    BY <2>1, <1>1 DEF Tables, PoolConserved, InUse
  <2>2. ASSUME NEW d \in ConnFds
        PROVE  file'[d] # NoClient <=> \E c \in Conns : pool'.conn[c].fd = d
    <3>1. file[d] # NoClient <=> \E c \in Conns : pool.conn[c].fd = d
      BY DEF Tables, PoolConserved
    <3>2. CASE d = fd
      BY <3>2, <1>1
    <3>3. CASE d # fd
      <4>1. d # -1
        BY FdFacts
      <4>2. \A c \in Conns : pool'.conn[c].fd = d <=> pool.conn[c].fd = d
        BY <3>3, <4>1, <1>1, <1>2
      <4> QED BY <3>1, <3>3, <4>2
    <3> QED BY <3>2, <3>3
  <2> QED BY <1>2, <2>1, <2>2 DEF PoolConserved
<1>6. InterestConsistent'
  <2>1. ASSUME NEW d \in Fds, Registered(d)'
        PROVE  /\ interest'[d].conn \in Conns
               /\ pool'.conn[interest'[d].conn].fd = d
               /\ pool'.conn[interest'[d].conn].instance = interest'[d].instance
    <3>1. CASE d = fd
      BY <3>1, <1>1, <1>3
    <3>2. CASE d # fd
      <4>1. Registered(d) /\ interest'[d] = interest[d]
        BY <2>1, <3>2, <1>3 DEF Registered
      <4>2. /\ interest[d].conn \in Conns /\ pool.conn[interest[d].conn].fd = d
            /\ pool.conn[interest[d].conn].instance = interest[d].instance
        BY <4>1 DEF Tables, InterestConsistent, Pointers
      <4>3. interest[d].conn # h
        BY <4>2, <1>2, FdFacts
      <4> QED BY <4>1, <4>2, <4>3, <1>1
    <3> QED BY <3>1, <3>2
  <2>2. ASSUME NEW c \in Conns, InUse(c)'
        PROVE  /\ interest'[pool'.conn[c].fd] # NotRegistered
               /\ pool'.conn[c].listening \in Listeners
               /\ IF pool'.conn[c].fd \in ListenFds
                  THEN pool'.conn[c].rhandler = "event_accept"
                       /\ pool'.conn[c].listening = pool'.conn[c].fd
                  ELSE pool'.conn[c].rhandler = "wait_request_handler"
    <3>1. CASE c = h
      BY <3>1, <1>1, <1>4, FdFacts
    <3>2. CASE c # h
      <4>1. pool'.conn[c] = pool.conn[c] /\ InUse(c)
        BY <2>2, <3>2, <1>1 DEF InUse
      <4>2. /\ Registered(pool.conn[c].fd)
            /\ pool.conn[c].listening \in Listeners
            /\ IF pool.conn[c].fd \in ListenFds
               THEN pool.conn[c].rhandler = "event_accept"
                    /\ pool.conn[c].listening = pool.conn[c].fd
               ELSE pool.conn[c].rhandler = "wait_request_handler"
        BY <4>1 DEF Tables, InterestConsistent
      <4>3. pool.conn[c].fd \in Fds \ {fd}
        <5>1. pool.conn[c].fd \in ConnFds \/ pool.conn[c].fd \in 1 .. pos - 1
          BY <4>1 DEF Tables, Descriptors
        <5> QED BY <5>1, FdFacts DEF TableTypes, ListenFds
      <4> QED BY <4>1, <4>2, <4>3, <1>3 DEF Registered
    <3> QED BY <3>1, <3>2
  <2> QED BY <2>1, <2>2 DEF InterestConsistent, Registered
<1>7. Descriptors'
  <2>1. ASSUME NEW c \in Conns, InUse(c)'
        PROVE  pool'.conn[c].fd \in ConnFds \/ pool'.conn[c].fd \in 1 .. pos' - 1
    <3>1. CASE c = h
      BY <3>1, <1>1, FdFacts
    <3>2. CASE c # h
      <4>1. pool'.conn[c] = pool.conn[c] /\ InUse(c)
        BY <2>1, <3>2, <1>1 DEF InUse
      <4> QED BY <4>1 DEF Tables, Descriptors
    <3> QED BY <3>1, <3>2
  <2> QED BY <2>1 DEF Descriptors
<1>8. Pointers'
  <2>1. ASSUME NEW d \in Fds, Registered(d)'
        PROVE  interest'[d].conn \in Conns
    BY <2>1, <1>1, <1>3 DEF Tables, Pointers, Registered
  <2> QED BY <2>1 DEF Pointers
<1> QED BY <1>5, <1>6, <1>7, <1>8 DEF Tables

(* The connections in use stay as they are.                                *)
SameUse ==
  /\ pool' \in Pool /\ Conserved(pool')
  /\ \A c \in Conns : pool'.conn[c].fd = pool.conn[c].fd
  /\ \A c \in Conns : InUse(c) =>
       /\ pool'.conn[c].listening = pool.conn[c].listening
       /\ pool'.conn[c].instance = pool.conn[c].instance
       /\ pool'.conn[c].rhandler = pool.conn[c].rhandler
  /\ interest' = interest
  /\ file' = file

(* When no connection is bound or closed, the tables stay right.           *)
LEMMA SameUseTables ==
  ASSUME TableTypes, Tables, SameUse, pos \in Nat, pos' \in Nat, pos <= pos'
  PROVE  Tables'
<1>1. PoolConserved'
  <2>1. ASSUME NEW c \in Conns, NEW d \in Conns, InUse(c)', pool'.conn[c].fd = pool'.conn[d].fd
        PROVE  c = d
    BY <2>1 DEF Tables, PoolConserved, InUse, SameUse
  <2>2. \A d \in ConnFds : file'[d] # NoClient <=> \E c \in Conns : pool'.conn[c].fd = d
    BY DEF Tables, PoolConserved, SameUse
  <2> QED BY <2>1, <2>2 DEF PoolConserved, SameUse
<1>2. InterestConsistent'
  <2>1. ASSUME NEW d \in Fds, Registered(d)'
        PROVE  /\ pool'.conn[interest'[d].conn].fd = d
               /\ pool'.conn[interest'[d].conn].instance = interest'[d].instance
    <3>1. Registered(d) /\ interest'[d] = interest[d]
      BY <2>1 DEF Registered, SameUse
    <3>2. /\ interest[d].conn \in Conns /\ pool.conn[interest[d].conn].fd = d
          /\ pool.conn[interest[d].conn].instance = interest[d].instance
      BY <3>1 DEF Tables, InterestConsistent, Pointers
    <3>3. InUse(interest[d].conn)
      BY <3>2, FdFacts DEF InUse
    <3> QED BY <3>1, <3>2, <3>3 DEF SameUse
  <2>2. ASSUME NEW c \in Conns, InUse(c)'
        PROVE  /\ interest'[pool'.conn[c].fd] # NotRegistered
               /\ pool'.conn[c].listening \in Listeners
               /\ IF pool'.conn[c].fd \in ListenFds
                  THEN pool'.conn[c].rhandler = "event_accept"
                       /\ pool'.conn[c].listening = pool'.conn[c].fd
                  ELSE pool'.conn[c].rhandler = "wait_request_handler"
    <3>1. InUse(c)
      BY <2>2 DEF InUse, SameUse
    <3> QED BY <3>1 DEF Tables, InterestConsistent, SameUse, Registered
  <2> QED BY <2>1, <2>2 DEF InterestConsistent, Registered
<1>3. Descriptors'
  BY DEF Tables, Descriptors, SameUse, InUse
<1>4. Pointers'
  BY DEF Tables, Pointers, SameUse, Registered
<1> QED BY <1>1, <1>2, <1>3, <1>4 DEF Tables

(* Receiving binds and closes nothing.                                     *)
LEMMA KeepsSameUse ==
  ASSUME TableTypes, Tables, NEW c \in Conns, Keeps(pool, pool', c), UNCHANGED <<interest, file>>
  PROVE  SameUse
<1>1. \A d \in Conns :
        /\ pool'.conn[d].fd = pool.conn[d].fd
        /\ pool'.conn[d].listening = pool.conn[d].listening
        /\ pool'.conn[d].instance = pool.conn[d].instance
        /\ pool'.conn[d].rhandler = pool.conn[d].rhandler
  BY DEF Keeps
<1>2. Conserved(pool')
  BY <1>1 DEF Tables, PoolConserved, Conserved, Keeps
<1> QED BY <1>1, <1>2 DEF SameUse, Keeps

(* Neither does a connection that is given back at once.                   *)
LEMMA UndoesSameUse ==
  ASSUME TableTypes, Tables, NEW fd \in Fds, NEW listening \in Listeners, Undoes(fd, listening)
  PROVE  SameUse
<1> DEFINE h == Head(pool.free)
<1>1. PICK p \in Pool :
        /\ Binds(pool, p, h, fd, listening, "wait_request_handler")
        /\ Closes(p, pool', h)
  BY DEF Undoes
<1>2. /\ h \in Conns
      /\ \A c \in Conns \ {h} : p.conn[c] = pool.conn[c]
      /\ p.conn[h].fd = fd
  BY <1>1 DEF Binds
<1>3. /\ \A c \in Conns \ {h} : pool'.conn[c] = p.conn[c]
      /\ pool'.conn[h].fd = -1
      /\ pool' \in Pool
  BY <1>1 DEF Closes
<1>4. pool.conn[h].fd = -1 /\ Conserved(p)
  <2>1. fd \in Nat /\ listening \in Nat /\ pool \in Pool /\ Conserved(pool)
    BY FdFacts DEF Listeners, TableTypes, Tables, PoolConserved
  <2>2. "wait_request_handler" \in Handlers /\ pool.free # << >>
    BY DEF Handlers, Undoes
  <2> QED BY <1>1, <2>1, <2>2, BindConserves
<1>5. Conserved(pool')
  BY <1>1, <1>2, <1>4, CloseConserves, FdFacts
<1> HIDE DEF h
<1>6. ASSUME NEW c \in Conns
      PROVE  /\ pool'.conn[c].fd = pool.conn[c].fd
             /\ InUse(c) => pool'.conn[c] = pool.conn[c]
  BY <1>2, <1>3, <1>4 DEF InUse
<1> QED BY <1>3, <1>5, <1>6 DEF SameUse, Undoes

(* Closing a connection to a client keeps the tables.                      *)
LEMMA EndsTables ==
  ASSUME TableTypes, Tables, NEW c \in Conns, ServesClient(c), Ends(c), pos' = pos
  PROVE  Tables'
<1> DEFINE fd == pool.conn[c].fd
<1>1. /\ fd \in ConnFds /\ fd \in Fds /\ fd # -1
      /\ InUse(c)
  BY FdFacts DEF ServesClient
<1>2. /\ \A d \in Conns \ {c} : pool'.conn[d] = pool.conn[d]
      /\ pool'.conn[c].fd = -1
  BY DEF Ends, Closes
<1>3. /\ file'[fd] = NoClient /\ interest'[fd] = NotRegistered
      /\ \A d \in ConnFds \ {fd} : file'[d] = file[d]
      /\ \A d \in Fds \ {fd} : interest'[d] = interest[d]
  BY <1>1 DEF Ends, TableTypes
<1>4. \A d \in Conns : pool.conn[d].fd = fd => d = c
  BY <1>1 DEF Tables, PoolConserved
<1>5. Conserved(pool')
  BY <1>1, CloseConserves DEF Ends, Tables, PoolConserved, TableTypes
<1> HIDE DEF fd
<1>6. PoolConserved'
  <2>1. ASSUME NEW d \in Conns, NEW e \in Conns, InUse(d)', pool'.conn[d].fd = pool'.conn[e].fd
        PROVE  d = e
    BY <2>1, <1>2 DEF Tables, PoolConserved, InUse
  <2>2. ASSUME NEW d \in ConnFds
        PROVE  file'[d] # NoClient <=> \E e \in Conns : pool'.conn[e].fd = d
    <3>1. file[d] # NoClient <=> \E e \in Conns : pool.conn[e].fd = d
      BY DEF Tables, PoolConserved
    <3>2. d # -1
      BY FdFacts
    <3>3. CASE d = fd
      BY <3>2, <3>3, <1>2, <1>3, <1>4
    <3>4. CASE d # fd
      <4>1. \A e \in Conns : pool'.conn[e].fd = d <=> pool.conn[e].fd = d
        BY <3>2, <3>4, <1>2 DEF fd
      <4> QED BY <3>1, <3>4, <4>1, <1>3
    <3> QED BY <3>3, <3>4
  <2> QED BY <1>5, <2>1, <2>2 DEF PoolConserved
<1>7. InterestConsistent'
  <2>1. ASSUME NEW d \in Fds, Registered(d)'
        PROVE  /\ pool'.conn[interest'[d].conn].fd = d
               /\ pool'.conn[interest'[d].conn].instance = interest'[d].instance
    <3>1. d # fd
      BY <2>1, <1>3 DEF Registered
    <3>2. Registered(d) /\ interest'[d] = interest[d]
      BY <2>1, <3>1, <1>3 DEF Registered
    <3>3. /\ interest[d].conn \in Conns /\ pool.conn[interest[d].conn].fd = d
          /\ pool.conn[interest[d].conn].instance = interest[d].instance
      BY <3>2 DEF Tables, InterestConsistent, Pointers
    <3>4. interest[d].conn # c
      BY <3>1, <3>3 DEF fd
    <3> QED BY <3>2, <3>3, <3>4, <1>2
  <2>2. ASSUME NEW d \in Conns, InUse(d)'
        PROVE  /\ interest'[pool'.conn[d].fd] # NotRegistered
               /\ pool'.conn[d].listening \in Listeners
               /\ IF pool'.conn[d].fd \in ListenFds
                  THEN pool'.conn[d].rhandler = "event_accept"
                       /\ pool'.conn[d].listening = pool'.conn[d].fd
                  ELSE pool'.conn[d].rhandler = "wait_request_handler"
    <3>1. d # c
      BY <2>2, <1>2 DEF InUse
    <3>2. pool'.conn[d] = pool.conn[d] /\ InUse(d)
      BY <2>2, <3>1, <1>2 DEF InUse
    <3>3. /\ interest[pool.conn[d].fd] # NotRegistered
          /\ pool.conn[d].listening \in Listeners
          /\ IF pool.conn[d].fd \in ListenFds
             THEN pool.conn[d].rhandler = "event_accept"
                  /\ pool.conn[d].listening = pool.conn[d].fd
             ELSE pool.conn[d].rhandler = "wait_request_handler"
      BY <3>2 DEF Tables, InterestConsistent, Registered
    <3>4. pool.conn[d].fd \in Fds \ {fd}
      <4>1. pool.conn[d].fd \in ConnFds \/ pool.conn[d].fd \in 1 .. pos - 1
        BY <3>2 DEF Tables, Descriptors
      <4> QED BY <3>1, <4>1, <1>4, FdFacts DEF TableTypes, ListenFds
    <3> QED BY <3>2, <3>3, <3>4, <1>3
  <2> QED BY <2>1, <2>2 DEF InterestConsistent, Registered
<1>8. Descriptors'
  <2>1. ASSUME NEW d \in Conns, InUse(d)'
        PROVE  pool'.conn[d].fd \in ConnFds \/ pool'.conn[d].fd \in 1 .. pos' - 1
    <3>1. d # c
      BY <2>1, <1>2 DEF InUse
    <3>2. pool'.conn[d] = pool.conn[d] /\ InUse(d)
      BY <2>1, <3>1, <1>2 DEF InUse
    <3> QED BY <3>2 DEF Tables, Descriptors
  <2> QED BY <2>1 DEF Descriptors
<1>9. Pointers'
  <2>1. ASSUME NEW d \in Fds, Registered(d)'
        PROVE  interest'[d].conn \in Conns
    BY <2>1, <1>3 DEF Tables, Pointers, Registered
  <2> QED BY <2>1 DEF Pointers
<1> QED BY <1>6, <1>7, <1>8, <1>9 DEF Tables

-----------------------------------------------------------------------------
(* The handlers                                                            *)

(* event_accept: nothing, or a client is registered, or taken and closed.  *)
LEMMA AcceptEffect ==
  ASSUME TableTypes, Tables, NEW c \in Conns, InUse(c),
         pool.conn[c].rhandler = "event_accept", EventAccept(c)
  PROVE  LET listening == pool.conn[c].listening IN
           /\ listening \in Listeners
           /\ \/ UNCHANGED <<pool, file, interest>>
              \/ \E s \in ConnFds, client \in Clients :
                   /\ file[s] = NoClient
                   /\ Registers(s, listening, "wait_request_handler")
                   /\ file' = [file EXCEPT ![s] = client]
                   /\ client \in backlog[listening]
                   /\ backlog' = [backlog EXCEPT ![listening] = @ \ {client}]
                   /\ peer' = peer
              \/ \E s \in ConnFds : file[s] = NoClient /\ Undoes(s, listening)
<1> DEFINE listening == pool.conn[c].listening
           h == Head(pool.free)
<1>1. listening \in Listeners /\ listening \in Nat
  BY SMTT(30) DEF Tables, InterestConsistent, Listeners
<1>2. pool \in Pool /\ "wait_request_handler" \in Handlers
  BY DEF TableTypes, Handlers
<1>3. ASSUME NEW s \in ConnFds, pool.free # << >>
      PROVE  /\ WithClient(c, s) = Bind(pool, s, listening, "wait_request_handler")
             /\ Binds(pool, WithClient(c, s), h, s, listening, "wait_request_handler")
             /\ h \in Conns /\ WithClient(c, s) \in Pool
  <2>1. s \in Nat
    BY FdFacts
  <2>2. WithClient(c, s) = Bind(pool, s, listening, "wait_request_handler")
    BY DEF WithClient, Bind
  <2>3. Binds(pool, WithClient(c, s), h, s, listening, "wait_request_handler")
    BY <1>1, <1>2, <1>3, <2>1, <2>2, BindChanges
  <2> QED BY <2>2, <2>3 DEF Binds
<1> HIDE DEF listening, h
<1>4. CASE AcceptNothing(c)
  BY <1>1, <1>4 DEF AcceptNothing, listening
<1>5. CASE AcceptTurnAway(c)
  <2>1. PICK s \in ConnFds, client \in Clients : Accepted(c, s, client) /\ KernelClose(s, client)
    BY <1>5 DEF AcceptTurnAway
  <2>2. file[s] = NoClient
    BY <2>1, AcceptedFree
  <2>3. UNCHANGED <<interest, file>> /\ pool' = pool
    BY <1>5, <2>1, <2>2, CloseUnused DEF AcceptTurnAway
  <2> QED BY <1>1, <2>3 DEF listening
<1>6. CASE AcceptRegister(c)
  <2>1. PICK s \in ConnFds, client \in Clients :
          /\ Accepted(c, s, client)
          /\ pool' = WithClient(c, s)
          /\ interest' = [interest EXCEPT ![s] = DataPtr(WithClient(c, s), h)]
          /\ file' = [file EXCEPT ![s] = client]
    BY <1>6 DEF AcceptRegister, h
  <2>2. file[s] = NoClient
    BY <2>1, AcceptedFree
  <2>3. pool.free # << >>
    BY <1>6 DEF AcceptRegister
  <2>4. Registers(s, listening, "wait_request_handler")
    BY <1>3, <2>1, <2>3 DEF Registers, DataPtr, h
  <2>5. /\ client \in backlog[listening]
        /\ backlog' = [backlog EXCEPT ![listening] = @ \ {client}]
        /\ peer' = peer
    BY <1>6, <2>1 DEF Accepted, AcceptRegister, listening
  <2> QED BY <1>1, <2>1, <2>2, <2>4, <2>5 DEF listening
<1>7. CASE AcceptUnregistered(c)
  <2>1. PICK s \in ConnFds, client \in Clients :
          /\ Accepted(c, s, client)
          /\ pool' = CloseConnection(WithClient(c, s), h)
          /\ KernelClose(s, client)
    BY <1>7 DEF AcceptUnregistered, h
  <2>2. file[s] = NoClient
    BY <2>1, AcceptedFree
  <2>3. pool.free # << >>
    BY <1>7 DEF AcceptUnregistered
  <2>4. UNCHANGED <<interest, file>>
    BY <2>1, <2>2, CloseUnused
  <2>5. Closes(WithClient(c, s), pool', h)
    BY <1>3, <2>1, <2>3, CloseChanges
  <2>6. Undoes(s, listening)
    BY <1>3, <2>3, <2>4, <2>5 DEF Undoes, h
  <2> QED BY <1>1, <2>2, <2>6 DEF listening
<1> QED BY <1>4, <1>5, <1>6, <1>7 DEF EventAccept

(* A connection that still serves the same.                                *)
SameBinding(old, v) ==
  /\ v \in Connection
  /\ v.fd = old.fd
  /\ v.listening = old.listening
  /\ v.instance = old.instance
  /\ v.iCurrsequence = old.iCurrsequence
  /\ v.rhandler = old.rhandler

(* A pool with another value for one connection.                           *)
WithConn(p, c, v) == [p EXCEPT !.conn[c] = v]

(* An assignment to one connection that leaves its binding alone.          *)
LEMMA ConnectionSet ==
  ASSUME NEW p \in Pool, NEW c \in Conns, NEW v, SameBinding(p.conn[c], v)
  PROVE  Keeps(p, WithConn(p, c, v), c) /\ WithConn(p, c, v).conn[c] = v
<1> SUFFICES ASSUME NEW q, q = WithConn(p, c, v)
             PROVE  Keeps(p, q, c) /\ q.conn[c] = v
  OBVIOUS
<1> DEFINE conn == [p.conn EXCEPT ![c] = v]
<1>1. /\ p.conn \in [Conns -> Connection] /\ p.free \in Seq(Conns) /\ p.free_n \in Int
  BY DEF Pool
<1>2. conn \in [Conns -> Connection] /\ conn[c] = v
      /\ \A d \in Conns \ {c} : conn[d] = p.conn[d]
  BY <1>1 DEF SameBinding
<1>3. q = [p EXCEPT !.conn = conn]
  BY DEF WithConn
<1> HIDE DEF conn
<1>4. q \in Pool /\ q.conn = conn /\ q.free = p.free /\ q.free_n = p.free_n
  BY <1>2, <1>3 DEF Pool
<1> QED BY <1>2, <1>4 DEF Keeps, SameBinding

(* Waiting for a header, the connection finds a buffer for it.             *)
Room(c) == pool.conn[c].rx.curStat \in HeadStats => AllocMemory \in Bufs

(* The types of the fields of a connection.                                *)
LEMMA ConnTypes ==
  ASSUME NEW p \in Pool, NEW c \in Conns
  PROVE  /\ p.conn[c] \in Connection
         /\ p.conn[c].rx \in Rx
         /\ p.conn[c].fd \in Nat \cup {-1} /\ p.conn[c].iCurrsequence \in Nat
         /\ p.conn[c].listening \in Nat /\ p.conn[c].instance \in {0, 1}
         /\ p.conn[c].ifnewrecvMem \in BOOLEAN
         /\ p.conn[c].pnewMemPointer \in Bufs \cup {nullptr}
BY DEF Pool, Connection

(* The types of what the receive functions assign, and in which half of a  *)
(* package they leave the connection.                                      *)
LEMMA RxTypes ==
  /\ RxStart \in Rx /\ RxStart.curStat = "HD_INIT"
  /\ \A e_pkgLen \in PkgLens : ~ BadLen(e_pkgLen) =>
       RxBody(e_pkgLen) \in Rx /\ RxBody(e_pkgLen).curStat = "BD_INIT"
  /\ \A rx \in Rx, n \in Nat : n <= rx.irecvlen =>
       /\ RxPartial(rx, n) \in Rx
       /\ RxPartial(rx, n).curStat \in BodyStats <=> rx.curStat \in BodyStats
  /\ \A rx \in Rx : rx.curStat \in HeadStats <=> rx.curStat \notin BodyStats
<1>1. RxStart \in Rx /\ RxStart.curStat = "HD_INIT"
  BY PkgAssumption DEF RxStart, Rx, HeadStats, BodyStats
<1>2. ASSUME NEW e_pkgLen \in PkgLens, ~ BadLen(e_pkgLen)
      PROVE  RxBody(e_pkgLen) \in Rx /\ RxBody(e_pkgLen).curStat = "BD_INIT"
  <2>1. e_pkgLen \in Nat /\ HdrLen \in Nat /\ MaxPkgLen \in Nat
    BY PkgAssumption, WorkerAssumption
  <2>2. e_pkgLen - HdrLen \in Nat
    BY <1>2, <2>1 DEF BadLen
  <2> QED BY <2>1, <2>2 DEF RxBody, Rx, HeadStats, BodyStats
<1>3. ASSUME NEW rx \in Rx, NEW n \in Nat, n <= rx.irecvlen
      PROVE  /\ RxPartial(rx, n) \in Rx
             /\ RxPartial(rx, n).curStat \in BodyStats <=> rx.curStat \in BodyStats
  <2>1. /\ rx.irecvlen - n \in Nat /\ rx.off + n \in Nat
        /\ rx.buf \in {"dataHeadInfo", "pnewMem"}
        /\ rx.curStat \in HeadStats \cup BodyStats
    BY <1>3 DEF Rx
  <2> QED BY <2>1 DEF RxPartial, Rx, HeadStats, BodyStats
<1>4. \A rx \in Rx : rx.curStat \in HeadStats <=> rx.curStat \notin BodyStats
  BY DEF Rx, HeadStats, BodyStats
<1> QED BY <1>1, <1>2, <1>3, <1>4

(* A piece of a header or a body.                                          *)
LEMMA PartEffect ==
  ASSUME NEW c \in Conns, pool \in Pool, RecvPart(c)
  PROVE  /\ Keeps(pool, pool', c)
         /\ pool'.conn[c].ifnewrecvMem = pool.conn[c].ifnewrecvMem
         /\ pool'.conn[c].pnewMemPointer = pool.conn[c].pnewMemPointer
         /\ pool'.conn[c].rx.curStat \in BodyStats <=> pool.conn[c].rx.curStat \in BodyStats
         /\ UNCHANGED <<heap, m_MsgRecvQueue, backlog, file, interest, blocking, peer>>
<1>1. PICK n \in 1 .. MaxPkgLen :
        Recv(c, n) /\ pool' = [pool EXCEPT !.conn[c].rx = RxPartial(@, n)]
  BY DEF RecvPart
<1> DEFINE rx == RxPartial(pool.conn[c].rx, n)
           v == [pool.conn[c] EXCEPT !.rx = rx]
<1>2. n \in Nat /\ n <= pool.conn[c].rx.irecvlen
  BY <1>1 DEF Recv
<1>3. rx \in Rx /\ (rx.curStat \in BodyStats <=> pool.conn[c].rx.curStat \in BodyStats)
  BY <1>2, ConnTypes, RxTypes
<1>4. pool' = WithConn(pool, c, v)
  BY <1>1 DEF WithConn
<1> HIDE DEF rx
<1>5. /\ SameBinding(pool.conn[c], v)
      /\ v.rx = rx
      /\ v.ifnewrecvMem = pool.conn[c].ifnewrecvMem
      /\ v.pnewMemPointer = pool.conn[c].pnewMemPointer
  BY <1>3, ConnTypes DEF Connection, SameBinding
<1> HIDE DEF v
<1>6. Keeps(pool, pool', c) /\ pool'.conn[c] = v
  BY <1>4, <1>5, ConnectionSet
<1> QED BY <1>1, <1>3, <1>5, <1>6 DEF Recv, RecvPart

(* A connection that lets go of its buffer.                                *)
LEMMA HandOverEffect ==
  ASSUME NEW c \in Conns, pool \in Pool, pool' = WithConn(pool, c, HandedOver(pool.conn[c]))
  PROVE  /\ Keeps(pool, pool', c)
         /\ pool'.conn[c].ifnewrecvMem = FALSE
         /\ pool'.conn[c].rx = RxStart
<1> DEFINE v == HandedOver(pool.conn[c])
<1>1. /\ SameBinding(pool.conn[c], v)
      /\ v.rx = RxStart
      /\ v.ifnewrecvMem = FALSE
  <2>1. RxStart \in Rx
    BY RxTypes
  <2> QED BY <2>1, ConnTypes DEF Connection, SameBinding, HandedOver
<1> HIDE DEF v
<1>2. Keeps(pool, pool', c) /\ pool'.conn[c] = v
  BY <1>1, ConnectionSet DEF v
<1> QED BY <1>1, <1>2

(* A header: thrown away, handed over, or the start of a package.          *)
LEMMA HeaderEffect ==
  ASSUME NEW c \in Conns, pool \in Pool, Room(c), RecvHeader(c)
  PROVE  /\ pool.conn[c].rx.curStat \in HeadStats
         /\ Keeps(pool, pool', c)
         /\ UNCHANGED <<backlog, file, interest, blocking, peer>>
         /\ \/ /\ pool'.conn[c].ifnewrecvMem = pool.conn[c].ifnewrecvMem
               /\ pool'.conn[c].pnewMemPointer = pool.conn[c].pnewMemPointer
               /\ pool'.conn[c].rx = RxStart
               /\ UNCHANGED <<heap, m_MsgRecvQueue>>
            \/ /\ pool'.conn[c].ifnewrecvMem = FALSE
               /\ pool'.conn[c].rx = RxStart
               /\ InMsgRecvQueue([heap EXCEPT ![AllocMemory] = MsgHeader(c)], AllocMemory)
            \/ /\ pool'.conn[c].ifnewrecvMem = TRUE
               /\ pool'.conn[c].pnewMemPointer = AllocMemory
               /\ pool'.conn[c].rx.curStat = "BD_INIT"
               /\ heap' = [heap EXCEPT ![AllocMemory] = MsgHeader(c)]
               /\ UNCHANGED m_MsgRecvQueue
<1> DEFINE buf == AllocMemory
           h == [heap EXCEPT ![buf] = MsgHeader(c)]
<1>1. PICK n \in 1 .. MaxPkgLen, e_pkgLen \in PkgLens :
        /\ Recv(c, n)
        /\ HeaderDone(pool.conn[c].rx, n)
        /\ \/ /\ BadLen(e_pkgLen)
              /\ pool' = [pool EXCEPT !.conn[c].rx = RxStart]
              /\ UNCHANGED <<heap, m_MsgRecvQueue>>
           \/ /\ InMsgRecvQueue(h, buf)
              /\ pool' = [pool EXCEPT !.conn[c] = HandedOver(@)]
           \/ /\ ~ BadLen(e_pkgLen)
              /\ heap' = h
              /\ pool' = [pool EXCEPT !.conn[c] =
                            [@ EXCEPT !.ifnewrecvMem = TRUE, !.pnewMemPointer = buf,
                                      !.rx = RxBody(e_pkgLen)]]
              /\ UNCHANGED m_MsgRecvQueue
  BY Zenon DEF RecvHeader
<1>2. pool.conn[c].rx.curStat \in HeadStats
  BY <1>1 DEF HeaderDone, HeadStats
<1>3. buf \in Bufs
  BY <1>2 DEF Room
<1>4. UNCHANGED <<backlog, file, interest, blocking, peer>>
  BY <1>1 DEF Recv
<1> HIDE DEF buf, h
<1>5. CASE BadLen(e_pkgLen) /\ pool' = [pool EXCEPT !.conn[c].rx = RxStart]
           /\ UNCHANGED <<heap, m_MsgRecvQueue>>
  <2> DEFINE v == [pool.conn[c] EXCEPT !.rx = RxStart]
  <2>1. /\ SameBinding(pool.conn[c], v)
        /\ v.rx = RxStart
        /\ v.ifnewrecvMem = pool.conn[c].ifnewrecvMem
        /\ v.pnewMemPointer = pool.conn[c].pnewMemPointer
    BY ConnTypes, RxTypes DEF Connection, SameBinding
  <2>2. pool' = WithConn(pool, c, v)
    BY <1>5 DEF WithConn
  <2> HIDE DEF v
  <2>3. Keeps(pool, pool', c) /\ pool'.conn[c] = v
    BY <2>1, <2>2, ConnectionSet
  <2> QED BY <1>2, <1>4, <1>5, <2>1, <2>3
<1>6. CASE InMsgRecvQueue(h, buf) /\ pool' = [pool EXCEPT !.conn[c] = HandedOver(@)]
  <2>1. /\ Keeps(pool, pool', c) /\ pool'.conn[c].ifnewrecvMem = FALSE
        /\ pool'.conn[c].rx = RxStart
    BY <1>6, HandOverEffect DEF WithConn
  <2> QED BY <1>2, <1>4, <1>6, <2>1 DEF buf, h
<1>7. CASE /\ ~ BadLen(e_pkgLen)
           /\ heap' = h
           /\ pool' = [pool EXCEPT !.conn[c] =
                         [@ EXCEPT !.ifnewrecvMem = TRUE, !.pnewMemPointer = buf,
                                   !.rx = RxBody(e_pkgLen)]]
           /\ UNCHANGED m_MsgRecvQueue
  <2> DEFINE v == [pool.conn[c] EXCEPT !.ifnewrecvMem = TRUE, !.pnewMemPointer = buf,
                                       !.rx = RxBody(e_pkgLen)]
  <2>1. RxBody(e_pkgLen) \in Rx /\ RxBody(e_pkgLen).curStat = "BD_INIT"
    BY <1>7, RxTypes
  <2>2. /\ SameBinding(pool.conn[c], v)
        /\ v.rx = RxBody(e_pkgLen)
        /\ v.ifnewrecvMem = TRUE /\ v.pnewMemPointer = buf
    BY <1>3, <2>1, ConnTypes DEF Connection, SameBinding
  <2>3. pool' = WithConn(pool, c, v)
    BY <1>7 DEF WithConn
  <2> HIDE DEF v
  <2>4. Keeps(pool, pool', c) /\ pool'.conn[c] = v
    BY <2>2, <2>3, ConnectionSet
  <2> QED BY <1>2, <1>4, <1>7, <2>1, <2>2, <2>4 DEF buf, h
<1> QED BY <1>1, <1>5, <1>6, <1>7

(* A body that is complete.                                                *)
LEMMA BodyEffect ==
  ASSUME NEW c \in Conns, pool \in Pool, RecvBody(c)
  PROVE  /\ pool.conn[c].rx.curStat \in BodyStats
         /\ Keeps(pool, pool', c)
         /\ pool'.conn[c].ifnewrecvMem = FALSE
         /\ pool'.conn[c].rx = RxStart
         /\ InMsgRecvQueue(heap, pool.conn[c].pnewMemPointer)
         /\ UNCHANGED <<backlog, file, interest, blocking, peer>>
<1>1. PICK n \in 1 .. MaxPkgLen :
        /\ Recv(c, n)
        /\ BodyDone(pool.conn[c].rx, n)
        /\ InMsgRecvQueue(heap, pool.conn[c].pnewMemPointer)
        /\ pool' = [pool EXCEPT !.conn[c] = HandedOver(@)]
  BY DEF RecvBody
<1>2. /\ Keeps(pool, pool', c) /\ pool'.conn[c].ifnewrecvMem = FALSE
      /\ pool'.conn[c].rx = RxStart
  BY <1>1, HandOverEffect DEF WithConn
<1> QED BY <1>1, <1>2 DEF BodyDone, Recv

(* The end of a connection.                                                *)
LEMMA EndEffect ==
  ASSUME NEW c \in Conns, pool \in Pool, RecvEnd(c)
  PROVE  /\ Ends(c)
         /\ heap' = IF pool.conn[c].ifnewrecvMem
                    THEN [heap EXCEPT ![pool.conn[c].pnewMemPointer] = Unallocated]
                    ELSE heap
         /\ UNCHANGED <<m_MsgRecvQueue, backlog>>
         /\ blocking' = blocking \ {pool.conn[c].fd}
         /\ peer' = [peer EXCEPT ![Client(c)] = "over"]
         /\ peer[Client(c)] \in {"fin", "reset"}
<1>1. Closes(pool, pool', c)
  BY CloseChanges DEF RecvEnd
<1> QED BY <1>1 DEF RecvEnd, Ends, KernelClose

-----------------------------------------------------------------------------
(* Events                                                                  *)

(* Connection c is the only one in use that may change.                    *)
OnlyTouches(c) ==
  /\ \A d \in Conns \ {c} : InUse(d) =>
       /\ pool'.conn[d].fd = pool.conn[d].fd
       /\ pool'.conn[d].instance = pool.conn[d].instance
  /\ \A fd \in ConnFds : file[fd] # NoClient /\ fd # pool.conn[c].fd => file'[fd] = file[fd]

(* The connection of an event is in use and has the event's descriptor.    *)
LEMMA EventFacts ==
  ASSUME TableTypes, EventTypes, Tables, Events
  PROVE  /\ m_events \in Seq([conn : Conns, instance : {0, 1}, fd : Fds,
                              revents : SUBSET {"EPOLLIN", "EPOLLERR"},
                              of : Clients \cup {NoClient}])
         /\ \A i \in DOMAIN m_events :
              LET e == m_events[i] IN
                /\ e.conn \in Conns /\ e.fd \in Fds /\ e.instance \in {0, 1}
                /\ InUse(e.conn)
                /\ pool.conn[e.conn].fd = e.fd
                /\ pool.conn[e.conn].instance = e.instance
                /\ e.fd \in ConnFds => file[e.fd] = e.of /\ file[e.fd] # NoClient
<1> DEFINE Rec == [conn : Conns, instance : {0, 1}, fd : Fds,
                   revents : SUBSET {"EPOLLIN", "EPOLLERR"}, of : Clients \cup {NoClient}]
<1>1. m_events \in Seq(Rec)
  BY DEF EventTypes
<1>2. ASSUME NEW i \in DOMAIN m_events
      PROVE  /\ m_events[i].conn \in Conns /\ m_events[i].fd \in Fds
             /\ m_events[i].instance \in {0, 1}
  <2> HIDE DEF Rec
  <2>1. m_events[i] \in Rec
    BY <1>1, <1>2
  <2> QED BY <2>1 DEF Rec
<1>3. ASSUME NEW i \in DOMAIN m_events
      PROVE  /\ pool.conn[m_events[i].conn].fd = m_events[i].fd
             /\ pool.conn[m_events[i].conn].instance = m_events[i].instance
             /\ m_events[i].fd \in ConnFds => file[m_events[i].fd] = m_events[i].of
  BY <1>3 DEF Events, EventsNotStale
<1>4. ASSUME NEW i \in DOMAIN m_events
      PROVE  InUse(m_events[i].conn)
  BY <1>2, <1>3, <1>4, FdFacts DEF InUse
<1>5. ASSUME NEW i \in DOMAIN m_events, m_events[i].fd \in ConnFds
      PROVE  file[m_events[i].fd] # NoClient
  BY <1>2, <1>3, <1>5 DEF Tables, PoolConserved
<1> QED BY <1>1, <1>2, <1>3, <1>4, <1>5

(* Handling one event leaves the later ones in order.                      *)
LEMMA EventsKept ==
  ASSUME TableTypes, EventTypes, Tables, Events, m_events # << >>,
         NEW c \in Conns, c = Head(m_events).conn, OnlyTouches(c), m_events' = Tail(m_events)
  PROVE  Events' /\ EventTypes'
<1> DEFINE Rec == [conn : Conns, instance : {0, 1}, fd : Fds,
                   revents : SUBSET {"EPOLLIN", "EPOLLERR"}, of : Clients \cup {NoClient}]
<1>1. m_events \in Seq(Rec)
  BY DEF EventTypes
<1> HIDE DEF Rec
<1>2. /\ Head(m_events) = m_events[1] /\ m_events' \in Seq(Rec)
      /\ Len(m_events) \in Nat /\ Len(m_events) > 0 /\ Len(m_events') = Len(m_events) - 1
      /\ \A i \in 1 .. Len(m_events) - 1 : m_events'[i] = m_events[i + 1]
  BY <1>1, TailFacts
<1>3. ASSUME NEW i \in DOMAIN m_events'
      PROVE  /\ i + 1 \in DOMAIN m_events /\ m_events'[i] = m_events[i + 1]
             /\ m_events[i + 1].fd # m_events[1].fd
  <2>1. /\ i \in 1 .. Len(m_events) - 1 /\ i + 1 \in DOMAIN m_events /\ 1 \in DOMAIN m_events
        /\ i + 1 # 1
    BY <1>1, <1>2, <1>3
  <2> QED BY <1>2, <2>1 DEF Events, EventsDistinct
<1>4. 1 \in DOMAIN m_events /\ c = m_events[1].conn
  BY <1>1, <1>2
<1>5. EventsNotStale'
  <2>1. ASSUME NEW i \in DOMAIN m_events'
        PROVE  /\ pool'.conn[m_events'[i].conn].fd = m_events'[i].fd
               /\ pool'.conn[m_events'[i].conn].instance = m_events'[i].instance
               /\ m_events'[i].fd \in ConnFds => file'[m_events'[i].fd] = m_events'[i].of
    <3> DEFINE e == m_events[i + 1]
    <3>1. m_events'[i] = e /\ i + 1 \in DOMAIN m_events /\ e.fd # m_events[1].fd
      BY <1>3, <2>1
    <3>2. /\ e.conn \in Conns /\ InUse(e.conn)
          /\ pool.conn[e.conn].fd = e.fd /\ pool.conn[e.conn].instance = e.instance
          /\ e.fd \in ConnFds => file[e.fd] = e.of /\ file[e.fd] # NoClient
      BY <3>1, EventFacts
    <3>3. pool.conn[c].fd = m_events[1].fd
      BY <1>4, EventFacts
    <3> HIDE DEF e
    <3>4. e.conn # c
      BY <3>1, <3>2, <3>3
    <3> QED BY <3>1, <3>2, <3>3, <3>4 DEF OnlyTouches
  <2> QED BY <2>1 DEF EventsNotStale
<1>6. EventsDistinct'
  <2>1. ASSUME NEW i \in DOMAIN m_events', NEW j \in DOMAIN m_events',
               m_events'[i].fd = m_events'[j].fd
        PROVE  i = j
    <3>1. i + 1 = j + 1
      BY <1>3, <2>1 DEF Events, EventsDistinct
    <3>2. i \in Nat /\ j \in Nat
      BY <1>2, <2>1
    <3> QED BY <3>1, <3>2
  <2> QED BY <2>1 DEF EventsDistinct
<1> QED BY <1>2, <1>5, <1>6 DEF Events, EventTypes, Rec

(* Events wait while only an unused connection changes.                    *)
LEMMA EventsWait ==
  ASSUME TableTypes, EventTypes, Tables, Events, m_events' = m_events, file' = file,
         \A d \in Conns : InUse(d) =>
           /\ pool'.conn[d].fd = pool.conn[d].fd
           /\ pool'.conn[d].instance = pool.conn[d].instance
  PROVE  Events' /\ EventTypes'
<1>1. EventsNotStale'
  BY EventFacts DEF EventsNotStale
<1>2. EventsDistinct' /\ EventTypes'
  BY DEF Events, EventsDistinct, EventTypes
<1> QED BY <1>1, <1>2 DEF Events

(* epoll_wait builds a batch that is up to date, a descriptor in it once.  *)
LEMMA EpollWaitEvents ==
  ASSUME TableTypes, Tables, EpollWait
  PROVE  Events' /\ EventTypes'
<1>1. PICK reported \in SUBSET Ready :
        /\ \E order \in [1 .. Cardinality(reported) -> reported] :
             /\ \A fd \in reported : \E i \in DOMAIN order : order[i] = fd
             /\ m_events' = [i \in DOMAIN order |-> Event(order[i])]
  BY DEF EpollWait
<1> DEFINE n == Cardinality(reported)
<1>2. PICK order \in [1 .. n -> reported] :
        /\ \A fd \in reported : \E i \in DOMAIN order : order[i] = fd
        /\ m_events' = [i \in DOMAIN order |-> Event(order[i])]
  BY <1>1
<1>3. IsFiniteSet(reported) /\ n \in Nat
  <2>1. IsFiniteSet(Fds)
    BY WorkerAssumption, FS_Interval DEF Fds
  <2>2. reported \in SUBSET Fds
    BY DEF Ready
  <2> QED BY <2>1, <2>2, FS_Subset, FS_CardinalityType
<1>4. order \in Injection(1 .. n, reported)
  <2>1. order \in Surjection(1 .. n, reported)
    BY <1>2 DEF Surjection
  <2>2. IsFiniteSet(1 .. n) /\ Cardinality(1 .. n) = n
    BY <1>3, FS_Interval
  <2> QED BY <2>1, <2>2, FS_SurjSameCardinalityImpliesInj
<1>5. UNCHANGED <<pool, file, interest>>
  BY DEF EpollWait, kernelVars
<1>6. ASSUME NEW i \in 1 .. n
      PROVE  LET fd == order[i]
                 e == Event(fd) IN
               /\ fd \in Fds /\ m_events'[i] = e /\ e.fd = fd
               /\ e \in [conn : Conns, instance : {0, 1}, fd : Fds,
                         revents : SUBSET {"EPOLLIN", "EPOLLERR"},
                         of : Clients \cup {NoClient}]
               /\ pool.conn[e.conn].fd = fd /\ pool.conn[e.conn].instance = e.instance
               /\ fd \in ConnFds => file[fd] = e.of
  <2> DEFINE fd == order[i]
             e == Event(fd)
  <2>1. fd \in Fds /\ Registered(fd)
    BY <1>2 DEF Ready, Registered
  <2>2. /\ interest[fd].conn \in Conns /\ interest[fd].instance \in {0, 1}
        /\ pool.conn[interest[fd].conn].fd = fd
        /\ pool.conn[interest[fd].conn].instance = interest[fd].instance
    BY <2>1 DEF Tables, Pointers, InterestConsistent, TableTypes
  <2>3. m_events'[i] = e
    BY <1>2
  <2> HIDE DEF fd
  <2>4. Revents(fd) \subseteq {"EPOLLIN", "EPOLLERR"}
    BY DEF Revents
  <2>5. (IF fd \in ListenFds THEN NoClient ELSE file[fd]) \in Clients \cup {NoClient}
    BY <2>1, FdFacts DEF TableTypes
  <2>6. /\ e.conn = interest[fd].conn /\ e.instance = interest[fd].instance /\ e.fd = fd
        /\ fd \in ConnFds => e.of = file[fd]
        /\ e \in [conn : Conns, instance : {0, 1}, fd : Fds,
                  revents : SUBSET {"EPOLLIN", "EPOLLERR"}, of : Clients \cup {NoClient}]
    BY <2>1, <2>2, <2>4, <2>5, FdFacts DEF Event
  <2> QED BY <2>1, <2>2, <2>3, <2>6 DEF fd
<1>7. DOMAIN m_events' = 1 .. n
  BY <1>2
<1>8. EventTypes'
  <2> DEFINE Rec == [conn : Conns, instance : {0, 1}, fd : Fds,
                     revents : SUBSET {"EPOLLIN", "EPOLLERR"}, of : Clients \cup {NoClient}]
  <2>1. m_events' \in [1 .. n -> Rec]
    BY <1>2, <1>6
  <2> HIDE DEF Rec, n
  <2>2. m_events' \in Seq(Rec)
    BY <1>3, <2>1
  <2> QED BY <2>2 DEF EventTypes, Rec
<1>9. EventsNotStale'
  BY <1>5, <1>6, <1>7 DEF EventsNotStale
<1>10. EventsDistinct'
  <2>1. \A i, j \in 1 .. n : order[i] = order[j] => i = j
    BY <1>4 DEF Injection, IsInjective
  <2> QED BY <1>6, <1>7, <2>1 DEF EventsDistinct
<1> QED BY <1>8, <1>9, <1>10 DEF Events

-----------------------------------------------------------------------------
(* The steps of the process                                                *)

(* The event loop calls the handler of a connection that is in use.        *)
LEMMA Dispatch ==
  ASSUME TableTypes, EventTypes, Tables, Events, HandleEvent
  PROVE  LET c == Head(m_events).conn IN
           /\ c \in Conns /\ InUse(c)
           /\ m_events # << >> /\ m_events' = Tail(m_events)
           /\ UNCHANGED <<pos, exited>>
           /\ \/ UNCHANGED <<pool, heap, m_MsgRecvQueue, use_accept4, kernelVars>>
              \/ pool.conn[c].rhandler = "event_accept" /\ EventAccept(c)
              \/ ServesClient(c) /\ WaitRequest(c)
<1> DEFINE c == Head(m_events).conn
<1>1. /\ m_events # << >> /\ m_events' = Tail(m_events)
      /\ UNCHANGED <<pos, exited>>
  BY DEF HandleEvent
<1>2. Head(m_events) = m_events[1] /\ 1 \in DOMAIN m_events
  BY <1>1, EventFacts, TailFacts
<1>3. c \in Conns /\ InUse(c)
  BY <1>2, EventFacts
<1>4. \/ UNCHANGED <<pool, heap, m_MsgRecvQueue, use_accept4, kernelVars>>
      \/ pool.conn[c].rhandler = "event_accept" /\ EventAccept(c)
      \/ pool.conn[c].rhandler = "wait_request_handler" /\ WaitRequest(c)
  BY DEF HandleEvent
<1> HIDE DEF c
<1>5. pool.conn[c].rhandler = "wait_request_handler" => ServesClient(c)
  <2>1. pool.conn[c].fd \in ListenFds => pool.conn[c].rhandler = "event_accept"
    BY <1>3 DEF Tables, InterestConsistent
  <2>2. pool.conn[c].fd \in ListenFds \/ pool.conn[c].fd \in ConnFds
    BY <1>3, FdFacts DEF Tables, Descriptors, TableTypes, ListenFds
  <2> QED BY <1>3, <2>1, <2>2 DEF ServesClient
<1> QED BY <1>1, <1>3, <1>4, <1>5 DEF c

(* Whatever the handler does, it is one of these.                          *)
LEMMA WaitEffect ==
  ASSUME TableTypes, Tables, NEW c \in Conns, ServesClient(c), Room(c), WaitRequest(c)
  PROVE  \/ UNCHANGED <<pool, interest, file>>
         \/ Ends(c)
         \/ Keeps(pool, pool', c) /\ UNCHANGED <<interest, file>>
<1>1. pool \in Pool
  BY DEF TableTypes
<1>2. CASE RecvNothing(c)
  BY <1>2 DEF RecvNothing, kernelVars
<1>3. CASE RecvEnd(c)
  BY <1>1, <1>3, EndEffect
<1>4. CASE RecvPart(c)
  BY <1>1, <1>4, PartEffect
<1>5. CASE RecvHeader(c)
  BY <1>1, <1>5, HeaderEffect
<1>6. CASE RecvBody(c)
  BY <1>1, <1>6, BodyEffect
<1> QED BY <1>2, <1>3, <1>4, <1>5, <1>6 DEF WaitRequest

(* Nothing in the tables changes.                                          *)
LEMMA NothingSameUse ==
  ASSUME TableTypes, Tables, UNCHANGED <<pool, interest, file>>
  PROVE  SameUse
BY DEF TableTypes, Tables, PoolConserved, SameUse

(* A step that binds and closes nothing disturbs no other connection.      *)
LEMMA SameUseTouches ==
  ASSUME SameUse, NEW c \in Conns
  PROVE  OnlyTouches(c)
BY DEF SameUse, OnlyTouches

(* The tables after an event was handled.                                  *)
LEMMA HandleTables ==
  ASSUME TableTypes, EventTypes, Tables, Events, HandleEvent, Room(Head(m_events).conn)
  PROVE  TableTypes' /\ Tables' /\ Events' /\ EventTypes'
<1> DEFINE c == Head(m_events).conn
<1>1. /\ c \in Conns /\ InUse(c) /\ Room(c)
      /\ m_events # << >> /\ m_events' = Tail(m_events)
      /\ pos' = pos /\ pos \in Nat
  BY Dispatch DEF TableTypes
<1>2. SUFFICES TableTypes' /\ Tables' /\ OnlyTouches(c)
  BY <1>1, <1>2, EventsKept
<1>3. \/ UNCHANGED <<pool, interest, file>>
      \/ pool.conn[c].rhandler = "event_accept" /\ EventAccept(c)
      \/ ServesClient(c) /\ WaitRequest(c)
  BY Dispatch DEF kernelVars
<1> HIDE DEF c
<1>4. CASE SameUse
  <2>1. Tables'
    BY <1>1, <1>4, SameUseTables
  <2> QED BY <1>1, <1>4, <2>1, SameUseTouches DEF SameUse, TableTypes
<1>5. CASE Ends(c) /\ ServesClient(c)
  <2>1. Tables'
    BY <1>1, <1>5, EndsTables
  <2>2. /\ pool.conn[c].fd \in ConnFds /\ pool.conn[c].fd \in Fds
    BY <1>5, FdFacts DEF ServesClient
  <2>3. file' \in [ConnFds -> Clients \cup {NoClient}]
    BY <1>5, <2>2 DEF Ends, TableTypes
  <2>4. interest' \in [Fds -> [conn : Conns \cup {nullptr}, instance : {0, 1}]]
    <3>1. NotRegistered \in [conn : Conns \cup {nullptr}, instance : {0, 1}]
      BY DEF NotRegistered
    <3> QED BY <1>5, <2>2, <3>1 DEF Ends, TableTypes
  <2>5. OnlyTouches(c)
    BY <1>5, <2>2 DEF OnlyTouches, Ends, Closes, TableTypes
  <2>6. TableTypes'
    BY <1>1, <1>5, <2>3, <2>4 DEF TableTypes, Ends, Closes
  <2> QED BY <2>1, <2>5, <2>6
<1>6. ASSUME NEW s \in ConnFds, NEW client \in Clients, NEW listening \in Listeners,
             file[s] = NoClient,
             Registers(s, listening, "wait_request_handler"),
             file' = [file EXCEPT ![s] = client]
      PROVE  TableTypes' /\ Tables' /\ OnlyTouches(c)
  <2> DEFINE h == Head(pool.free)
  <2>1. /\ s \in Fds /\ s \notin ListenFds /\ \A d \in Conns : pool.conn[d].fd # s
    BY <1>6, FreeFdUnused, FdFacts
  <2>2. \A d \in ConnFds : file'[d] # NoClient <=> file[d] # NoClient \/ d = s
    BY <1>6, WorkerAssumption DEF TableTypes
  <2>3. Tables'
    BY <1>1, <1>6, <2>1, <2>2, RegistersTables DEF Handlers
  <2>4. /\ pool' \in Pool /\ h \in Conns
        /\ \A d \in Conns \ {h} : pool'.conn[d] = pool.conn[d]
    BY <1>6 DEF Registers, Binds
  <2>5. file' \in [ConnFds -> Clients \cup {NoClient}]
    BY <1>6 DEF TableTypes
  <2>6. interest' \in [Fds -> [conn : Conns \cup {nullptr}, instance : {0, 1}]]
    <3>1. pool'.conn[h].instance \in {0, 1}
      BY <2>4, ConnTypes
    <3> QED BY <1>6, <2>1, <2>4, <3>1 DEF Registers, TableTypes
  <2>7. pool.conn[h].fd = -1
    <3>1. s \in Nat /\ listening \in Nat /\ pool \in Pool /\ Conserved(pool)
      BY FdFacts DEF Listeners, TableTypes, Tables, PoolConserved
    <3> QED BY <1>6, <3>1, BindConserves DEF Registers, Handlers
  <2> HIDE DEF h
  <2>8. \A d \in Conns : InUse(d) => pool'.conn[d] = pool.conn[d]
    BY <2>4, <2>7 DEF InUse
  <2>9. OnlyTouches(c)
    BY <1>6, <2>8 DEF OnlyTouches, TableTypes
  <2>10. TableTypes'
    BY <1>1, <2>4, <2>5, <2>6 DEF TableTypes
  <2> QED BY <2>3, <2>9, <2>10
<1>7. CASE pool.conn[c].rhandler = "event_accept" /\ EventAccept(c)
  <2> DEFINE listening == pool.conn[c].listening
  <2>1. /\ listening \in Listeners
        /\ \/ UNCHANGED <<pool, file, interest>>
           \/ \E s \in ConnFds, client \in Clients :
                /\ file[s] = NoClient
                /\ Registers(s, listening, "wait_request_handler")
                /\ file' = [file EXCEPT ![s] = client]
           \/ \E s \in ConnFds : file[s] = NoClient /\ Undoes(s, listening)
    BY <1>1, <1>7, AcceptEffect
  <2>2. CASE UNCHANGED <<pool, file, interest>>
    BY <2>2, <1>4, NothingSameUse
  <2>3. CASE \E s \in ConnFds : file[s] = NoClient /\ Undoes(s, listening)
    BY <2>1, <2>3, <1>4, UndoesSameUse, FdFacts
  <2> QED BY <2>1, <2>2, <2>3, <1>6
<1>8. CASE ServesClient(c) /\ WaitRequest(c)
  <2>1. \/ UNCHANGED <<pool, interest, file>>
        \/ Ends(c)
        \/ Keeps(pool, pool', c) /\ UNCHANGED <<interest, file>>
    BY <1>1, <1>8, WaitEffect
  <2> QED BY <1>1, <1>8, <2>1, <1>4, <1>5, NothingSameUse, KeepsSameUse
<1> QED BY <1>3, <1>4, <1>7, <1>8, NothingSameUse

(* epoll_init registers a listening socket.                                *)
LEMMA InitListenerTables ==
  ASSUME TableTypes, EventTypes, Tables, Events, InitListener
  PROVE  TableTypes' /\ Tables' /\ Events' /\ EventTypes'
<1>1. /\ pos \in Listeners /\ pos \in Nat /\ pos \in Fds /\ pos \in ListenFds
      /\ UNCHANGED <<m_events, file>>
  BY FdFacts DEF InitListener, Listeners
<1>2. CASE UNCHANGED <<pool, interest, pos>>
  <2>1. SameUse /\ pos' \in Nat /\ pos <= pos'
    BY <1>1, <1>2, NothingSameUse
  <2>2. Tables'
    BY <1>1, <2>1, SameUseTables
  <2>3. TableTypes'
    BY <1>1, <1>2 DEF TableTypes
  <2>4. Events' /\ EventTypes'
    BY <1>1, <1>2, EventsWait
  <2> QED BY <2>2, <2>3, <2>4
<1>3. CASE /\ pool.free # << >>
           /\ LET c == Head(pool.free)
                  p == SetHandler(GetConnection(pool, pos), c, pos, "event_accept") IN
                /\ pool' = p
                /\ interest' = [interest EXCEPT ![pos] = DataPtr(p, c)]
           /\ pos' = pos + 1
  <2> DEFINE h == Head(pool.free)
  <2>1. pool' = Bind(pool, pos, pos, "event_accept")
    BY <1>3 DEF Bind
  <2>2. Binds(pool, pool', h, pos, pos, "event_accept")
    BY <1>1, <1>3, <2>1, BindChanges DEF TableTypes, Handlers
  <2>3. interest' = [interest EXCEPT ![pos] = [conn |-> h, instance |-> pool'.conn[h].instance]]
    BY <1>3 DEF DataPtr
  <2>4. Registers(pos, pos, "event_accept")
    BY <1>3, <2>2, <2>3 DEF Registers
  <2>5. \A d \in Conns : pool.conn[d].fd # pos
    <3>1. ASSUME NEW d \in Conns, pool.conn[d].fd = pos
          PROVE  FALSE
      <4>1. InUse(d)
        BY <1>1, <3>1, FdFacts DEF InUse
      <4>2. pool.conn[d].fd \in ConnFds \/ pool.conn[d].fd \in 1 .. pos - 1
        BY <4>1 DEF Tables, Descriptors
      <4> QED BY <1>1, <3>1, <4>2, FdFacts
    <3> QED BY <3>1
  <2>6. \A d \in ConnFds : file'[d] # NoClient <=> file[d] # NoClient \/ d = pos
    BY <1>1, FdFacts
  <2>7. pos' \in Nat /\ pos < pos' /\ pos <= pos' /\ pos' \in 1 .. ListenPortCount + 1
    BY <1>1, <1>3, FdFacts DEF Listeners
  <2>8. Tables'
    BY <1>1, <2>4, <2>5, <2>6, <2>7, RegistersTables DEF Handlers
  <2>9. /\ pool' \in Pool /\ h \in Conns
        /\ \A d \in Conns \ {h} : pool'.conn[d] = pool.conn[d]
    BY <2>2 DEF Binds
  <2>10. interest' \in [Fds -> [conn : Conns \cup {nullptr}, instance : {0, 1}]]
    <3>1. pool'.conn[h].instance \in {0, 1}
      BY <2>9, ConnTypes
    <3> QED BY <1>1, <2>3, <2>9, <3>1 DEF TableTypes
  <2>11. pool.conn[h].fd = -1
    <3>1. pool \in Pool /\ Conserved(pool)
      BY DEF TableTypes, Tables, PoolConserved
    <3> QED BY <1>1, <1>3, <2>2, <3>1, BindConserves DEF Handlers
  <2> HIDE DEF h
  <2>12. \A d \in Conns : InUse(d) => pool'.conn[d] = pool.conn[d]
    BY <2>9, <2>11 DEF InUse
  <2>13. Events' /\ EventTypes'
    BY <1>1, <2>12, EventsWait
  <2>14. TableTypes'
    BY <1>1, <2>7, <2>9, <2>10 DEF TableTypes
  <2> QED BY <2>8, <2>13, <2>14
<1> QED BY <1>2, <1>3 DEF InitListener

(* What event_accept does to everything else.                              *)
LEMMA AcceptRest ==
  ASSUME NEW c, EventAccept(c), pool.conn[c].listening \in Listeners,
         use_accept4 \in BOOLEAN,
         backlog \in [Listeners -> SUBSET Clients], blocking \subseteq ConnFds,
         peer \in [Clients -> {"absent", "alive", "fin", "reset", "over"}],
         unread \in [Clients -> BOOLEAN]
  PROVE  /\ UNCHANGED <<heap, m_MsgRecvQueue>> /\ use_accept4' \in BOOLEAN
         /\ backlog' \in [Listeners -> SUBSET Clients] /\ blocking' \subseteq ConnFds
         /\ peer' \in [Clients -> {"absent", "alive", "fin", "reset", "over"}]
         /\ unread' \in [Clients -> BOOLEAN]
         /\ \A l \in Listeners : backlog'[l] \subseteq backlog[l]
         /\ \A x \in Clients : peer[x] # "absent" => peer'[x] # "absent"
<1>1. UNCHANGED <<heap, m_MsgRecvQueue>> /\ use_accept4' \in BOOLEAN
  BY WorkerAssumption DEF EventAccept
<1>2. ASSUME NEW s, NEW client \in Clients, Accepted(c, s, client)
      PROVE  /\ backlog' \in [Listeners -> SUBSET Clients]
             /\ \A k \in Listeners : backlog'[k] \subseteq backlog[k]
  BY <1>2 DEF Accepted
<1>3. ASSUME NEW s, NEW client \in Clients, KernelClose(s, client)
      PROVE  /\ blocking' \subseteq ConnFds
             /\ peer' \in [Clients -> {"absent", "alive", "fin", "reset", "over"}]
             /\ unread' \in [Clients -> BOOLEAN]
             /\ \A x \in Clients : peer[x] # "absent" => peer'[x] # "absent"
  BY <1>3 DEF KernelClose
<1>4. CASE AcceptNothing(c)
  BY <1>1, <1>4 DEF AcceptNothing
<1>5. CASE AcceptTurnAway(c)
  <2>1. PICK s \in ConnFds, client \in Clients : Accepted(c, s, client) /\ KernelClose(s, client)
    BY <1>5 DEF AcceptTurnAway
  <2> QED BY <1>1, <1>2, <1>3, <2>1
<1>6. CASE AcceptRegister(c)
  <2>1. PICK s \in ConnFds, client \in Clients :
          Accepted(c, s, client) /\ blocking' \subseteq blocking \cup {s}
    BY <1>6 DEF AcceptRegister
  <2>2. peer' = peer /\ unread' = unread
    BY <1>6 DEF AcceptRegister
  <2> QED BY <1>1, <1>2, <2>1, <2>2
<1>7. CASE AcceptUnregistered(c)
  <2>1. PICK s \in ConnFds, client \in Clients : Accepted(c, s, client) /\ KernelClose(s, client)
    BY <1>7 DEF AcceptUnregistered
  <2> QED BY <1>1, <1>2, <1>3, <2>1
<1> QED BY <1>4, <1>5, <1>6, <1>7 DEF EventAccept
=============================================================================
