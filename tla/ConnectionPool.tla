--------------------------- MODULE ConnectionPool ---------------------------
(***************************************************************************)
(* The connection pool of one worker process: the array m_pconnections,    *)
(* its chain of free elements m_pfree_connections and the counter          *)
(* m_free_connection_n, with the three operations on it as operators from  *)
(* pool to pool (an event handler may apply several of them).              *)
(*                                                                         *)
(* A pool is a record of                                                   *)
(*   conn    the array: one connection_s per element of Conns              *)
(*   free    the chain that starts at m_pfree_connections, as a sequence   *)
(*   free_n  m_free_connection_n                                           *)
(* Pointers are indices, nullptr is 0, and the descriptor of a connection  *)
(* that is not in use is -1, as in the program.                            *)
(***************************************************************************)
EXTENDS PkgState, Sequences

CONSTANTS
  PoolSize,    \* m_connection_n = m_worker_connections
  Bufs         \* addresses of package buffers: natural numbers above 0

ASSUME PoolAssumption ==
  /\ PoolSize \in Nat \ {0}
  /\ Bufs \subseteq Nat \ {0}

Conns == 1 .. PoolSize
nullptr == 0

Connection == [fd             : Nat \cup {-1},
               listening      : Nat,
               instance       : {0, 1},
               iCurrsequence  : Nat,
               rhandler       : {"none", "event_accept", "wait_request_handler"},
               rx             : Rx,
               ifnewrecvMem   : BOOLEAN,
               pnewMemPointer : Bufs \cup {nullptr}]

Pool == [conn : [Conns -> Connection], free : Seq(Conns), free_n : Int]

(* The pool that epoll_init builds.  The fields it does not set hold       *)
(* garbage until get_connection clears them; nothing reads them before.    *)
NewPool ==
  [conn |-> [c \in Conns |->
               [fd |-> -1, listening |-> nullptr, instance |-> 1, iCurrsequence |-> 0,
                rhandler |-> "none", rx |-> RxStart,
                ifnewrecvMem |-> FALSE, pnewMemPointer |-> nullptr]],
   free |-> [i \in Conns |-> i],
   free_n |-> PoolSize]

(* get_connection when the chain is not empty: its head, cleared, bound to *)
(* isock, with the instance bit flipped and the sequence number stepped.   *)
Fresh(old, isock) ==
  [fd |-> isock, listening |-> nullptr,
   instance |-> 1 - old.instance, iCurrsequence |-> old.iCurrsequence + 1,
   rhandler |-> "none", rx |-> RxStart,
   ifnewrecvMem |-> FALSE, pnewMemPointer |-> nullptr]

GetConnection(p, isock) ==
  [conn |-> [p.conn EXCEPT ![Head(p.free)] = Fresh(p.conn[Head(p.free)], isock)],
   free |-> Tail(p.free),
   free_n |-> p.free_n - 1]

(* What epoll_init and event_accept fill in behind get_connection.         *)
SetHandler(p, c, listening, rhandler) ==
  [p EXCEPT !.conn[c].listening = listening, !.conn[c].rhandler = rhandler]

(* Mutated form: free_connection does not step iCurrsequence.              *)
Released_sameSequence(old) ==
  [old EXCEPT !.fd = -1, !.ifnewrecvMem = FALSE,
              !.pnewMemPointer = IF old.ifnewrecvMem THEN nullptr ELSE @]

(* close_connection: close(c->fd), fd = -1 and free_connection.  What the  *)
(* close does in the kernel and the freeing of an unfinished package are   *)
(* the caller's (module Worker).                                           *)
Released(old) ==
  [old EXCEPT !.fd = -1, !.ifnewrecvMem = FALSE,
              !.pnewMemPointer = IF old.ifnewrecvMem THEN nullptr ELSE @,
              !.iCurrsequence = @ + 1]

CloseConnection(p, c) ==
  [conn |-> [p.conn EXCEPT ![c] = Released(p.conn[c])],
   free |-> <<c>> \o p.free,
   free_n |-> p.free_n + 1]

-----------------------------------------------------------------------------
(* A connection is in the chain exactly when no socket is bound to it, the *)
(* chain has no cycle, and the counter counts it.                          *)
Conserved(p) ==
  /\ \A i, j \in 1 .. Len(p.free) : p.free[i] = p.free[j] => i = j
  /\ \A c \in Conns :
       p.conn[c].fd = -1 <=> \E i \in 1 .. Len(p.free) : p.free[i] = c
  /\ p.free_n = Len(p.free)
=============================================================================
