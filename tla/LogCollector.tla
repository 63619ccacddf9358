---------------------------- MODULE LogCollector ----------------------------
(***************************************************************************)
(* fmtlog above its queues: threads register log statements, log and end;  *)
(* poll collects their messages, merges them by time and hands them to a   *)
(* file.                                                                   *)
(*                                                                         *)
(* The queue of a thread is what SpscVarQueue implements (LogFifo): a      *)
(* message may be refused when it is offered and comes out in order        *)
(* afterwards.  Time stamps are ranks: the n-th log statement reads n, and *)
(* a poll that begins then reads n + 1.  Files and membuf are lengths in   *)
(* messages.  poll and the functions that change the file are called by    *)
(* one thread, as the library asks; everything that two threads use is     *)
(* read and written in steps of their own, except what a mutex protects.   *)
(***************************************************************************)
EXTENDS Naturals, Sequences, FiniteSets

CONSTANTS
  Threads,       \* those that log
  Statements,    \* log statements of the program (FMTLOG)
  Urgent,        \* of them: level >= flushLogLevel
  FlushBufSize,  \* flushBufSize, in messages
  Files,         \* what setLogFile(filename) may open
  MaxLogs,       \* bound: number of log statements executed
  MaxSets        \* bound: number of times the file is changed

ASSUME CollectorAssumption ==
  /\ IsFiniteSet(Statements) /\ Urgent \subseteq Statements
  /\ FlushBufSize \in Nat \ {0}
  /\ MaxLogs \in Nat /\ MaxSets \in Nat
  /\ {"once", "stdout", "nullptr"} \cap (Statements \cup Files) = {}

Once == "once"                  \* FMTLOG_ONCE: the message carries its location and text
Once4 == [k \in 1 .. 4 |-> Once]
stdout == "stdout"
nullptr == "nullptr"
NoMsg == [tsc |-> 0, logId |-> 0, stmt |-> nullptr]

VARIABLES
  (* the logging threads *)
  now,             \* log statements that have read their time stamp
  tpc, msg,        \* a thread's place in log, and the message it is writing
  threadBuffer,    \* none, live, shouldDeallocate, deleted
  queue,           \* threadBuffer->varq
  logId,           \* of each statement (0: not registered)
  (* shared with poll *)
  logInfos, threadBuffers,
  (* poll *)
  ppc, tsc, i,
  bgLogInfos, bgThreadBuffers,
  (* the sink *)
  outputFp, fpos, membuf, nextFlushTime,
  file,            \* length of each file
  sets,            \* number of times the file was changed
  (* history *)
  waiting,         \* messages that were in a queue when poll began
  out              \* message handled last

threadVars == <<now, tpc, msg, threadBuffer, queue, logId>>
sharedVars == <<logInfos, threadBuffers>>
pollVars == <<ppc, tsc, i, bgLogInfos, bgThreadBuffers>>
sinkVars == <<outputFp, fpos, membuf, nextFlushTime, file, sets>>
history == <<waiting, out>>
vars == <<threadVars, sharedVars, pollVars, sinkVars, history>>

(* The static objects are constructed: setLogFile(stdout).                 *)
Init ==
  /\ now = 0
  /\ tpc = [t \in Threads |-> "idle"] /\ msg = [t \in Threads |-> NoMsg]
  /\ threadBuffer = [t \in Threads |-> "none"] /\ queue = [t \in Threads |-> << >>]
  /\ logId = [s \in Statements |-> 0]
  /\ logInfos = << >> /\ threadBuffers = << >>
  /\ ppc = "idle" /\ tsc = 0 /\ i = 1
  /\ bgLogInfos = Once4 /\ bgThreadBuffers = << >>
  /\ outputFp = stdout /\ fpos = 0 /\ membuf = 0
  /\ nextFlushTime = "max"
  /\ file = [f \in Files |-> 0] /\ sets = 0
  /\ waiting = {} /\ out = << >>

-----------------------------------------------------------------------------
(* The logging threads                                                     *)

(* preallocate, called at any time or by the first allocMsg.               *)
Preallocate(t) ==
  /\ tpc[t] \in {"idle", "push"}
  /\ threadBuffer[t] = "none"
  /\ threadBuffer' = [threadBuffer EXCEPT ![t] = "live"]
  /\ threadBuffers' = Append(threadBuffers, t)
  /\ UNCHANGED <<now, tpc, msg, queue, logId, logInfos, pollVars, sinkVars, history>>

(* FMTLOG: the time stamp, and the look at the statement's logId.          *)
Log(t, s) ==
  /\ tpc[t] = "idle"
  /\ now < MaxLogs
  /\ now' = now + 1
  /\ msg' = [msg EXCEPT ![t] = [tsc |-> now', logId |-> logId[s], stmt |-> s]]
  /\ tpc' = [tpc EXCEPT ![t] = IF logId[s] = 0 THEN "register" ELSE "push"]
  /\ UNCHANGED <<threadBuffer, queue, logId, sharedVars, pollVars, sinkVars, history>>

(* FMTLOG_ONCE has room when it reads the time; its level is its logId.    *)
LogOnce(t) ==
  /\ tpc[t] = "idle" /\ threadBuffer[t] = "live"
  /\ now < MaxLogs
  /\ now' = now + 1
  /\ msg' = [msg EXCEPT ![t] = [tsc |-> now', logId |-> 1, stmt |-> Once]]
  /\ tpc' = [tpc EXCEPT ![t] = "push"]
  /\ UNCHANGED <<threadBuffer, queue, logId, sharedVars, pollVars, sinkVars, history>>

logInfoMutexFree == \A t \in Threads : tpc[t] # "insert"

(* Mutated form: ids are not counted on from those poll has taken.         *)
RegisterLogInfo_own(t) ==
  LET s == msg[t].stmt IN
    /\ tpc[t] = "register"
    /\ logInfoMutexFree
    /\ logId' = [logId EXCEPT ![s] = Len(logInfos)]
    /\ msg' = [msg EXCEPT ![t].logId = Len(logInfos)]
    /\ tpc' = [tpc EXCEPT ![t] = "insert"]
    /\ UNCHANGED <<now, threadBuffer, queue, sharedVars, pollVars, sinkVars, history>>

(* registerLogInfo under logInfoMutex: another thread may have been        *)
(* faster.  The others can read logId before the statement is in logInfos. *)
RegisterLogInfo(t) ==
  LET s == msg[t].stmt
      id == Len(logInfos) + Len(bgLogInfos) IN
    /\ tpc[t] = "register"
    /\ logInfoMutexFree
    /\ IF logId[s] # 0
       THEN /\ msg' = [msg EXCEPT ![t].logId = logId[s]]
            /\ tpc' = [tpc EXCEPT ![t] = "push"]
            /\ UNCHANGED logId
       ELSE /\ logId' = [logId EXCEPT ![s] = id]
            /\ msg' = [msg EXCEPT ![t].logId = id]
            /\ tpc' = [tpc EXCEPT ![t] = "insert"]
    /\ UNCHANGED <<now, threadBuffer, queue, sharedVars, pollVars, sinkVars, history>>

(* emplace_back, and the mutex is free again.                              *)
InsertLogInfo(t) ==
  /\ tpc[t] = "insert"
  /\ logInfos' = Append(logInfos, msg[t].stmt)
  /\ tpc' = [tpc EXCEPT ![t] = "push"]
  /\ UNCHANGED <<now, msg, threadBuffer, queue, logId, threadBuffers, pollVars, sinkVars, history>>

(* allocMsg finds room and the message is pushed, or it is discarded.      *)
Push(t) ==
  /\ tpc[t] = "push"
  /\ threadBuffer[t] = "live"
  /\ queue' \in {queue, [queue EXCEPT ![t] = Append(@, msg[t])]}
  /\ tpc' = [tpc EXCEPT ![t] = "idle"]
  /\ msg' = [msg EXCEPT ![t] = NoMsg]
  /\ UNCHANGED <<now, threadBuffer, logId, sharedVars, pollVars, sinkVars, history>>

(* The thread ends; its ThreadBufferDestroyer marks the buffer.            *)
ThreadEnds(t) ==
  /\ tpc[t] = "idle"
  /\ tpc' = [tpc EXCEPT ![t] = "ended"]
  /\ threadBuffer' = IF threadBuffer[t] = "live"
                     THEN [threadBuffer EXCEPT ![t] = "shouldDeallocate"] ELSE threadBuffer
  /\ UNCHANGED <<now, msg, queue, logId, sharedVars, pollVars, sinkVars, history>>

Thread(t) ==
  \/ Preallocate(t) \/ LogOnce(t) \/ \E s \in Statements : Log(t, s)
  \/ RegisterLogInfo(t) \/ InsertLogInfo(t) \/ Push(t)
  \/ ThreadEnds(t)

-----------------------------------------------------------------------------
(* poll: what it collects                                                  *)

Contents(q) == {q[k] : k \in DOMAIN q}
Queued == UNION {Contents(queue[t]) : t \in Threads}

PollBegin ==
  /\ ppc = "idle"
  /\ ppc' = "infos"
  /\ tsc' = now + 1
  /\ waiting' = Queued
  /\ UNCHANGED <<threadVars, sharedVars, i, bgLogInfos, bgThreadBuffers, sinkVars, out>>

(* The emptiness of logInfos is looked at without the mutex.               *)
TakeLogInfos ==
  /\ ppc = "infos"
  /\ logInfos # << >> => logInfoMutexFree
  /\ bgLogInfos' = bgLogInfos \o logInfos
  /\ logInfos' = << >>
  /\ ppc' = "buffers"
  /\ UNCHANGED <<threadVars, threadBuffers, tsc, i, bgThreadBuffers, sinkVars, history>>

HeapNode(t) == [tb |-> t, header |-> NoMsg]

TakeThreadBuffers ==
  /\ ppc = "buffers"
  /\ bgThreadBuffers' =
       bgThreadBuffers \o [k \in DOMAIN threadBuffers |-> HeapNode(threadBuffers[k])]
  /\ threadBuffers' = << >>
  /\ ppc' = "front"
  /\ UNCHANGED <<threadVars, logInfos, tsc, i, bgLogInfos, sinkVars, history>>

Oldest(t) == IF queue[t] = << >> THEN NoMsg ELSE Head(queue[t])

(* One round of the loop over bgThreadBuffers, up to the test of           *)
(* shouldDeallocate.                                                       *)
Front ==
  /\ ppc = "front"
  /\ i \in DOMAIN bgThreadBuffers
  /\ IF bgThreadBuffers[i].header # NoMsg
     THEN i' = i + 1 /\ UNCHANGED <<ppc, bgThreadBuffers>>
     ELSE LET header == Oldest(bgThreadBuffers[i].tb) IN
            /\ bgThreadBuffers' = [bgThreadBuffers EXCEPT ![i].header = header]
            /\ IF header = NoMsg THEN ppc' = "dealloc" /\ UNCHANGED i
                                 ELSE i' = i + 1 /\ UNCHANGED ppc
  /\ UNCHANGED <<threadVars, sharedVars, tsc, bgLogInfos, sinkVars, history>>

(* Mutated form: the last node is dropped without being moved.             *)
Without_lastOnly(k, nodes) == SubSeq(nodes, 1, Len(nodes) - 1)

(* The last node takes the place of node k.                                *)
Without(k, nodes) ==
  SubSeq([nodes EXCEPT ![k] = nodes[Len(nodes)]], 1, Len(nodes) - 1)

(* The buffer of a thread that has ended is deleted, with what is in it by *)
(* now; the node that takes its place is looked at next.                   *)
Deallocate ==
  LET t == bgThreadBuffers[i].tb IN
    /\ ppc = "dealloc"
    /\ ppc' = "front"
    /\ IF threadBuffer[t] = "shouldDeallocate"
       THEN /\ threadBuffer' = [threadBuffer EXCEPT ![t] = "deleted"]
            /\ queue' = [queue EXCEPT ![t] = << >>]
            /\ bgThreadBuffers' = Without(i, bgThreadBuffers)
            /\ UNCHANGED i
       ELSE i' = i + 1 /\ UNCHANGED <<threadBuffer, queue, bgThreadBuffers>>
    /\ UNCHANGED <<now, tpc, msg, logId, sharedVars, tsc, bgLogInfos,
                   sinkVars, history>>

-----------------------------------------------------------------------------
(* poll: the heap                                                          *)

Earlier(h, g) == h # NoMsg /\ (g = NoMsg \/ h.tsc < g.tsc)

Children(k, nodes) == {2 * k, 2 * k + 1} \cap DOMAIN nodes

(* Mutated form: any child that is earlier.                                *)
SinksTo_any(k, node, nodes) ==
  {c \in Children(k, nodes) :
     /\ Earlier(nodes[c].header, node.header)
     /\ \A d \in Children(k, nodes) : c <= d}

(* Where a node that has come down to k goes next: to its earliest child,  *)
(* the first of them if there are two.                                     *)
SinksTo(k, node, nodes) ==
  {c \in Children(k, nodes) :
     /\ Earlier(nodes[c].header, node.header)
     /\ \A d \in Children(k, nodes) \ {c} :
          IF d < c THEN Earlier(nodes[c].header, nodes[d].header)
                   ELSE ~ Earlier(nodes[d].header, nodes[c].header)}

(* The places that the node at first comes through: first, and with a      *)
(* place the one it goes to next.                                          *)
Way(first, nodes) ==
  LET Holds(places) ==
        /\ first \in places
        /\ \A k \in places : SinksTo(k, nodes[first], nodes) \subseteq places IN
    {k \in DOMAIN nodes : \A places \in SUBSET DOMAIN nodes : Holds(places) => k \in places}

(* nodes after adjustHeap: the nodes on the way move up by one.            *)
adjustHeap(first, nodes) ==
  [k \in DOMAIN nodes |->
     IF k \notin Way(first, nodes) THEN nodes[k]
     ELSE LET to == SinksTo(k, nodes[first], nodes) IN
            IF to = {} THEN nodes[first] ELSE nodes[CHOOSE c \in to : TRUE]]

BuildHeap ==
  /\ ppc = "front"
  /\ i \notin DOMAIN bgThreadBuffers
  /\ bgThreadBuffers # << >>
  /\ i' = 1 + Len(bgThreadBuffers) \div 2
  /\ ppc' = "heap"
  /\ UNCHANGED <<threadVars, sharedVars, tsc, bgLogInfos, bgThreadBuffers, sinkVars, history>>

(* One round of the loop that builds the heap.                             *)
Heapify ==
  /\ ppc = "heap"
  /\ bgThreadBuffers' = adjustHeap(i, bgThreadBuffers)
  /\ IF i = 1 THEN ppc' = "handle" /\ UNCHANGED i ELSE i' = i - 1 /\ UNCHANGED ppc
  /\ UNCHANGED <<threadVars, sharedVars, tsc, bgLogInfos, sinkVars, history>>

-----------------------------------------------------------------------------
(* poll: what it hands to the file                                         *)

manageFp == outputFp \in Files

(* flushLogFile with n messages in membuf.                                 *)
FlushLogFile(n) ==
  /\ file' = IF manageFp THEN [file EXCEPT ![outputFp] = @ + n] ELSE file
  /\ fpos' = IF manageFp THEN fpos + n ELSE fpos
  /\ membuf' = 0
  /\ nextFlushTime' = "max"

(* Mutated form: the statement registered last is not known yet.           *)
MayHandle_offByOne(h) == h # NoMsg /\ h.logId < Len(bgLogInfos) - 1 /\ h.tsc < tsc

(* The loop ends at a message whose statement is not in bgLogInfos yet, or *)
(* that is younger than this poll.                                         *)
MayHandle(h) == h # NoMsg /\ h.logId < Len(bgLogInfos) /\ h.tsc < tsc

(* Mutated form: > instead of >=.                                          *)
FlushNow_above(n, stmt) == n > FlushBufSize \/ stmt \in Urgent

FlushNow(n, stmt) == n >= FlushBufSize \/ stmt \in Urgent

(* handleLog, pop, and the next message of the same thread.                *)
Handle ==
  LET root == bgThreadBuffers[1] IN
    /\ ppc = "handle"
    /\ MayHandle(root.header)
    /\ out' = <<root.header>>
    /\ IF FlushNow(membuf + 1, bgLogInfos[root.header.logId + 1])
       THEN FlushLogFile(membuf + 1)
       ELSE membuf' = membuf + 1 /\ UNCHANGED <<fpos, nextFlushTime, file>>
    /\ queue' = [queue EXCEPT ![root.tb] = Tail(@)]
    /\ bgThreadBuffers' =
         adjustHeap(1, [bgThreadBuffers EXCEPT ![1].header =
                          IF queue'[root.tb] = << >> THEN NoMsg ELSE Head(queue'[root.tb])])
    /\ UNCHANGED <<now, tpc, msg, threadBuffer, logId, sharedVars, ppc, tsc, i,
                   bgLogInfos, outputFp, sets, waiting>>

PollReturns ==
  /\ ppc' = "idle"
  /\ tsc' = 0 /\ i' = 1 /\ waiting' = {} /\ out' = << >>
  /\ UNCHANGED <<threadVars, sharedVars, bgLogInfos, bgThreadBuffers, outputFp, sets>>

(* No thread has a buffer: poll returns, whatever is in membuf.            *)
NoBuffers ==
  /\ ppc = "front" /\ bgThreadBuffers = << >>
  /\ PollReturns
  /\ UNCHANGED <<fpos, membuf, nextFlushTime, file>>

(* Mutated form: the delay is never started.                               *)
Delayed_never == nextFlushTime

(* nextFlushTime of what stays in membuf.                                  *)
Delayed == IF membuf > 0 /\ nextFlushTime = "max" THEN "future" ELSE nextFlushTime

(* The loop has ended; nextFlushTime is compared with the time at which    *)
(* poll began.                                                             *)
PollEnd(forceFlush) ==
  /\ ppc = "handle"
  /\ ~ MayHandle(bgThreadBuffers[1].header)
  /\ IF membuf > 0 /\ (~ manageFp \/ forceFlush \/ nextFlushTime = "past")
     THEN FlushLogFile(membuf)
     ELSE nextFlushTime' = Delayed /\ UNCHANGED <<fpos, membuf, file>>
  /\ PollReturns

Poll ==
  \/ PollBegin \/ TakeLogInfos \/ TakeThreadBuffers \/ Front \/ Deallocate
  \/ BuildHeap \/ Heapify \/ Handle \/ NoBuffers
  \/ \E forceFlush \in BOOLEAN : PollEnd(forceFlush)

(* flushDelay passes.                                                      *)
Elapse ==
  /\ nextFlushTime = "future"
  /\ nextFlushTime' = "past"
  /\ UNCHANGED <<threadVars, sharedVars, pollVars, outputFp, fpos, membuf, file, sets, history>>

-----------------------------------------------------------------------------
(* The file; between two calls of poll                                     *)

(* closeLogFile writes membuf to the old file; what it does to fpos is said *)
(* by its callers.                                                         *)
CloseOutput ==
  /\ file' = IF membuf > 0 /\ manageFp THEN [file EXCEPT ![outputFp] = @ + membuf] ELSE file
  /\ membuf' = 0
  /\ nextFlushTime' = IF membuf > 0 THEN "max" ELSE nextFlushTime
  /\ UNCHANGED <<threadVars, sharedVars, pollVars, history>>

CloseLogFile ==
  /\ CloseOutput
  /\ fpos' = IF manageFp THEN fpos + membuf ELSE fpos
  /\ outputFp' = nullptr

(* setLogFile(filename), opened to append: its position is read before the *)
(* old file is closed.                                                     *)
SetLogFile(f) ==
  /\ CloseOutput
  /\ fpos' = IF manageFp THEN file[f] + membuf ELSE file[f]
  /\ outputFp' = f

(* setLogFile(stdout), which fmtlog does not manage.                       *)
SetStdout ==
  /\ CloseOutput
  /\ fpos' = 0
  /\ outputFp' = stdout

Sink ==
  /\ ppc = "idle"
  /\ sets < MaxSets
  /\ sets' = sets + 1
  /\ CloseLogFile \/ SetStdout \/ \E f \in Files : SetLogFile(f)

Next ==
  \/ \E t \in Threads : Thread(t)
  \/ Poll
  \/ Elapse
  \/ Sink

Spec == Init /\ [][Next]_vars

(* poll is called again and again, a log statement that was begun ends,    *)
(* and time passes.                                                        *)
Logging ==
  \E t \in Threads :
    \/ RegisterLogInfo(t) \/ InsertLogInfo(t) \/ Push(t)
    \/ tpc[t] = "push" /\ Preallocate(t)

FairSpec ==
  /\ Spec
  /\ WF_vars(Poll) /\ WF_vars(Elapse) /\ WF_vars(Logging)

-----------------------------------------------------------------------------
(* Properties                                                              *)

AllMsgs == [tsc : 1 .. MaxLogs, logId : Nat, stmt : Statements \cup {Once}]
NodeOf(t) == {k \in DOMAIN bgThreadBuffers : bgThreadBuffers[k].tb = t}

TypeOK ==
  /\ now \in 0 .. MaxLogs
  /\ tpc \in [Threads -> {"idle", "register", "insert", "push", "ended"}]
  /\ msg \in [Threads -> AllMsgs \cup {NoMsg}]
  /\ threadBuffer \in [Threads -> {"none", "live", "shouldDeallocate", "deleted"}]
  /\ queue \in [Threads -> Seq(AllMsgs)]
  /\ logId \in [Statements -> Nat]
  /\ logInfos \in Seq(Statements) /\ bgLogInfos \in Seq(Statements \cup {Once})
  /\ threadBuffers \in Seq(Threads)
  /\ ppc \in {"idle", "infos", "buffers", "front", "dealloc", "heap", "handle"}
  /\ tsc \in Nat /\ i \in Nat \ {0}
  /\ bgThreadBuffers \in Seq([tb : Threads, header : AllMsgs \cup {NoMsg}])
  /\ outputFp \in Files \cup {stdout, nullptr}
  /\ fpos \in Nat /\ membuf \in 0 .. FlushBufSize - 1
  /\ nextFlushTime \in {"max", "future", "past"}
  /\ file \in [Files -> Nat] /\ sets \in 0 .. MaxSets
  /\ waiting \subseteq AllMsgs
  /\ out \in Seq(AllMsgs) /\ Len(out) <= 1

(* A message is formatted by the statement that logged it: the id it       *)
(* carries is the place of this statement in bgLogInfos by the time the    *)
(* message is handled, although threads number their statements while poll *)
(* moves logInfos, and may use an id before it is in any list.             *)
KnownWhenHandled ==
  LET h == bgThreadBuffers[1].header IN
    (ppc = "handle" /\ MayHandle(h)) => bgLogInfos[h.logId + 1] = h.stmt

(* A node of the heap is about a buffer that exists, points to the oldest  *)
(* message in it or to none, and is the only one of this buffer: poll does *)
(* not use a buffer it has deleted and deletes none that is in use.        *)
HeapIsLive ==
  \A t \in Threads :
    IF NodeOf(t) = {} THEN threadBuffer[t] \in {"none", "deleted"} \/ t \in Contents(threadBuffers)
    ELSE \E k \in NodeOf(t) :
           /\ NodeOf(t) = {k}
           /\ threadBuffer[t] \in {"live", "shouldDeallocate"}
           /\ bgThreadBuffers[k].header \in {NoMsg, Oldest(t)}

(* fpos, from which log callbacks compute the position of a message        *)
(* ("file position of membuf", log/fmtlog-inl.h:224), is the length of the *)
(* file, whatever was in membuf when the file changed.                     *)
FposIsFileEnd == manageFp => fpos = file[outputFp]

Merge == INSTANCE LogMerge WITH
  Messages <- [tsc : 1 .. MaxLogs, logId : 0 .. 3 + Cardinality(Statements),
               stmt : Statements \cup {Once}],
  logging <- {t \in Threads : tpc[t] # "ended"}

(* Messages come out in the order of each thread, once, merged by time     *)
(* stamp; and none that was there when the poll began is lost, not even    *)
(* when its thread ends meanwhile.                                         *)
ImplementsLogMerge == Merge!Spec

(* What a thread has pushed is handled, even if its statement is still     *)
(* being registered by another thread; or the thread ends and it is lost.  *)
PushedIsHandled ==
  \A t \in Threads : queue[t] # << >> ~> queue[t] = << >>

(* What is in membuf is flushed, as long as some thread has a buffer.      *)
MembufFlushed ==
  membuf > 0 ~> (membuf = 0 \/ \A t \in Threads : threadBuffer[t] \in {"none", "deleted"})
=============================================================================
