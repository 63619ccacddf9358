------------------------------ MODULE SignalLog ------------------------------
(***************************************************************************)
(* A worker after workerProcessCycle has unblocked the signals: one thread *)
(* whose main code logs, and which signalHandler interrupts to log and to  *)
(* poll.  A handler blocks its own signal only, so handlers interrupt each *)
(* other, too.  What is interrupted goes on when the handler returns.      *)
(*                                                                         *)
(* Of log and poll the model has what a call does alone: it holds          *)
(* logInfoMutex, or has made param_seq_ odd.  Who wants the mutex waits    *)
(* until it is free; who wants to convert a time stamp waits until         *)
(* param_seq_ is even.  (bufferMutex is not needed any more: the thread    *)
(* has had its buffer, and a poll taken it, since spawnProcess logged.)    *)
(***************************************************************************)
EXTENDS Naturals, Sequences, FiniteSets

CONSTANTS
  Signals,          \* those with signalHandler
  MainStatements,   \* log statements of the main code (no signal is one)
  MaxMessages,      \* bound: messages in the queue of the thread
  MaxSignals        \* bound: signals received

Statements == MainStatements \cup {"handler"}
Main == "main"

VARIABLES
  calls,        \* main and the running handlers, innermost last: [who, stmt, at]
  held,         \* locks that are held
  registered,   \* statements with a logId
  logInfos,     \* some are not in bgLogInfos yet
  messages,     \* in the queue of the thread
  received

vars == <<calls, held, registered, logInfos, messages, received>>

(* Nothing is queued: spawnProcess has polled.                             *)
Init ==
  /\ calls = <<[who |-> Main, stmt |-> "handler", at |-> "run"]>>
  /\ held = {}
  /\ registered = {} /\ logInfos = FALSE
  /\ messages = 0
  /\ received = 0

Top == Len(calls)
At(at) == calls[Top].at = at
Goes(at) == calls' = [calls EXCEPT ![Top].at = at]

(* The call goes from wanting a lock to inside.                            *)
Acquire(lock, wants, inside) ==
  /\ At(wants)
  /\ lock \notin held
  /\ held' = held \cup {lock}
  /\ Goes(inside)

(* signalHandler is called; its log statement first.                       *)
Deliver(signo) ==
  /\ received < MaxSignals
  /\ \A k \in 1 .. Top : calls[k].who # signo
  /\ calls' = Append(calls, [who |-> signo, stmt |-> "handler", at |-> "log"])
  /\ received' = received + 1
  /\ UNCHANGED <<held, registered, logInfos, messages>>

(* The main code logs when the event loop has something to report.         *)
MainLogs(s) ==
  /\ At("run")
  /\ calls' = [calls EXCEPT ![Top].stmt = s, ![Top].at = "log"]
  /\ UNCHANGED <<held, registered, logInfos, messages, received>>

-----------------------------------------------------------------------------
(* log                                                                     *)

Log ==
  /\ At("log")
  /\ Goes(IF calls[Top].stmt \in registered THEN "alloc" ELSE "registerLogInfo")
  /\ UNCHANGED <<held, registered, logInfos, messages, received>>

LockLogInfos ==
  /\ Acquire("logInfoMutex", "registerLogInfo", "emplace_back")
  /\ UNCHANGED <<registered, logInfos, messages, received>>

RegisterLogInfo ==
  /\ At("emplace_back")
  /\ registered' = registered \cup {calls[Top].stmt}
  /\ logInfos' = (logInfos \/ calls[Top].stmt \notin registered)
  /\ held' = held \ {"logInfoMutex"}
  /\ Goes("alloc")
  /\ UNCHANGED <<messages, received>>

(* allocMsg and push; main goes on, and a handler polls.                   *)
Push ==
  /\ At("alloc")
  /\ messages' = IF messages < MaxMessages THEN messages + 1 ELSE messages
  /\ Goes(IF calls[Top].who = Main THEN "run" ELSE "poll")
  /\ UNCHANGED <<held, registered, logInfos, received>>

-----------------------------------------------------------------------------
(* poll                                                                    *)

(* calibrate, if it is time: param_seq_ is odd until the end of saveParam. *)
Calibrate ==
  /\ \/ Acquire("param_seq_", "poll", "saveParam")
     \/ At("poll") /\ Goes("infos") /\ UNCHANGED held
  /\ UNCHANGED <<registered, logInfos, messages, received>>

SaveParam ==
  /\ At("saveParam")
  /\ held' = held \ {"param_seq_"}
  /\ Goes("infos")
  /\ UNCHANGED <<registered, logInfos, messages, received>>

TakeLogInfos ==
  /\ \/ /\ logInfos /\ Acquire("logInfoMutex", "infos", "insert")
        /\ UNCHANGED logInfos
     \/ /\ ~ logInfos /\ At("infos") /\ Goes("handle")
        /\ UNCHANGED <<held, logInfos>>
     \/ /\ At("insert") /\ Goes("handle")
        /\ held' = held \ {"logInfoMutex"}
        /\ logInfos' = FALSE
  /\ UNCHANGED <<registered, messages, received>>

Tsc2nsReturns == "param_seq_" \notin held

(* handleLog asks tsc2ns for the time, and the message is popped.  (What   *)
(* another poll does between these two is left out.)                       *)
Handle ==
  /\ At("handle")
  /\ messages > 0
  /\ Tsc2nsReturns
  /\ messages' = messages - 1
  /\ UNCHANGED <<calls, held, registered, logInfos, received>>

HandlerReturns ==
  /\ At("handle")
  /\ messages = 0
  /\ calls' = SubSeq(calls, 1, Top - 1)
  /\ UNCHANGED <<held, registered, logInfos, messages, received>>

Next ==
  \/ \E signo \in Signals : Deliver(signo)
  \/ \E s \in MainStatements : MainLogs(s)
  \/ Log \/ LockLogInfos \/ RegisterLogInfo \/ Push
  \/ Calibrate \/ SaveParam \/ TakeLogInfos \/ Handle \/ HandlerReturns

Spec == Init /\ [][Next]_vars

-----------------------------------------------------------------------------
(* Properties                                                              *)

(* What the innermost call waits for.                                      *)
Awaited ==
  CASE At("registerLogInfo") -> {"logInfoMutex"}
    [] At("infos") /\ logInfos -> {"logInfoMutex"}
    [] At("handle") /\ messages > 0 -> {"param_seq_"}
    [] OTHER -> {}

(* "This child process can receive signals normally"                       *)
(* (proc/xfly_process.cpp:77): a handler does not wait for what the code   *)
(* it has interrupted holds, as it would wait for ever.                    *)
SignalsReceivedNormally == Awaited \cap held = {}
=============================================================================
