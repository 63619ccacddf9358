------------------------------- MODULE Master -------------------------------
(***************************************************************************)
(* The master process and its signals: masterProcessCycle, spawnProcess,   *)
(* signalHandler and cleanWorker, and of the workers only that they end.   *)
(*                                                                         *)
(* A signal stands for every signal the program treats alike: a member of  *)
(* Logged for SIGHUP, SIGINT, SIGTERM, SIGQUIT and SIGIO (caught, only     *)
(* logged), a member of Deadly for SIGALRM, SIGUSR1 and SIGUSR2 (blocked   *)
(* with the others, but not caught).                                       *)
(*                                                                         *)
(* A pending signal is pending once, however often it was sent: workers    *)
(* that end together are announced by one SIGCHLD.  A handler interrupts   *)
(* the program and other handlers at every point where its signal is not   *)
(* blocked, also inside log and poll.  Of these the model has what a call  *)
(* takes for a while, and waits for: logInfoMutex, bufferMutex, and        *)
(* param_seq_, which calibrate makes odd and tsc2ns wants to be even.      *)
(***************************************************************************)
EXTENDS Naturals, Sequences

CONSTANTS
  WorkerProcesses,   \* from the configuration (1 if absent)
  Logged, Deadly,
  MaxSent            \* bound: signals sent from outside

SIGCHLD == "SIGCHLD"
Signals == {SIGCHLD} \cup Logged \cup Deadly
Main == "main"       \* who runs masterProcessCycle

ASSUME MasterAssumption ==
  /\ WorkerProcesses \in Nat
  /\ MaxSent \in Nat
  /\ Logged \cap Deadly = {}
  /\ SIGCHLD \notin Logged \cup Deadly
  /\ Main \notin Signals

Workers == 1 .. WorkerProcesses

VARIABLES
  calls,           \* masterProcessCycle and the running handlers, innermost last
  masked,          \* sigprocmask has blocked the signals
  i,               \* of the loop in startWorkProcess, from 1
  invalidProcess,
  pending,         \* signals sent to the master and not delivered
  sent,            \* number of signals sent from outside
  worker           \* none, running, zombie (ended, not waited for), reaped

vars == <<calls, masked, i, invalidProcess, pending, sent, worker>>
processState == <<masked, i, invalidProcess, pending, sent, worker>>

(* Who runs, at which point of the code, whether it is inside what the     *)
(* point takes, and where it goes on after log.                            *)
CallOf(who, at) == [who |-> who, at |-> at, inside |-> FALSE, then |-> "poll"]

Init ==
  /\ calls = <<CallOf(Main, "start")>>
  /\ masked = FALSE
  /\ i = 1
  /\ invalidProcess = 0
  /\ pending = {}
  /\ sent = 0
  /\ worker = [w \in Workers |-> "none"]

Alive == calls[1].at # "dead"

(* The innermost call runs; the others wait until it returns.              *)
Top == Len(calls)
At(at) == calls[Top].at = at
Goes(at) == calls' = [calls EXCEPT ![Top] = [@ EXCEPT !.at = at, !.inside = FALSE]]
Logs(then) == calls' = [calls EXCEPT ![Top] = [@ EXCEPT !.at = "log", !.then = then]]

-----------------------------------------------------------------------------
(* log and poll, in the master or a handler                                *)

Needs ==
  [registerLogInfo |-> "logInfoMutex", preallocate |-> "bufferMutex",
   calibrate |-> "param_seq_", infos |-> "logInfoMutex", buffers |-> "bufferMutex",
   handleLog |-> "param_seq_"]

(* A statement that has its logId, or is below the level, registers        *)
(* nothing; poll takes what there is to take.                              *)
Following(call) ==
  CASE call.at = "log" -> {"registerLogInfo", "preallocate", call.then}
    [] call.at = "registerLogInfo" -> {"preallocate", call.then}
    [] call.at = "preallocate" -> {call.then}
    [] call.at = "poll" -> {"calibrate", "infos", "buffers", "handleLog", "polled"}
    [] call.at = "calibrate" -> {"infos", "buffers", "handleLog", "polled"}
    [] call.at = "infos" -> {"buffers", "handleLog", "polled"}
    [] OTHER -> {"handleLog", "polled"}

Held == {Needs[calls[k].at] : k \in {k \in 1 .. Top : calls[k].inside}}

(* Both mutexes and an odd param_seq_ are taken by one call at a time.     *)
Enter ==
  /\ calls[Top].at \in DOMAIN Needs \ {"handleLog"}
  /\ ~ calls[Top].inside
  /\ Needs[calls[Top].at] \notin Held
  /\ calls' = [calls EXCEPT ![Top] = [@ EXCEPT !.inside = TRUE]]
  /\ UNCHANGED processState

Proceed ==
  /\ calls[Top].inside \/ calls[Top].at \in {"log", "poll"}
  /\ \E at \in Following(calls[Top]) : Goes(at)
  /\ UNCHANGED processState

(* handleLog: tsc2ns turns round until param_seq_ is even.                 *)
Handle ==
  /\ At("handleLog")
  /\ "param_seq_" \notin Held
  /\ Goes("polled")
  /\ UNCHANGED processState

-----------------------------------------------------------------------------
(* masterProcessCycle                                                      *)

(* sigprocmask blocks the signals for the time of the forks.  If it fails, *)
(* that is logged, and the master goes on with nothing blocked.            *)
BlockSignals ==
  /\ At("start")
  /\ \/ masked' = TRUE /\ Logs("poll")
     \/ masked' = FALSE /\ Logs("started")
  /\ UNCHANGED <<i, invalidProcess, pending, sent, worker>>

LogStart ==
  /\ At("started")
  /\ Logs("poll")
  /\ UNCHANGED processState

MainPolled ==
  /\ At("polled") /\ Top = 1
  /\ Goes("fork")
  /\ UNCHANGED processState

(* A fork that fails is logged, and the next worker is tried.              *)
SpawnProcess ==
  /\ At("fork")
  /\ i \in Workers
  /\ i' = i + 1
  /\ \/ worker' = [worker EXCEPT ![i] = "running"] /\ UNCHANGED calls
     \/ Logs("fork") /\ UNCHANGED worker
  /\ UNCHANGED <<masked, invalidProcess, pending, sent>>

EnterLoop ==
  /\ At("fork")
  /\ i \notin Workers
  /\ Goes("loop")
  /\ UNCHANGED processState

(* sigsuspend: nothing is blocked until a handler has run.                 *)
Suspend ==
  /\ At("loop")
  /\ Goes("sigsuspend")
  /\ UNCHANGED processState

-----------------------------------------------------------------------------
(* signalHandler                                                           *)

Running == {calls[k].who : k \in 2 .. Top}

(* Mutated form: sigsuspend is given the full set, not the emptied one.    *)
Blocked_inSuspend == IF masked THEN Signals ELSE Running

(* A handler blocks its own signal and no other (sa_mask is empty).        *)
Blocked == IF masked /\ calls[1].at # "sigsuspend" THEN Signals ELSE Running

(* Mutated form: the table has the signals of Deadly, too.                 *)
Deliver_anySignal(signo) ==
  /\ Alive
  /\ signo \in pending \ Blocked
  /\ pending' = pending \ {signo}
  /\ calls' = Append(calls, CallOf(signo, "entry"))
  /\ UNCHANGED <<masked, i, invalidProcess, sent, worker>>

(* signo interrupts the master.  Its handler is called or, if there is     *)
(* none, the process ends.                                                 *)
Deliver(signo) ==
  /\ Alive
  /\ signo \in pending \ Blocked
  /\ pending' = pending \ {signo}
  /\ calls' = IF signo \in Deadly THEN <<CallOf(Main, "dead")>>
                                  ELSE Append(calls, CallOf(signo, "entry"))
  /\ UNCHANGED <<masked, i, invalidProcess, sent, worker>>

(* The mark for SIGCHLD and the log line.                                  *)
HandlerEntry ==
  /\ At("entry")
  /\ IF calls[Top].who = SIGCHLD
     THEN Logs("cleanWorker") /\ invalidProcess' = 1
     ELSE Logs("poll") /\ UNCHANGED invalidProcess
  /\ UNCHANGED <<masked, i, pending, sent, worker>>

Zombies == {w \in Workers : worker[w] = "zombie"}
Children == Zombies \cup {w \in Workers : worker[w] = "running"}

(* Mutated form: one waitpid for each SIGCHLD.                             *)
CleanWorker_once ==
  /\ At("cleanWorker")
  /\ \/ \E w \in Zombies : worker' = [worker EXCEPT ![w] = "reaped"] /\ Logs("poll")
     \/ Zombies = {} /\ Goes("poll") /\ UNCHANGED worker
     \/ Children = {} /\ Logs("poll") /\ UNCHANGED worker
  /\ UNCHANGED <<masked, i, invalidProcess, pending, sent>>

(* One round of the loop in cleanWorker: waitpid(-1, .., WNOHANG) returns  *)
(* an ended worker, which is logged; or 0 if none has ended; or -1 if      *)
(* there is no child, which is logged unless an earlier round had one.     *)
CleanWorker ==
  /\ At("cleanWorker")
  /\ \/ \E w \in Zombies : worker' = [worker EXCEPT ![w] = "reaped"] /\ Logs("cleanWorker")
     \/ Zombies = {} /\ Goes("poll") /\ UNCHANGED worker
     \/ Children = {} /\ Logs("poll") /\ UNCHANGED worker
  /\ UNCHANGED <<masked, i, invalidProcess, pending, sent>>

(* Back to what was interrupted; sigsuspend returns with the handler.      *)
HandlerReturn ==
  /\ At("polled") /\ Top > 1
  /\ calls' = IF Top = 2 /\ calls[1].at = "sigsuspend" THEN <<CallOf(Main, "loop")>>
                                                       ELSE SubSeq(calls, 1, Top - 1)
  /\ UNCHANGED processState

-----------------------------------------------------------------------------
(* The world outside                                                       *)

Kill(signo) ==
  /\ Alive
  /\ sent < MaxSent
  /\ sent' = sent + 1
  /\ pending' = pending \cup {signo}
  /\ UNCHANGED <<calls, masked, i, invalidProcess, worker>>

(* A worker exits (exit(2) of epoll_init) or is killed.                    *)
WorkerEnds(w) ==
  /\ Alive
  /\ worker[w] = "running"
  /\ worker' = [worker EXCEPT ![w] = "zombie"]
  /\ pending' = pending \cup {SIGCHLD}
  /\ UNCHANGED <<calls, masked, i, invalidProcess, sent>>

(* What the process itself does, when it is scheduled.                     *)
Runs ==
  \/ Enter \/ Proceed \/ Handle
  \/ BlockSignals \/ LogStart \/ MainPolled \/ SpawnProcess \/ EnterLoop \/ Suspend
  \/ HandlerEntry \/ CleanWorker \/ HandlerReturn

Next ==
  \/ Runs
  \/ \E signo \in Signals : Deliver(signo) \/ Kill(signo)
  \/ \E w \in Workers : WorkerEnds(w)

Spec == Init /\ [][Next]_vars

(* The master is scheduled, and the kernel delivers what is not blocked.   *)
(* Nothing is promised to a call that waits for what it has interrupted.   *)
FairSpec ==
  /\ Spec
  /\ WF_vars(Runs)
  /\ \A signo \in Signals : WF_vars(Deliver(signo))

-----------------------------------------------------------------------------
(* Properties                                                              *)

LogPoints == {"log", "registerLogInfo", "preallocate"}
PollPoints == {"poll", "calibrate", "infos", "buffers", "handleLog", "polled"}
MainPoints == {"start", "started", "fork", "loop", "sigsuspend", "dead"}
HandlerPoints == {"entry", "cleanWorker"}

(* Handlers run for signals that have one, within masterProcessCycle; and  *)
(* only what log and poll take is held.                                    *)
TypeOK ==
  /\ calls \in Seq([who : {Main} \cup (Signals \ Deadly),
                    at : LogPoints \cup PollPoints \cup MainPoints \cup HandlerPoints,
                    inside : BOOLEAN, then : {"poll", "started", "fork", "cleanWorker"}])
  /\ calls # << >>
  /\ \A k \in 1 .. Len(calls) :
       /\ calls[k].who = Main <=> k = 1
       /\ calls[k].at \in LogPoints \cup PollPoints \cup
                            (IF k = 1 THEN MainPoints ELSE HandlerPoints)
       /\ "cleanWorker" \in {calls[k].at, calls[k].then} => calls[k].who = SIGCHLD
       /\ calls[k].then \in {"started", "fork"} => k = 1
       /\ calls[k].inside => calls[k].at \in DOMAIN Needs
  /\ masked \in BOOLEAN
  /\ i \in Nat
  /\ invalidProcess \in {0, 1}
  /\ pending \subseteq Signals
  /\ sent \in Nat
  /\ worker \in [Workers -> {"none", "running", "zombie", "reaped"}]

(* A call for SIGCHLD that has yet to make its last waitpid.               *)
Reaping(call) ==
  /\ call.who = SIGCHLD
  /\ call.at \in HandlerPoints \/ (call.at \in LogPoints /\ call.then = "cleanWorker")

(* A worker that has ended is not forgotten: a SIGCHLD is pending, or a    *)
(* handler for one has yet to make its last waitpid.  (Signals do not      *)
(* queue, the master blocks them while it forks if it can, and a worker    *)
(* may end between the last waitpid and the return of the handler.)        *)
ZombieAnnounced ==
  (Alive /\ Zombies # {}) =>
    SIGCHLD \in pending \/ \E k \in 1 .. Len(calls) : Reaping(calls[k])

(* The process waits for itself: the innermost call for what a call that   *)
(* it has interrupted is inside.                                           *)
WaitsForItself ==
  /\ calls[Top].at \in DOMAIN Needs
  /\ ~ calls[Top].inside
  /\ Needs[calls[Top].at] \in Held

(* Every worker that ends is waited for, unless the master itself ends or  *)
(* a handler waits for what it has interrupted.                            *)
ZombiesReaped ==
  \A w \in Workers :
    worker[w] = "zombie" ~> worker[w] = "reaped" \/ ~ Alive \/ WaitsForItself
=============================================================================
