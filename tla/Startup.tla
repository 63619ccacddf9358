------------------------------- MODULE Startup -------------------------------
(***************************************************************************)
(* From main to serving workers: configuration, log, signals, listening    *)
(* sockets, daemon, master and workers, with every step that may fail and  *)
(* with what fork copies: descriptors, session, standard streams, and the  *)
(* messages that a process has logged and not written yet.  Signals before *)
(* the master waits for them are in Master.                                *)
(*                                                                         *)
(* A message is a pair of what it says and of what: a port, a worker.  No  *)
(* process logs the same message twice.                                    *)
(***************************************************************************)
EXTENDS Integers, Sequences, FiniteSets

CONSTANTS
  Numbers,            \* what ListenPort0, ListenPort1, ... may be set to
  MaxListenPorts,     \* bound of ListenPortCount
  MaxWorkers,         \* bound of WorkerProcesses
  PortNumbers         \* 2 ^ 16: an in_port_t is below

ASSUME StartupAssumption ==
  /\ Numbers \subseteq Nat
  /\ MaxListenPorts \in Nat /\ MaxWorkers \in Nat
  /\ PortNumbers \in Nat \ {0}

main == 0              \* the process that was started
daemon == -1           \* its child
Workers == 1 .. MaxWorkers
Processes == {main, daemon} \cup Workers

Sockets == 0 .. MaxListenPorts - 1

VARIABLES
  conf,       \* [Daemon, ports: ListenPort0 .., WorkerProcesses, LogLevel]
  pc,         \* of each process
  step,       \* the loop of open_listening_sockets, then that of startWorkProcess
  fds,        \* listening sockets a process has open
  bound,      \* the port each of them is bound to (-1: none)
  session,    \* who has called setsid: main stands for the shell's session
  streams,    \* standard streams that are /dev/null
  queued,     \* messages logged and not written
  written     \* how often each message is in the log

vars == <<conf, pc, step, fds, bound, session, streams, queued, written>>

Failures == {"sigaction", "socket", "setsockopt", "bind", "listen",
             "fork", "setsid", "open", "dup2(STDIN)", "dup2(STDOUT)", "close"}
Messages ==
  (Failures \X {0}) \cup ({"listening"} \X Sockets) \cup ({"master", "sigprocmask"} \X {0})
    \cup ({"spawnProcess", "worker", "epoll_init", "exited"} \X Workers)

DBG == 0
INF == 1
WRN == 2
ERR == 3
OFF == 4

(* The level of the statement that logs a message.                         *)
Level(m) ==
  CASE m[1] \in Failures \cup {"spawnProcess", "epoll_init"} -> ERR
    [] m[1] = "sigprocmask" -> WRN
    [] OTHER -> INF

(* LogLevel is an index into toLevel, which has the levels in this order   *)
(* (1 if absent).  One outside of the table reads what is behind it: any   *)
(* level may come out.                                                     *)
Init ==
  /\ conf \in [Daemon : BOOLEAN, ports : UNION {[1 .. n -> Numbers] : n \in 0 .. MaxListenPorts},
               WorkerProcesses : 0 .. MaxWorkers, LogLevel : DBG .. OFF]
  /\ pc = [p \in Processes |-> IF p = main THEN "load" ELSE "none"]
  /\ step = 0
  /\ fds = [p \in Processes |-> {}] /\ bound = [s \in Sockets |-> -1]
  /\ session = [p \in Processes |-> main]
  /\ streams = [p \in Processes |-> {}]
  /\ queued = [p \in Processes |-> {}]
  /\ written = [m \in Messages |-> 0]

Goes(p, at) == pc' = [pc EXCEPT ![p] = at]

(* checkLogLevel: what is below LogLevel is not logged, and nothing if it  *)
(* is OFF.                                                                 *)
Passed(ms) == {m \in ms : Level(m) >= conf.LogLevel}

Log(p, m) == queued' = [queued EXCEPT ![p] = @ \cup Passed({m})]

(* fmtlog::poll by p after it has logged ms.  (Without forceFlush they may *)
(* stay in membuf, which the destructor writes: the process exits.)        *)
LogAndPoll(p, ms) ==
  /\ written' = [m \in Messages |->
                   IF m \in queued[p] \cup Passed(ms) THEN written[m] + 1 ELSE written[m]]
  /\ queued' = [queued EXCEPT ![p] = {}]

processState == <<conf, step, fds, bound, session, streams>>
logState == <<queued, written>>

(* Mutated form: _exit.                                                    *)
Exit_atOnce(p) ==
  /\ pc[p] = "exit"
  /\ Goes(p, "exited")
  /\ UNCHANGED <<processState, logState>>

(* exit runs the destructor of fmtlogDetailT, which polls.                 *)
Exit(p) ==
  /\ pc[p] = "exit"
  /\ Goes(p, "exited")
  /\ LogAndPoll(p, {})
  /\ UNCHANGED processState

-----------------------------------------------------------------------------
(* main                                                                    *)

(* printf tells that the file cannot be loaded; there is no log yet.      *)
Load ==
  /\ pc[main] = "load"
  /\ \E at \in {"initLog", "notLoaded"} : Goes(main, at)
  /\ UNCHANGED <<processState, logState>>

(* setLogFile throws if the file cannot be opened; nobody catches it.      *)
InitLog ==
  /\ pc[main] = "initLog"
  /\ \E at \in {"initSignals", "aborted"} : Goes(main, at)
  /\ UNCHANGED <<processState, logState>>

InitSignals ==
  /\ pc[main] = "initSignals"
  /\ \/ Goes(main, "open_listening_sockets") /\ UNCHANGED queued
     \/ Goes(main, "exit") /\ Log(main, <<"sigaction", 0>>)
  /\ UNCHANGED <<processState, written>>

(* Mutated form: the number is taken as it is.                             *)
Port_wide(n) == conf.ports[n + 1]

(* htons((in_port_t) iport)                                                *)
Port(n) == conf.ports[n + 1] % PortNumbers

(* bind: port 0 stands for any that is free.                               *)
Available(port) == port = 0 \/ \A s \in Sockets : bound[s] # port

(* Mutated form: the loop goes on with the next port.                      *)
SocketFails_goesOn ==
  /\ pc[main] = "open_listening_sockets"
  /\ step < Len(conf.ports)
  /\ \E call \in {"socket", "setsockopt", "bind", "listen"} : Log(main, <<call, 0>>)
  /\ step' = step + 1
  /\ UNCHANGED <<conf, pc, fds, bound, session, streams, written>>

(* A call fails for one of the ports: main exits, and with it the sockets  *)
(* of the other ports are closed.                                          *)
SocketFails ==
  /\ pc[main] = "open_listening_sockets"
  /\ step < Len(conf.ports)
  /\ \E call \in {"socket", "setsockopt", "bind", "listen"} : Log(main, <<call, 0>>)
  /\ Goes(main, "exit")
  /\ UNCHANGED <<processState, written>>

OpenListeningSocket ==
  /\ pc[main] = "open_listening_sockets"
  /\ step < Len(conf.ports)
  /\ Available(Port(step))
  /\ bound' = [bound EXCEPT ![step] = Port(step)]
  /\ fds' = [fds EXCEPT ![main] = @ \cup {step}]
  /\ Log(main, <<"listening", step>>)
  /\ step' = step + 1
  /\ UNCHANGED <<conf, pc, session, streams, written>>

SocketsOpen ==
  /\ pc[main] = "open_listening_sockets"
  /\ step = Len(conf.ports)
  /\ LogAndPoll(main, {})
  /\ step' = 0
  /\ Goes(main, IF conf.Daemon THEN "createDaemon" ELSE "masterProcessCycle")
  /\ UNCHANGED <<conf, fds, bound, session, streams>>

-----------------------------------------------------------------------------
(* fork and createDaemon                                                   *)

(* The child has what the parent has, in memory and of the kernel.         *)
Fork(parent, child) ==
  /\ fds' = [fds EXCEPT ![child] = fds[parent]]
  /\ session' = [session EXCEPT ![child] = session[parent]]
  /\ streams' = [streams EXCEPT ![child] = streams[parent]]
  /\ queued' = [queued EXCEPT ![child] = queued[parent]]

(* The parent returns 1 and exits; if fork fails it logs and exits.        *)
CreateDaemon ==
  /\ pc[main] = "createDaemon"
  /\ \/ /\ Fork(main, daemon)
        /\ pc' = [pc EXCEPT ![main] = "exit", ![daemon] = "setsid"]
        /\ UNCHANGED <<conf, step, bound, written>>
     \/ /\ Goes(main, "exit")
        /\ LogAndPoll(main, {<<"fork", 0>>})
        /\ UNCHANGED processState

(* What the daemon does, call by call.                                     *)
DaemonCalls == <<"setsid", "open", "dup2(STDIN)", "dup2(STDOUT)", "close", "masterProcessCycle">>
Following(call) ==
  DaemonCalls[1 + CHOOSE k \in DOMAIN DaemonCalls : DaemonCalls[k] = call]

(* Mutated form: logged, but not returned from.                            *)
DaemonFails_goesOn ==
  /\ pc[daemon] \in Failures
  /\ LogAndPoll(daemon, {<<pc[daemon], 0>>})
  /\ Goes(daemon, Following(pc[daemon]))
  /\ UNCHANGED processState

DaemonFails ==
  /\ pc[daemon] \in Failures
  /\ LogAndPoll(daemon, {<<pc[daemon], 0>>})
  /\ Goes(daemon, "exit")
  /\ UNCHANGED processState

DaemonCall ==
  /\ pc[daemon] \in Failures
  /\ session' = IF pc[daemon] = "setsid" THEN [session EXCEPT ![daemon] = daemon] ELSE session
  /\ streams' = CASE pc[daemon] = "dup2(STDIN)" -> [streams EXCEPT ![daemon] = @ \cup {"stdin"}]
                  [] pc[daemon] = "dup2(STDOUT)" -> [streams EXCEPT ![daemon] = @ \cup {"stdout"}]
                  [] OTHER -> streams
  /\ Goes(daemon, Following(pc[daemon]))
  /\ UNCHANGED <<conf, step, fds, bound, logState>>

-----------------------------------------------------------------------------
(* The master and the workers                                              *)

(* Mutated form: the log is not polled before the forks.                   *)
StartMaster_noPoll(p) ==
  /\ pc[p] = "masterProcessCycle"
  /\ Log(p, <<"master", 0>>)
  /\ Goes(p, "startWorkProcess")
  /\ UNCHANGED <<processState, written>>

(* sigprocmask, which may fail, and the message with a poll.               *)
StartMaster(p) ==
  /\ pc[p] = "masterProcessCycle"
  /\ \E ms \in {{}, {<<"sigprocmask", 0>>}} : LogAndPoll(p, ms \cup {<<"master", 0>>})
  /\ Goes(p, "startWorkProcess")
  /\ UNCHANGED processState

(* A fork that fails is logged, but not polled.                            *)
SpawnProcess(p) ==
  LET w == step + 1 IN
    /\ pc[p] = "startWorkProcess"
    /\ step < conf.WorkerProcesses
    /\ step' = w
    /\ \/ Fork(p, w) /\ Goes(w, "spawned")
       \/ Log(p, <<"spawnProcess", w>>) /\ UNCHANGED <<pc, fds, session, streams>>
    /\ UNCHANGED <<conf, bound, written>>

MasterWaits(p) ==
  /\ pc[p] = "startWorkProcess"
  /\ step = conf.WorkerProcesses
  /\ Goes(p, "sigsuspend")
  /\ UNCHANGED <<processState, logState>>

(* The handler of SIGCHLD waits for all workers that have ended, and polls. *)
MasterReaps(p) ==
  LET ended == {w \in Workers : pc[w] = "exited"} IN
    /\ pc[p] = "sigsuspend"
    /\ ended # {}
    /\ pc' = [w \in Processes |-> IF w \in ended THEN "reaped" ELSE pc[w]]
    /\ LogAndPoll(p, {"exited"} \X ended)
    /\ UNCHANGED processState

StartWorker(w) ==
  /\ pc[w] = "spawned"
  /\ LogAndPoll(w, {<<"worker", w>>})
  /\ Goes(w, "epoll_init")
  /\ UNCHANGED processState

EpollInit(w) ==
  /\ pc[w] = "epoll_init"
  /\ \/ Goes(w, "serving") /\ UNCHANGED queued
     \/ Goes(w, "exit") /\ Log(w, <<"epoll_init", w>>)
  /\ UNCHANGED <<processState, written>>

Next ==
  \/ Load \/ InitLog \/ InitSignals
  \/ SocketFails \/ OpenListeningSocket \/ SocketsOpen
  \/ CreateDaemon \/ DaemonFails \/ DaemonCall
  \/ \E p \in {main, daemon} :
       StartMaster(p) \/ SpawnProcess(p) \/ MasterWaits(p) \/ MasterReaps(p)
  \/ \E w \in Workers : StartWorker(w) \/ EpollInit(w)
  \/ \E p \in Processes : Exit(p)

Spec == Init /\ [][Next]_vars

-----------------------------------------------------------------------------
(* Properties                                                              *)

InMaster == {"masterProcessCycle", "startWorkProcess", "sigsuspend"}

TypeOK ==
  /\ pc \in [Processes -> InMaster \cup Failures \cup
       {"none", "load", "notLoaded", "initLog", "aborted", "initSignals",
        "open_listening_sockets", "createDaemon", "spawned", "epoll_init", "serving",
        "exit", "exited", "reaped"}]
  /\ \A p \in Processes : pc[p] \in Failures => p = daemon
  /\ step \in 0 .. (IF MaxWorkers > MaxListenPorts THEN MaxWorkers ELSE MaxListenPorts)
  /\ fds \in [Processes -> SUBSET Sockets]
  /\ bound \in [Sockets -> -1 .. PortNumbers - 1]
  /\ session \in [Processes -> {main, daemon}]
  /\ streams \in [Processes -> SUBSET {"stdin", "stdout"}]
  /\ queued \in [Processes -> SUBSET Messages]
  /\ written \in [Messages -> Nat]

(* Although fork copies the queue of the log, nothing is written by parent *)
(* and child but the failure of a fork, by the workers forked after it.    *)
WrittenOnce ==
  \A m \in Messages :
    written[m] > 1 =>
      m[1] = "spawnProcess" /\ written[m] <= 1 + conf.WorkerProcesses - m[2]

(* If the server has not come up, the log says why, unless it is off: the  *)
(* error paths of initSignals and open_listening_sockets do not poll, and  *)
(* those of createDaemon do so in a child.                                 *)
FailureTold ==
  (conf.LogLevel # OFF /\ pc[main] = "exited" /\ pc[daemon] \in {"none", "exited"}) =>
    \E f \in Failures : written[<<f, 0>>] = 1

(* A worker that serves has a socket for every port of the configuration,  *)
(* bound to the number that stands there if it is the number of a port,    *)
(* and no two of them to the same one.                                     *)
WorkersListen ==
  \A w \in Workers : pc[w] = "serving" =>
    /\ fds[w] = 0 .. Len(conf.ports) - 1
    /\ \A s \in fds[w] : conf.ports[s + 1] < PortNumbers => bound[s] = conf.ports[s + 1]
    /\ \A r, s \in fds[w] : (bound[r] = bound[s] /\ bound[r] # 0) => r = s

(* With Daemon = 1 nobody stays in the session of the shell or keeps its   *)
(* standard input and output: neither the master nor a worker, whichever   *)
(* call of createDaemon fails.                                             *)
Detached ==
  conf.Daemon =>
    \A p \in Processes : pc[p] \in InMaster \cup {"spawned", "epoll_init", "serving"} =>
      session[p] = daemon /\ streams[p] = {"stdin", "stdout"}
=============================================================================
