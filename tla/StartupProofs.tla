--------------------------- MODULE StartupProofs ----------------------------
(***************************************************************************)
(* For any number of ports and workers and every way to fail: what is said *)
(* once is in the log once, a server that has not come up has said why,    *)
(* workers listen to every port, and a daemon has left its shell.          *)
(***************************************************************************)
EXTENDS Startup, TLAPS, FiniteSetTheorems

-----------------------------------------------------------------------------
(* The inductive invariant                                                 *)

Early == {"load", "initLog", "initSignals"}
Forking == {"startWorkProcess", "sigsuspend"}    \* what a master does after its first poll
Calls == {"setsid", "open", "dup2(STDIN)", "dup2(STDOUT)", "close"}
MayBeMaster == {main, daemon}

(* Every place in the program.                                             *)
Everywhere ==
  InMaster \cup Failures \cup
    {"none", "load", "notLoaded", "initLog", "aborted", "initSignals",
     "open_listening_sockets", "createDaemon", "spawned", "epoll_init", "serving",
     "exit", "exited", "reaped"}

(* What the configuration says stays as it was loaded.                     *)
ConfOK ==
  /\ conf.Daemon \in BOOLEAN
  /\ conf.ports \in Seq(Numbers) /\ Len(conf.ports) <= MaxListenPorts
  /\ conf.WorkerProcesses \in 0 .. MaxWorkers

LevelOK == conf.LogLevel \in DBG .. OFF

(* Who may be where: there is one master, main or the daemon, and workers  *)
(* only when it forks or has forked.                                       *)
Places ==
  /\ pc[main] \in Early \cup {"notLoaded", "aborted", "open_listening_sockets", "createDaemon",
                              "exit", "exited"} \cup InMaster
  /\ pc[daemon] \in {"none", "exit", "exited"} \cup Calls \cup InMaster
  /\ \A w \in Workers :
       pc[w] \in {"none", "spawned", "epoll_init", "serving", "exit", "exited", "reaped"}
  /\ pc[daemon] # "none" => conf.Daemon /\ pc[main] \in {"exit", "exited"}
  /\ pc[main] \in InMaster => ~ conf.Daemon
  /\ pc[main] = "createDaemon" => conf.Daemon
  /\ \A w \in Workers : pc[w] # "none" => w <= step /\ \E p \in MayBeMaster : pc[p] \in Forking

(* The two loops that step counts.                                         *)
Steps ==
  /\ pc[main] \in Early \cup {"createDaemon"} => step = 0
  /\ pc[main] = "open_listening_sockets" => step <= Len(conf.ports)
  /\ pc[daemon] \in Calls => step = 0
  /\ \A p \in MayBeMaster : /\ pc[p] = "masterProcessCycle" => step = 0
                            /\ pc[p] \in Forking => step <= conf.WorkerProcesses

(* Sockets are open in the order of the ports, bound to different ones,    *)
(* and inherited by the daemon and the workers.                            *)
Ports == 0 .. Len(conf.ports) - 1
Listening ==
  /\ \A r, s \in Sockets : (bound[r] = bound[s] /\ bound[r] \notin {0, -1}) => r = s
  /\ \A p \in Processes : \A s \in fds[p] : bound[s] # -1
  /\ pc[main] \in Early => fds[main] = {}
  /\ pc[main] = "open_listening_sockets" => fds[main] = 0 .. step - 1
  /\ pc[main] \in {"createDaemon"} \cup InMaster => fds[main] = Ports
  /\ \A p \in Processes \ {main} : pc[p] # "none" => fds[p] = Ports

(* A socket that is bound has the number of its port.                      *)
Bindings == \A s \in Sockets : bound[s] # -1 => s < Len(conf.ports) /\ bound[s] = Port(s)

(* What the daemon has done call by call; workers have what it has.        *)
Leaving ==
  /\ pc[daemon] \in (Calls \ {"setsid"}) \cup InMaster => session[daemon] = daemon
  /\ streams[main] = {}
  /\ pc[daemon] \in {"setsid", "open", "dup2(STDIN)"} => streams[daemon] = {}
  /\ pc[daemon] = "dup2(STDOUT)" => streams[daemon] = {"stdin"}
  /\ pc[daemon] \in {"close"} \cup InMaster => streams[daemon] = {"stdin", "stdout"}
  /\ \A w \in Workers : conf.Daemon /\ pc[w] # "none" =>
       session[w] = daemon /\ streams[w] = {"stdin", "stdout"}

(* What a process has logged and not written.                              *)
Spawns(last) == {"spawnProcess"} \X (1 .. last)
Queues ==
  /\ pc[main] \in Early \cup {"notLoaded", "aborted", "createDaemon", "masterProcessCycle", "exited"}
       => queued[main] = {}
  /\ pc[main] = "open_listening_sockets" => queued[main] \subseteq {"listening"} \X (0 .. step - 1)
  /\ pc[main] = "exit" => queued[main] \subseteq ({"listening"} \X Sockets) \cup (Failures \X {0})
  /\ pc[daemon] # "none" => queued[main] = {}
  /\ pc[daemon] \notin Forking => queued[daemon] = {}
  /\ \A p \in MayBeMaster : pc[p] \in Forking => queued[p] \subseteq Spawns(step)
  /\ \A w \in Workers :
       /\ pc[w] = "spawned" => queued[w] \subseteq Spawns(w - 1)
       /\ pc[w] = "exit" => queued[w] \subseteq {<<"epoll_init", w>>}
       /\ pc[w] \notin {"spawned", "exit"} => queued[w] = {}

(* What is not written yet: what waits in a queue, and what is due, as a   *)
(* process may still come to say it.                                       *)
Once == {m \in Messages : m[1] # "spawnProcess"}
Due ==
  {m \in Once :
     \/ pc[main] \in Early \cup {"open_listening_sockets"}
     \/ m[1] \in Failures /\ (pc[main] = "createDaemon" \/ pc[daemon] \in Calls)
     \/ m[1] \in {"master", "sigprocmask"} /\ \A p \in MayBeMaster : pc[p] \notin Forking
     \/ m[1] = "worker" /\ pc[m[2]] \in {"none", "spawned"}
     \/ m[1] = "epoll_init" /\ pc[m[2]] \in {"none", "spawned", "epoll_init"}
     \/ m[1] = "exited" /\ pc[m[2]] # "reaped"}
Waiting == {m \in Once : \E p \in Processes : m \in queued[p]}
Unsaid ==
  \A m \in Once : written[m] <= 1 /\ (m \in Due \cup Waiting => written[m] = 0)

(* The failure of a fork is written by the master, when it first reaps,    *)
(* and by each worker forked later, when it starts.                        *)
Started(w) == {v \in w + 1 .. conf.WorkerProcesses : pc[v] \notin {"none", "spawned"}}
MasterHasSaid(w) ==
  \E p \in MayBeMaster : pc[p] = "sigsuspend" /\ <<"spawnProcess", w>> \notin queued[p]
Copies ==
  \A w \in Workers :
    written[<<"spawnProcess", w>>]
      <= Cardinality(Started(w)) + (IF MasterHasSaid(w) THEN 1 ELSE 0)

(* A process that gives up has a reason, in the log or in its queue,       *)
(* unless the log is off.                                                  *)
Reason ==
  conf.LogLevel # OFF =>
    /\ pc[main] \in {"exit", "exited"} =>
         \/ pc[daemon] # "none"
         \/ \E f \in Failures : written[<<f, 0>>] = 1
         \/ pc[main] = "exit" /\ \E f \in Failures : <<f, 0>> \in queued[main]
    /\ pc[daemon] \in {"exit", "exited"} => \E f \in Failures : written[<<f, 0>>] = 1

IInv ==
  /\ TypeOK /\ ConfOK /\ LevelOK /\ Places /\ Steps /\ Listening /\ Bindings
  /\ Leaving /\ Queues /\ Unsaid /\ Copies /\ Reason

-----------------------------------------------------------------------------
(* Lemmas                                                                  *)

(* What the daemon does after each of its calls.                           *)
LEMMA FollowingIs ==
  /\ Following("setsid") = "open"
  /\ Following("open") = "dup2(STDIN)"
  /\ Following("dup2(STDIN)") = "dup2(STDOUT)"
  /\ Following("dup2(STDOUT)") = "close"
  /\ Following("close") = "masterProcessCycle"
<1>1. DOMAIN DaemonCalls = 1 .. 6
  BY DEF DaemonCalls
<1>2. ASSUME NEW call, NEW n \in 1 .. 6, DaemonCalls[n] = call,
             \A k \in 1 .. 6 : DaemonCalls[k] = call => k = n
      PROVE  Following(call) = DaemonCalls[1 + n]
  BY <1>1, <1>2, Zenon DEF Following
<1>3. ASSUME NEW n \in 1 .. 6
      PROVE  \A k \in 1 .. 6 : DaemonCalls[k] = DaemonCalls[n] => k = n
  BY <1>3 DEF DaemonCalls
<1>4. \A n \in 1 .. 5 : Following(DaemonCalls[n]) = DaemonCalls[1 + n]
  BY <1>2, <1>3
<1> QED BY <1>4 DEF DaemonCalls

(* The child has what the parent has, and nobody else anything new.        *)
LEMMA Forked ==
  ASSUME TypeOK, NEW parent \in Processes, NEW child \in Processes, Fork(parent, child)
  PROVE  /\ fds'[child] = fds[parent] /\ session'[child] = session[parent]
         /\ streams'[child] = streams[parent] /\ queued'[child] = queued[parent]
         /\ \A p \in Processes \ {child} : /\ fds'[p] = fds[p] /\ session'[p] = session[p]
                                           /\ streams'[p] = streams[p] /\ queued'[p] = queued[p]
BY DEF TypeOK, Fork

(* createDaemon: main exits, and if the fork succeeds there is a daemon.   *)
LEMMA CreateDaemonEffect ==
  ASSUME TypeOK, CreateDaemon
  PROVE  /\ pc[main] = "createDaemon" /\ pc'[main] = "exit"
         /\ \A w \in Workers : pc'[w] = pc[w]
         /\ UNCHANGED <<conf, step, bound>>
         /\ \/ Fork(main, daemon) /\ pc'[daemon] = "setsid" /\ UNCHANGED written
            \/ /\ LogAndPoll(main, {<<"fork", 0>>})
               /\ pc'[daemon] = pc[daemon] /\ UNCHANGED <<fds, session, streams>>
<1>1. DOMAIN pc = Processes
  BY DEF TypeOK
<1>2. main \in Processes /\ daemon \in Processes /\ main # daemon
      /\ \A w \in Workers : w \in Processes /\ w # main /\ w # daemon
  BY DEF Processes, main, daemon, Workers
<1> QED BY <1>1, <1>2 DEF CreateDaemon, Goes, processState

(* A round of startWorkProcess: a worker is forked, or the failure noted.  *)
LEMMA SpawnProcessEffect ==
  ASSUME TypeOK, ConfOK, NEW p \in MayBeMaster, SpawnProcess(p)
  PROVE  /\ pc[p] = "startWorkProcess" /\ step < conf.WorkerProcesses
         /\ step' = step + 1 /\ step + 1 \in Workers
         /\ UNCHANGED <<conf, bound, written>>
         /\ \A q \in Processes \ {step + 1} : pc'[q] = pc[q]
         /\ \/ Fork(p, step + 1) /\ pc'[step + 1] = "spawned"
            \/ Log(p, <<"spawnProcess", step + 1>>) /\ UNCHANGED <<pc, fds, session, streams>>
<1>1. DOMAIN pc = Processes /\ step \in Nat
  BY StartupAssumption DEF TypeOK
<1>2. step < conf.WorkerProcesses => step + 1 \in Workers /\ step + 1 \in Processes
  BY <1>1, StartupAssumption DEF ConfOK, Workers, Processes
<1> QED BY <1>1, <1>2 DEF SpawnProcess, Goes

(* A port fits into an in_port_t.                                          *)
LEMMA PortBelow ==
  ASSUME ConfOK, step \in Nat, step < Len(conf.ports)
  PROVE  Port(step) \in 0 .. PortNumbers - 1
<1>1. conf.ports \in Seq(Numbers) /\ Numbers \subseteq Nat /\ PortNumbers \in Nat \ {0}
  BY StartupAssumption DEF ConfOK
<1>2. \A ports \in Seq(Numbers) : \A n \in 1 .. Len(ports) : ports[n] \in Numbers
  OBVIOUS
<1>3. conf.ports[step + 1] \in Nat
  <2>1. Len(conf.ports) \in Nat
    BY <1>1
  <2>2. step + 1 \in 1 .. Len(conf.ports)
    BY <2>1
  <2> QED BY <1>1, <1>2, <2>2
<1>4. \A a \in Nat, b \in Nat \ {0} : a % b \in 0 .. b - 1
  OBVIOUS
<1> QED BY <1>1, <1>3, <1>4 DEF Port

(* What is logged is among what the statements say.                        *)
LEMMA PassedIs == (\A ms : Passed(ms) \subseteq ms) /\ Passed({}) = {}
BY DEF Passed

(* If the log is not off, failures pass.                                   *)
LEMMA FailurePasses ==
  ASSUME LevelOK, conf.LogLevel # OFF, NEW f \in Failures, NEW ms, <<f, 0>> \in ms
  PROVE  <<f, 0>> \in Passed(ms)
<1>1. Level(<<f, 0>>) = ERR
  <2>1. <<f, 0>>[1] \in Failures \cup {"spawnProcess", "epoll_init"}
    OBVIOUS
  <2>2. <<f, 0>>[1] # "sigprocmask"
    BY DEF Failures
  <2> QED BY <2>1, <2>2, Zenon DEF Level
<1>2. ERR >= conf.LogLevel
  BY DEF LevelOK, DBG, ERR, OFF
<1> QED BY <1>1, <1>2 DEF Passed

(* Logging puts a message into the own queue, if it passes.                *)
LEMMA Logged ==
  ASSUME TypeOK, NEW p \in Processes, NEW m, Log(p, m)
  PROVE  /\ queued'[p] = queued[p] \cup Passed({m})
         /\ queued'[p] \subseteq queued[p] \cup {m}
         /\ \A q \in Processes \ {p} : queued'[q] = queued[q]
<1>1. /\ queued'[p] = queued[p] \cup Passed({m})
      /\ \A q \in Processes \ {p} : queued'[q] = queued[q]
  BY DEF TypeOK, Log
<1> QED BY <1>1, PassedIs

(* Polling empties the own queue into the log.                             *)
LEMMA Polled ==
  ASSUME TypeOK, NEW p \in Processes, NEW ms, LogAndPoll(p, ms)
  PROVE  /\ queued'[p] = {}
         /\ \A q \in Processes \ {p} : queued'[q] = queued[q]
         /\ \A m \in Messages :
              written'[m] = IF m \in queued[p] \cup Passed(ms) THEN written[m] + 1 ELSE written[m]
BY DEF TypeOK, LogAndPoll

(* The messages.                                                           *)
LEMMA MessageKinds ==
  /\ \A f \in Failures : <<f, 0>> \in Once
  /\ \A s \in Sockets : <<"listening", s>> \in Once
  /\ <<"master", 0>> \in Once /\ <<"sigprocmask", 0>> \in Once
  /\ \A w \in Workers : /\ <<"spawnProcess", w>> \in Messages \ Once
                        /\ <<"worker", w>> \in Once /\ <<"epoll_init", w>> \in Once
                        /\ <<"exited", w>> \in Once
BY DEF Messages, Once, Failures

(* If nothing is written, it is enough that no more is due and what is put *)
(* into queues is due or was in one.                                       *)
LEMMA UnsaidKept ==
  ASSUME Unsaid, UNCHANGED written, Due' \subseteq Due, Waiting' \subseteq Due \cup Waiting
  PROVE  Unsaid'
BY DEF Unsaid

(* What is due or waits may be written if it is neither afterwards.        *)
LEMMA UnsaidPolled ==
  ASSUME TypeOK, Unsaid, NEW p \in Processes, NEW ms, LogAndPoll(p, ms), ms \subseteq Due,
         Due' \subseteq Due \ (queued[p] \cup ms),
         \A q \in Processes \ {p} : queued[q] \cap (queued[p] \cup ms) \cap Once = {}
  PROVE  Unsaid'
<1>1. \A m \in Once : m \in Messages /\ written[m] \in Nat
  BY DEF TypeOK, Once
<1>2. Waiting' \cap (queued[p] \cup ms) = {} /\ Waiting' \subseteq Waiting
  BY Polled DEF Waiting
<1>3. ASSUME NEW m \in Once
      PROVE  written'[m] <= 1 /\ (m \in Due' \cup Waiting' => written'[m] = 0)
  <2>1. CASE m \in queued[p] \cup Passed(ms)
    <3>1. m \in Due \cup Waiting
      BY <2>1, PassedIs DEF Waiting
    <3>2. written'[m] = 1
      BY <1>1, <2>1, <3>1, Polled DEF Unsaid
    <3>3. m \in queued[p] \cup ms
      BY <2>1, PassedIs
    <3> QED BY <1>2, <3>2, <3>3
  <2>2. CASE m \notin queued[p] \cup Passed(ms)
    <3>1. written'[m] = written[m]
      BY <1>1, <2>2, Polled
    <3> QED BY <1>2, <3>1 DEF Unsaid
  <2> QED BY <2>1, <2>2
<1> QED BY <1>3 DEF Unsaid

(* Nobody is where it cannot be.                                           *)
LEMMA PlacesStep ==
  ASSUME IInv, Next
  PROVE  Places'
<1> USE DEF TypeOK, ConfOK, Places, Steps, Early, Forking, Calls, InMaster, Failures, main, daemon, Workers, Processes, MayBeMaster
<1>0. TypeOK /\ ConfOK /\ Places /\ Steps
  BY StartupAssumption DEF IInv
<1>1. CASE Load
  BY <1>0, <1>1 DEF Load, Goes, processState, logState
<1>2. CASE InitLog
  BY <1>0, <1>2 DEF InitLog, Goes, processState, logState
<1>3. CASE InitSignals
  BY <1>0, <1>3 DEF InitSignals, Goes, Log, processState
<1>4. CASE SocketFails
  BY <1>0, <1>4 DEF SocketFails, Goes, Log, processState
<1>5. CASE OpenListeningSocket
  BY <1>0, <1>5 DEF OpenListeningSocket, Log
<1>6. CASE SocketsOpen
  BY <1>0, <1>6 DEF SocketsOpen, LogAndPoll, Goes
<1>7. CASE CreateDaemon
  BY <1>0, <1>7, CreateDaemonEffect
<1>8. CASE DaemonFails
  BY <1>0, <1>8 DEF DaemonFails, Goes, LogAndPoll, processState
<1>9. CASE DaemonCall
  BY <1>0, <1>9, FollowingIs DEF DaemonCall, Goes, logState
<1>10. ASSUME NEW p \in MayBeMaster, StartMaster(p)
      PROVE  Places'
  BY <1>0, <1>10 DEF StartMaster, LogAndPoll, Goes, processState
<1>11. ASSUME NEW p \in MayBeMaster, SpawnProcess(p)
      PROVE  Places'
  <2>1. /\ pc'[main] = pc[main] /\ pc'[daemon] = pc[daemon] /\ step' = step + 1 /\ step \in Nat
        /\ pc[p] = "startWorkProcess" /\ UNCHANGED conf
        /\ \A w \in Workers : w # step + 1 => pc'[w] = pc[w]
    BY <1>0, <1>11, SpawnProcessEffect, StartupAssumption
  <2>2. pc'[step + 1] \in {pc[step + 1], "spawned"} /\ step + 1 \in Workers
    BY <1>0, <1>11, SpawnProcessEffect
  <2>3. \A w \in Workers : pc'[w] # "none" => w <= step'
    BY <1>0, <2>1, <2>2
  <2> QED BY <1>0, <1>11, <2>1, <2>2, <2>3
<1>12. ASSUME NEW p \in MayBeMaster, MasterWaits(p)
      PROVE  Places'
  BY <1>0, <1>12 DEF MasterWaits, Goes, processState, logState
<1>13. ASSUME NEW p \in MayBeMaster, MasterReaps(p)
      PROVE  Places'
  BY <1>0, <1>13 DEF MasterReaps, LogAndPoll, processState
<1>14. ASSUME NEW w \in Workers, StartWorker(w)
      PROVE  Places'
  BY <1>0, <1>14 DEF StartWorker, LogAndPoll, Goes, processState
<1>15. ASSUME NEW w \in Workers, EpollInit(w)
      PROVE  Places'
  BY <1>0, <1>15 DEF EpollInit, Goes, Log, processState
<1>16. ASSUME NEW p \in Processes, Exit(p)
      PROVE  Places'
  BY <1>0, <1>16 DEF Exit, Goes, LogAndPoll, processState
<1> QED BY <1>1, <1>2, <1>3, <1>4, <1>5, <1>6, <1>7, <1>8, <1>9, <1>10, <1>11, <1>12, <1>13, <1>14, <1>15, <1>16 DEF Next, MayBeMaster

(* step stays in its loop.                                                 *)
LEMMA StepsStep ==
  ASSUME IInv, Next
  PROVE  Steps'
<1> USE DEF TypeOK, ConfOK, Places, Steps, Early, Forking, Calls, InMaster, Failures, main, daemon, Workers, Processes, MayBeMaster
<1>0. TypeOK /\ ConfOK /\ Places /\ Steps
  BY StartupAssumption DEF IInv
<1>1. CASE Load
  BY <1>0, <1>1 DEF Load, Goes, processState, logState
<1>2. CASE InitLog
  BY <1>0, <1>2 DEF InitLog, Goes, processState, logState
<1>3. CASE InitSignals
  BY <1>0, <1>3 DEF InitSignals, Goes, Log, processState
<1>4. CASE SocketFails
  BY <1>0, <1>4 DEF SocketFails, Goes, Log, processState
<1>5. CASE OpenListeningSocket
  BY <1>0, <1>5 DEF OpenListeningSocket, Log
<1>6. CASE SocketsOpen
  BY <1>0, <1>6 DEF SocketsOpen, LogAndPoll, Goes
<1>7. CASE CreateDaemon
  BY <1>0, <1>7 DEF CreateDaemon, Fork, Goes, LogAndPoll, processState
<1>8. CASE DaemonFails
  BY <1>0, <1>8 DEF DaemonFails, Goes, LogAndPoll, processState
<1>9. CASE DaemonCall
  BY <1>0, <1>9, FollowingIs DEF DaemonCall, Goes, logState
<1>10. ASSUME NEW p \in MayBeMaster, StartMaster(p)
      PROVE  Steps'
  BY <1>0, <1>10 DEF StartMaster, LogAndPoll, Goes, processState
<1>11. ASSUME NEW p \in MayBeMaster, SpawnProcess(p)
      PROVE  Steps'
  BY <1>0, <1>11 DEF SpawnProcess, Fork, Goes, Log
<1>12. ASSUME NEW p \in MayBeMaster, MasterWaits(p)
      PROVE  Steps'
  BY <1>0, <1>12 DEF MasterWaits, Goes, processState, logState
<1>13. ASSUME NEW p \in MayBeMaster, MasterReaps(p)
      PROVE  Steps'
  BY <1>0, <1>13 DEF MasterReaps, LogAndPoll, processState
<1>14. ASSUME NEW w \in Workers, StartWorker(w)
      PROVE  Steps'
  BY <1>0, <1>14 DEF StartWorker, LogAndPoll, Goes, processState
<1>15. ASSUME NEW w \in Workers, EpollInit(w)
      PROVE  Steps'
  BY <1>0, <1>15 DEF EpollInit, Goes, Log, processState
<1>16. ASSUME NEW p \in Processes, Exit(p)
      PROVE  Steps'
  BY <1>0, <1>16 DEF Exit, Goes, LogAndPoll, processState
<1> QED BY <1>1, <1>2, <1>3, <1>4, <1>5, <1>6, <1>7, <1>8, <1>9, <1>10, <1>11, <1>12, <1>13, <1>14, <1>15, <1>16 DEF Next, MayBeMaster

(* Nothing but the start reads the configuration.                          *)
LEMMA ConfKept ==
  ASSUME Next
  PROVE  UNCHANGED conf
<1>1. CASE \/ Load \/ InitLog \/ InitSignals \/ SocketFails \/ OpenListeningSocket \/ SocketsOpen
           \/ CreateDaemon \/ DaemonFails \/ DaemonCall
  BY <1>1 DEF Load, InitLog, InitSignals, SocketFails, OpenListeningSocket, SocketsOpen,
              CreateDaemon, DaemonFails, DaemonCall, processState
<1>2. CASE \E p \in MayBeMaster : StartMaster(p) \/ SpawnProcess(p) \/ MasterWaits(p) \/ MasterReaps(p)
  BY <1>2 DEF StartMaster, SpawnProcess, MasterWaits, MasterReaps, processState
<1>3. CASE \/ \E w \in Workers : StartWorker(w) \/ EpollInit(w)
           \/ \E p \in Processes : Exit(p)
  BY <1>3 DEF StartWorker, EpollInit, Exit, processState
<1> QED BY <1>1, <1>2, <1>3 DEF Next, MayBeMaster

(* So it stays what it was.                                                *)
LEMMA ConfStep ==
  ASSUME IInv, Next
  PROVE  ConfOK' /\ LevelOK'
BY ConfKept DEF IInv, ConfOK, LevelOK

(* Sockets are bound one by one, each to its port.                         *)
LEMMA BindingsStep ==
  ASSUME IInv, Next
  PROVE  Bindings'
<1>1. UNCHANGED conf /\ Bindings /\ bound \in [Sockets -> -1 .. PortNumbers - 1]
  BY ConfKept DEF IInv, TypeOK
<1>2. CASE UNCHANGED bound
  BY <1>1, <1>2 DEF Bindings, Port
<1>3. CASE OpenListeningSocket
  <2>1. step < Len(conf.ports) /\ bound' = [bound EXCEPT ![step] = Port(step)]
    BY <1>3 DEF OpenListeningSocket
  <2>2. \A s : Port(s)' = Port(s)
    BY <1>1 DEF Port
  <2> HIDE DEF Port
  <2> QED BY <1>1, <2>1, <2>2 DEF Bindings
<1>4. ASSUME ~ OpenListeningSocket PROVE UNCHANGED bound
  <2>1. CASE \/ Load \/ InitLog \/ InitSignals \/ SocketFails \/ SocketsOpen
             \/ CreateDaemon \/ DaemonFails \/ DaemonCall
    BY <2>1 DEF Load, InitLog, InitSignals, SocketFails, SocketsOpen,
                CreateDaemon, DaemonFails, DaemonCall, processState
  <2>2. CASE \E p \in MayBeMaster :
               StartMaster(p) \/ SpawnProcess(p) \/ MasterWaits(p) \/ MasterReaps(p)
    BY <2>2 DEF StartMaster, SpawnProcess, MasterWaits, MasterReaps, processState
  <2>3. CASE \/ \E w \in Workers : StartWorker(w) \/ EpollInit(w)
             \/ \E p \in Processes : Exit(p)
    BY <2>3 DEF StartWorker, EpollInit, Exit, processState
  <2> QED BY <1>4, <2>1, <2>2, <2>3 DEF Next, MayBeMaster
<1> QED BY <1>2, <1>3, <1>4

(* Sockets are opened one by one, and inherited by every fork.             *)
LEMMA ListeningStep ==
  ASSUME IInv, Next
  PROVE  Listening'
<1> USE DEF TypeOK, ConfOK, Places, Steps, Listening, Ports, Sockets, Early, Forking, Calls, InMaster, Failures, main, daemon, Workers, Processes, MayBeMaster
<1>0. TypeOK /\ ConfOK /\ Places /\ Steps /\ Listening
  BY StartupAssumption DEF IInv
<1>1. CASE Load
  BY <1>0, <1>1 DEF Load, Goes, processState, logState
<1>2. CASE InitLog
  BY <1>0, <1>2 DEF InitLog, Goes, processState, logState
<1>3. CASE InitSignals
  <2>1. /\ pc[main] = "initSignals" /\ UNCHANGED <<conf, step, fds, bound>>
        /\ \E next \in {"exit", "open_listening_sockets"} : Goes(main, next)
    BY <1>3 DEF InitSignals, Goes, processState
  <2> QED BY <1>0, <2>1 DEF Goes
<1>4. CASE SocketFails
  BY <1>0, <1>4 DEF SocketFails, Goes, Log, processState
<1>5. CASE OpenListeningSocket
  <2>1. /\ pc[main] = "open_listening_sockets" /\ UNCHANGED <<pc, conf>>
        /\ step < Len(conf.ports) /\ step' = step + 1
    BY <1>0, <1>5 DEF OpenListeningSocket
  <2>9. step \in Sockets /\ step \in Nat /\ step + 1 \in 1 .. Len(conf.ports)
    BY <1>0, <2>1, StartupAssumption
  <2>2. /\ bound'[step] = Port(step) /\ Port(step) \in Nat
        /\ \A s \in Sockets \ {step} : bound'[s] = bound[s]
        /\ Port(step) = 0 \/ \A s \in Sockets : bound[s] # Port(step)
    <3>1. Port(step) \in Nat
      BY <1>0, <2>1, <2>9, PortBelow
    <3> QED BY <1>0, <1>5, <2>9, <3>1 DEF OpenListeningSocket, Available
  <2>3. fds'[main] = fds[main] \cup {step} /\ \A p \in Processes \ {main} : fds'[p] = fds[p]
    BY <1>0, <1>5 DEF OpenListeningSocket
  <2>4. fds'[main] = 0 .. step' - 1
    BY <1>0, <2>1, <2>3, <2>9
  <2>5. \A r, s \in Sockets : (bound'[r] = bound'[s] /\ bound'[r] \notin {0, -1}) => r = s
    BY <1>0, <2>2
  <2>6. \A p \in Processes : \A s \in fds'[p] : s \in Sockets /\ bound'[s] # -1
    <3>1. \A p \in Processes : fds[p] \subseteq Sockets
      BY <1>0
    <3> QED BY <1>0, <2>2, <2>3, <2>9, <3>1
  <2> HIDE DEF Ports
  <2>7. Ports' = Ports
    BY <2>1 DEF Ports
  <2>8. \A p \in Processes \ {main} : pc'[p] # "none" => fds'[p] = Ports'
    BY <1>0, <2>1, <2>3, <2>7
  <2> QED BY <2>1, <2>4, <2>5, <2>6, <2>8
<1>6. CASE SocketsOpen
  BY <1>0, <1>6 DEF SocketsOpen, LogAndPoll, Goes
<1>7. CASE CreateDaemon
  <2>1. CASE Fork(main, daemon) /\ pc'[daemon] = "setsid"
    <3> HIDE DEF Ports
    <3>1. Ports' = Ports
      BY <1>0, <1>7, CreateDaemonEffect DEF Ports
    <3>2. fds'[daemon] = fds[main] /\ \A p \in Processes \ {daemon} : fds'[p] = fds[p]
      BY <1>0, <2>1, Forked
    <3>3. fds[main] = Ports /\ UNCHANGED bound
      BY <1>0, <1>7, CreateDaemonEffect
    <3>4. \A w \in Workers : pc'[w] = pc[w] /\ pc'[main] = "exit"
      BY <1>0, <1>7, CreateDaemonEffect
    <3>5. \A p \in Processes : \A s \in fds'[p] : bound'[s] # -1
      BY <1>0, <3>2, <3>3
    <3>6. \A p \in Processes \ {main} : pc'[p] # "none" => fds'[p] = Ports'
      BY <1>0, <3>1, <3>2, <3>3, <3>4
    <3> QED BY <1>0, <1>7, <3>3, <3>5, <3>6, CreateDaemonEffect
  <2>2. CASE pc'[daemon] = pc[daemon] /\ UNCHANGED <<fds, session, streams>>
    <3> HIDE DEF Ports
    <3>1. Ports' = Ports /\ UNCHANGED <<bound, fds>>
      BY <1>0, <1>7, <2>2, CreateDaemonEffect DEF Ports
    <3>2. pc'[main] = "exit" /\ \A p \in Processes \ {main} : pc'[p] = pc[p]
      BY <1>0, <1>7, <2>2, CreateDaemonEffect
    <3> QED BY <1>0, <3>1, <3>2
  <2> QED BY <1>0, <1>7, <2>1, <2>2, CreateDaemonEffect
<1>8. CASE DaemonFails
  BY <1>0, <1>8 DEF DaemonFails, Goes, LogAndPoll, processState
<1>9. CASE DaemonCall
  BY <1>0, <1>9, FollowingIs DEF DaemonCall, Goes, logState
<1>10. ASSUME NEW p \in MayBeMaster, StartMaster(p)
      PROVE  Listening'
  BY <1>0, <1>10 DEF StartMaster, LogAndPoll, Goes, processState
<1>11. ASSUME NEW p \in MayBeMaster, SpawnProcess(p)
      PROVE  Listening'
  <2>1. CASE Fork(p, step + 1) /\ pc'[step + 1] = "spawned"
    <3> HIDE DEF Ports
    <3>1. Ports' = Ports /\ UNCHANGED bound
      BY <1>0, <1>11, SpawnProcessEffect DEF Ports
    <3>2. /\ fds'[step + 1] = fds[p] /\ \A q \in Processes \ {step + 1} : fds'[q] = fds[q]
          /\ \A q \in Processes \ {step + 1} : pc'[q] = pc[q]
      BY <1>0, <1>11, <2>1, SpawnProcessEffect, Forked
    <3>3. pc[p] = "startWorkProcess" /\ step + 1 \in Workers /\ step + 1 # main
      BY <1>0, <1>11, SpawnProcessEffect
    <3>4. fds[p] = Ports
      BY <1>0, <3>3
    <3>5. \A q \in Processes : \A s \in fds'[q] : bound'[s] # -1
      <4>1. p \in Processes /\ step + 1 \in Processes
        BY <3>3
      <4>2. \A q \in Processes : \A s \in fds[q] : bound[s] # -1
        BY <1>0
      <4>3. ASSUME NEW q \in Processes
            PROVE  \E r \in Processes : fds'[q] = fds[r]
        BY <3>2, <4>1
      <4> QED BY <3>1, <4>2, <4>3
    <3>6. \A q \in Processes \ {main} : pc'[q] # "none" => fds'[q] = Ports'
      BY <1>0, <3>1, <3>2, <3>4
    <3>7. pc'[main] = pc[main] /\ fds'[main] = fds[main]
      BY <3>2, <3>3
    <3>8. pc[main] \notin Early \cup {"open_listening_sockets"}
      BY <1>0, <3>3
    <3> QED BY <1>0, <3>1, <3>5, <3>6, <3>7, <3>8
  <2>2. CASE UNCHANGED <<pc, fds, session, streams>>
    <3> HIDE DEF Ports
    <3>1. Ports' = Ports /\ UNCHANGED <<bound, fds, pc>>
      BY <1>0, <1>11, <2>2, SpawnProcessEffect DEF Ports
    <3>2. pc[main] \notin Early \cup {"open_listening_sockets"}
      BY <1>0, <1>11, SpawnProcessEffect
    <3> QED BY <1>0, <3>1, <3>2
  <2> QED BY <1>0, <1>11, <2>1, <2>2, SpawnProcessEffect
<1>12. ASSUME NEW p \in MayBeMaster, MasterWaits(p)
      PROVE  Listening'
  BY <1>0, <1>12 DEF MasterWaits, Goes, processState, logState
<1>13. ASSUME NEW p \in MayBeMaster, MasterReaps(p)
      PROVE  Listening'
  BY <1>0, <1>13 DEF MasterReaps, LogAndPoll, processState
<1>14. ASSUME NEW w \in Workers, StartWorker(w)
      PROVE  Listening'
  BY <1>0, <1>14 DEF StartWorker, LogAndPoll, Goes, processState
<1>15. ASSUME NEW w \in Workers, EpollInit(w)
      PROVE  Listening'
  BY <1>0, <1>15 DEF EpollInit, Goes, Log, processState
<1>16. ASSUME NEW p \in Processes, Exit(p)
      PROVE  Listening'
  BY <1>0, <1>16 DEF Exit, Goes, LogAndPoll, processState
<1> QED BY <1>1, <1>2, <1>3, <1>4, <1>5, <1>6, <1>7, <1>8, <1>9, <1>10, <1>11, <1>12, <1>13, <1>14, <1>15, <1>16 DEF Next, MayBeMaster

(* Each call of createDaemon does its part.                                *)
LEMMA LeavingStep ==
  ASSUME IInv, Next
  PROVE  Leaving'
<1> USE DEF TypeOK, ConfOK, Places, Steps, Leaving, Early, Forking, Calls, InMaster, Failures, main, daemon, Workers, Processes, MayBeMaster
<1>0. TypeOK /\ ConfOK /\ Places /\ Steps /\ Leaving
  BY StartupAssumption DEF IInv
<1>1. CASE Load
  BY <1>0, <1>1 DEF Load, Goes, processState, logState
<1>2. CASE InitLog
  BY <1>0, <1>2 DEF InitLog, Goes, processState, logState
<1>3. CASE InitSignals
  BY <1>0, <1>3 DEF InitSignals, Goes, Log, processState
<1>4. CASE SocketFails
  BY <1>0, <1>4 DEF SocketFails, Goes, Log, processState
<1>5. CASE OpenListeningSocket
  BY <1>0, <1>5 DEF OpenListeningSocket, Log
<1>6. CASE SocketsOpen
  BY <1>0, <1>6 DEF SocketsOpen, LogAndPoll, Goes
<1>7. CASE CreateDaemon
  <2>1. CASE Fork(main, daemon) /\ pc'[daemon] = "setsid"
    <3>1. /\ session'[daemon] = session[main] /\ streams'[daemon] = streams[main]
          /\ \A w \in Workers : session'[w] = session[w] /\ streams'[w] = streams[w]
      BY <1>0, <2>1, Forked
    <3>2. \A w \in Workers : pc'[w] = "none"
      BY <1>0, <1>7, CreateDaemonEffect
    <3>3. streams[main] = {}
      BY <1>0, <1>7, CreateDaemonEffect
    <3>4. streams'[main] = streams[main]
      BY <1>0, <2>1, Forked
    <3> QED BY <2>1, <3>1, <3>2, <3>3, <3>4
  <2>2. CASE pc'[daemon] = pc[daemon] /\ UNCHANGED <<fds, session, streams>>
    BY <1>0, <1>7, <2>2, CreateDaemonEffect
  <2> QED BY <1>0, <1>7, <2>1, <2>2, CreateDaemonEffect
<1>8. CASE DaemonFails
  BY <1>0, <1>8 DEF DaemonFails, Goes, LogAndPoll, processState
<1>9. CASE DaemonCall
  BY <1>0, <1>9, FollowingIs DEF DaemonCall, Goes, logState
<1>10. ASSUME NEW p \in MayBeMaster, StartMaster(p)
      PROVE  Leaving'
  BY <1>0, <1>10 DEF StartMaster, LogAndPoll, Goes, processState
<1>11. ASSUME NEW p \in MayBeMaster, SpawnProcess(p)
      PROVE  Leaving'
  <2>1. CASE Fork(p, step + 1) /\ pc'[step + 1] = "spawned"
    BY <1>0, <1>11, <2>1, SpawnProcessEffect, Forked
  <2>2. CASE UNCHANGED <<pc, fds, session, streams>>
    BY <1>0, <1>11, <2>2, SpawnProcessEffect
  <2> QED BY <1>0, <1>11, <2>1, <2>2, SpawnProcessEffect
<1>12. ASSUME NEW p \in MayBeMaster, MasterWaits(p)
      PROVE  Leaving'
  BY <1>0, <1>12 DEF MasterWaits, Goes, processState, logState
<1>13. ASSUME NEW p \in MayBeMaster, MasterReaps(p)
      PROVE  Leaving'
  BY <1>0, <1>13 DEF MasterReaps, LogAndPoll, processState
<1>14. ASSUME NEW w \in Workers, StartWorker(w)
      PROVE  Leaving'
  BY <1>0, <1>14 DEF StartWorker, LogAndPoll, Goes, processState
<1>15. ASSUME NEW w \in Workers, EpollInit(w)
      PROVE  Leaving'
  BY <1>0, <1>15 DEF EpollInit, Goes, Log, processState
<1>16. ASSUME NEW p \in Processes, Exit(p)
      PROVE  Leaving'
  BY <1>0, <1>16 DEF Exit, Goes, LogAndPoll, processState
<1> QED BY <1>1, <1>2, <1>3, <1>4, <1>5, <1>6, <1>7, <1>8, <1>9, <1>10, <1>11, <1>12, <1>13, <1>14, <1>15, <1>16 DEF Next, MayBeMaster

(* A worker that goes on keeps the type of pc.                             *)
LEMMA PlaceTypes ==
  ASSUME TypeOK, NEW p \in Processes, NEW at \in {"spawned", "serving", "exit"},
         pc' = [pc EXCEPT ![p] = at]
  PROVE  /\ pc' \in [Processes -> Everywhere]
         /\ \A q \in Processes : pc'[q] \in Failures => q = daemon
<1>1. at \in Everywhere /\ at \notin Failures
  BY DEF Everywhere, Failures
<1>2. /\ pc \in [Processes -> Everywhere]
      /\ \A q \in Processes : pc[q] \in Failures => q = daemon
  BY DEF TypeOK, Everywhere
<1> QED BY <1>1, <1>2

(* What is logged has the type of a message.                               *)
LEMMA LogTypes ==
  ASSUME TypeOK, NEW p \in Processes, NEW m \in Messages, Log(p, m)
  PROVE  queued' \in [Processes -> SUBSET Messages]
<1>1. Passed({m}) \subseteq Messages
  BY DEF Passed
<1> QED BY <1>1 DEF TypeOK, Log

(* A poll counts what it writes.                                           *)
LEMMA PollTypes ==
  ASSUME TypeOK, NEW p \in Processes, NEW ms, LogAndPoll(p, ms)
  PROVE  queued' \in [Processes -> SUBSET Messages] /\ written' \in [Messages -> Nat]
BY DEF TypeOK, LogAndPoll

(* What a child gets has the types of what its parent has.                 *)
LEMMA ForkTypes ==
  ASSUME TypeOK, NEW parent \in Processes, NEW child \in Processes, Fork(parent, child)
  PROVE  /\ fds' \in [Processes -> SUBSET Sockets] /\ session' \in [Processes -> {main, daemon}]
         /\ streams' \in [Processes -> SUBSET {"stdin", "stdout"}]
         /\ queued' \in [Processes -> SUBSET Messages]
BY DEF TypeOK, Fork

(* The variables keep their types.                                         *)
LEMMA TypeStep ==
  ASSUME IInv, Next
  PROVE  TypeOK'
<1> USE DEF Everywhere, TypeOK, ConfOK, Places, Steps, Early, Forking, Calls, InMaster, Failures, Sockets, main, daemon, Workers, Processes, MayBeMaster, StartupAssumption
<1>0. TypeOK /\ ConfOK /\ Places /\ Steps /\ StartupAssumption
  BY StartupAssumption DEF IInv
<1>1. CASE Load
  BY <1>0, <1>1 DEF Load, Goes, processState, logState
<1>2. CASE InitLog
  BY <1>0, <1>2 DEF InitLog, Goes, processState, logState
<1>3. CASE InitSignals
  BY <1>0, <1>3, LogTypes, MessageKinds DEF Once, InitSignals, Goes, processState
<1>4. CASE SocketFails
  BY <1>0, <1>4, LogTypes, MessageKinds DEF Once, SocketFails, Goes, processState
<1>5. CASE OpenListeningSocket
  <2>1. /\ UNCHANGED <<pc, session, streams, written>> /\ step < Len(conf.ports)
        /\ step' = step + 1 /\ fds' = [fds EXCEPT ![main] = @ \cup {step}]
        /\ bound' = [bound EXCEPT ![step] = Port(step)]
    BY <1>5 DEF OpenListeningSocket
  <2>2. step \in Sockets /\ step' \in 0 .. MaxListenPorts
    BY <1>0, <2>1
  <2>3. Port(step) \in -1 .. PortNumbers - 1
    BY <1>0, <2>1, PortBelow
  <2>4. queued' \in [Processes -> SUBSET Messages]
    <3>1. <<"listening", step>> \in Messages /\ Log(main, <<"listening", step>>)
      BY <1>5, <2>2, MessageKinds DEF Once, OpenListeningSocket
    <3> QED BY <1>0, <3>1, LogTypes
  <2> QED BY <1>0, <2>1, <2>2, <2>3, <2>4, SMTT(30)
<1>6. CASE SocketsOpen
  <2>1. LogAndPoll(main, {})
    BY <1>6 DEF SocketsOpen
  <2>2. queued' \in [Processes -> SUBSET Messages] /\ written' \in [Messages -> Nat]
    BY <1>0, <2>1, PollTypes
  <2> QED BY <1>0, <1>6, <2>2 DEF SocketsOpen, Goes
<1>7. CASE CreateDaemon
  <2>1. /\ pc' \in [Processes -> Everywhere] /\ UNCHANGED <<step, bound>>
        /\ \A p \in Processes : pc'[p] \in Failures => p = daemon
    BY <1>0, <1>7 DEF CreateDaemon, Goes, processState
  <2>2. CASE Fork(main, daemon) /\ pc'[daemon] = "setsid" /\ UNCHANGED written
    <3>1. /\ fds' \in [Processes -> SUBSET Sockets] /\ session' \in [Processes -> {main, daemon}]
          /\ streams' \in [Processes -> SUBSET {"stdin", "stdout"}]
          /\ queued' \in [Processes -> SUBSET Messages]
      BY <1>0, <2>2, ForkTypes
    <3> QED BY <1>0, <2>2, <2>1, <3>1
  <2>3. CASE LogAndPoll(main, {<<"fork", 0>>}) /\ UNCHANGED <<fds, session, streams>>
    <3>1. queued' \in [Processes -> SUBSET Messages] /\ written' \in [Messages -> Nat]
      BY <1>0, <2>3, PollTypes
    <3> QED BY <1>0, <2>3, <2>1, <3>1
  <2> QED BY <1>0, <1>7, <2>2, <2>3, CreateDaemonEffect
<1>8. CASE DaemonFails
  BY <1>0, <1>8, PollTypes DEF DaemonFails, Goes, processState
<1>9. CASE DaemonCall
  BY <1>0, <1>9, FollowingIs DEF DaemonCall, Goes, logState
<1>10. ASSUME NEW p \in MayBeMaster, StartMaster(p)
      PROVE  TypeOK'
  BY <1>0, <1>10, PollTypes DEF StartMaster, Goes, processState
<1>11. ASSUME NEW p \in MayBeMaster, SpawnProcess(p)
      PROVE  TypeOK'
  <2>1. /\ pc' \in [Processes -> Everywhere]
        /\ \A q \in Processes : pc'[q] \in Failures => q = daemon
        /\ UNCHANGED <<bound, written>> /\ step + 1 \in Workers
        /\ step' \in 0 .. (IF MaxWorkers > MaxListenPorts THEN MaxWorkers ELSE MaxListenPorts)
    <3>1. /\ UNCHANGED <<bound, written>> /\ step + 1 \in Workers /\ step' = step + 1
          /\ pc' = pc \/ pc' = [pc EXCEPT ![step + 1] = "spawned"]
      BY <1>0, <1>11, SpawnProcessEffect DEF SpawnProcess, Goes
    <3>2. step' \in 0 .. (IF MaxWorkers > MaxListenPorts THEN MaxWorkers ELSE MaxListenPorts)
      BY <1>0, <3>1
    <3>3. /\ pc' \in [Processes -> Everywhere]
          /\ \A q \in Processes : pc'[q] \in Failures => q = daemon
      <4>1. CASE pc' = pc
        BY <1>0, <4>1
      <4>2. CASE pc' = [pc EXCEPT ![step + 1] = "spawned"]
        BY <1>0, <3>1, <4>2, PlaceTypes
      <4> QED BY <3>1, <4>1, <4>2
    <3> QED BY <3>1, <3>2, <3>3
  <2>2. CASE Fork(p, step + 1) /\ pc'[step + 1] = "spawned"
    <3>1. /\ fds' \in [Processes -> SUBSET Sockets] /\ session' \in [Processes -> {main, daemon}]
          /\ streams' \in [Processes -> SUBSET {"stdin", "stdout"}]
          /\ queued' \in [Processes -> SUBSET Messages]
      BY <1>0, <2>2, <2>1, ForkTypes
    <3> QED BY <1>0, <2>1, <3>1
  <2>3. CASE Log(p, <<"spawnProcess", step + 1>>) /\ UNCHANGED <<pc, fds, session, streams>>
    <3>1. queued' \in [Processes -> SUBSET Messages]
      BY <1>0, <2>3, <2>1, LogTypes, MessageKinds
    <3> QED BY <1>0, <2>3, <2>1, <3>1
  <2> QED BY <1>0, <1>11, <2>2, <2>3, SpawnProcessEffect
<1>12. ASSUME NEW p \in MayBeMaster, MasterWaits(p)
      PROVE  TypeOK'
  BY <1>0, <1>12 DEF MasterWaits, Goes, processState, logState
<1>13. ASSUME NEW p \in MayBeMaster, MasterReaps(p)
      PROVE  TypeOK'
  BY <1>0, <1>13, PollTypes DEF MasterReaps, processState
<1>14. ASSUME NEW w \in Workers, StartWorker(w)
      PROVE  TypeOK'
  BY <1>0, <1>14, PollTypes DEF StartWorker, Goes, processState
<1>15. ASSUME NEW w \in Workers, EpollInit(w)
      PROVE  TypeOK'
  <2>1. w \in Processes /\ <<"epoll_init", w>> \in Messages
    BY MessageKinds DEF Once
  <2>2. queued' \in [Processes -> SUBSET Messages]
    BY <1>0, <1>15, <2>1, LogTypes DEF EpollInit
  <2>3. /\ pc' = [pc EXCEPT ![w] = "serving"] \/ pc' = [pc EXCEPT ![w] = "exit"]
        /\ UNCHANGED <<processState, written>>
    BY <1>15 DEF EpollInit, Goes
  <2>4. /\ pc' \in [Processes -> Everywhere]
        /\ \A q \in Processes : pc'[q] \in Failures => q = daemon
    BY <1>0, <2>1, <2>3, PlaceTypes
  <2> QED BY <1>0, <2>2, <2>3, <2>4 DEF processState
<1>16. ASSUME NEW p \in Processes, Exit(p)
      PROVE  TypeOK'
  BY <1>0, <1>16, PollTypes DEF Exit, Goes, processState
<1> QED BY <1>1, <1>2, <1>3, <1>4, <1>5, <1>6, <1>7, <1>8, <1>9, <1>10, <1>11, <1>12, <1>13, <1>14, <1>15, <1>16 DEF Next, MayBeMaster

(* What waits in which queue.                                              *)
LEMMA QueuesStep ==
  ASSUME IInv, Next
  PROVE  Queues'
<1> USE DEF TypeOK, ConfOK, Places, Steps, Early, Forking, Calls, InMaster, Failures, Sockets, Spawns, Queues, main, daemon, Workers, Processes, MayBeMaster
<1>0. TypeOK /\ ConfOK /\ Places /\ Steps /\ Queues
  BY StartupAssumption DEF IInv
<1>1. CASE Load
  BY <1>0, <1>1 DEF Load, Goes, processState, logState
<1>2. CASE InitLog
  BY <1>0, <1>2 DEF InitLog, Goes, processState, logState
<1>3. CASE InitSignals
  <2>1. /\ pc[main] = "initSignals" /\ pc[daemon] = "none" /\ queued[main] = {} /\ UNCHANGED step
        /\ pc'[main] \in {"open_listening_sockets", "exit"}
        /\ \A q \in Processes \ {main} : pc'[q] = pc[q]
    BY <1>0, <1>3 DEF InitSignals, Goes, processState
  <2>2. /\ queued'[main] \subseteq (IF pc'[main] = "exit" THEN {<<"sigaction", 0>>} ELSE {})
        /\ \A q \in Processes \ {main} : queued'[q] = queued[q]
    <3>1. \/ Goes(main, "open_listening_sockets") /\ UNCHANGED queued
          \/ Goes(main, "exit") /\ Log(main, <<"sigaction", 0>>)
      BY <1>3 DEF InitSignals
    <3> QED BY <1>0, <2>1, <3>1, Logged DEF Goes
  <2> QED BY <1>0, <2>1, <2>2
<1>4. CASE SocketFails
  <2>1. /\ pc' = [pc EXCEPT ![main] = "exit"] /\ UNCHANGED <<conf, step>> /\ step \in Nat
        /\ pc[main] = "open_listening_sockets" /\ step < Len(conf.ports)
    BY <1>0, <1>4 DEF SocketFails, Goes, processState
  <2>2. PICK f \in Failures : Log(main, <<f, 0>>)
    BY <1>4 DEF SocketFails
  <2>3. /\ queued'[main] \subseteq queued[main] \cup {<<f, 0>>}
        /\ \A q \in Processes \ {main} : queued'[q] = queued[q]
    BY <1>0, <2>2, Logged
  <2>4. queued'[main] \subseteq ({"listening"} \X Sockets) \cup (Failures \X {0})
    <3>1. 0 .. step - 1 \subseteq Sockets
      BY <1>0, <2>1, StartupAssumption
    <3> QED BY <1>0, <2>1, <2>2, <2>3, <3>1
  <2>5. \A q \in Processes \ {main} : pc'[q] = pc[q]
    BY <1>0, <2>1
  <2>6. pc'[main] = "exit" /\ pc[daemon] = "none"
    BY <1>0, <2>1
  <2> HIDE DEF Failures, Sockets
  <2> QED BY <1>0, <2>1, <2>3, <2>4, <2>5, <2>6
<1>5. CASE OpenListeningSocket
  <2>1. /\ pc[main] = "open_listening_sockets" /\ UNCHANGED pc /\ step' = step + 1
        /\ Log(main, <<"listening", step>>)
    BY <1>5 DEF OpenListeningSocket
  <2>2. /\ queued'[main] \subseteq queued[main] \cup {<<"listening", step>>}
        /\ \A q \in Processes \ {main} : queued'[q] = queued[q]
    BY <1>0, <2>1, Logged
  <2> QED BY <1>0, <2>1, <2>2
<1>6. CASE SocketsOpen
  BY <1>0, <1>6 DEF SocketsOpen, LogAndPoll, Goes
<1>7. CASE CreateDaemon
  <2>1. /\ pc'[main] = "exit" /\ queued[main] = {} /\ \A p \in MayBeMaster : pc[p] \notin Forking
        /\ \A w \in Workers : pc'[w] = pc[w] /\ pc[w] = "none"
        /\ pc'[daemon] \in {pc[daemon], "setsid"}
    BY <1>0, <1>7, CreateDaemonEffect
  <2>2. \A p \in Processes : queued'[p] = IF p = main THEN {} ELSE queued[p]
    <3>0. queued[daemon] = {} /\ main \in Processes /\ daemon \in Processes
      BY <1>0, <2>1
    <3>1. CASE Fork(main, daemon)
      <4>1. /\ queued'[daemon] = queued[main]
            /\ \A p \in Processes \ {daemon} : queued'[p] = queued[p]
        BY <1>0, <3>1, <3>0, Forked
      <4> QED BY <2>1, <3>0, <4>1
    <3>2. CASE LogAndPoll(main, {<<"fork", 0>>})
      <4>1. /\ queued'[main] = {}
            /\ \A p \in Processes \ {main} : queued'[p] = queued[p]
        BY <1>0, <3>2, <3>0, Polled
      <4> QED BY <4>1
    <3> QED BY <1>0, <1>7, <3>1, <3>2, CreateDaemonEffect
  <2> QED BY <1>0, <2>1, <2>2
<1>8. CASE DaemonFails
  BY <1>0, <1>8 DEF DaemonFails, Goes, LogAndPoll, processState
<1>9. CASE DaemonCall
  BY <1>0, <1>9, FollowingIs DEF DaemonCall, Goes, logState
<1>10. ASSUME NEW p \in MayBeMaster, StartMaster(p)
      PROVE  Queues'
  BY <1>0, <1>10 DEF StartMaster, LogAndPoll, Goes, processState
<1>11. ASSUME NEW p \in MayBeMaster, SpawnProcess(p)
      PROVE  Queues'
  <2>1. /\ pc[p] = "startWorkProcess" /\ step' = step + 1 /\ step + 1 \in Workers /\ step \in Nat
        /\ \A q \in Processes \ {step + 1} : pc'[q] = pc[q]
        /\ pc'[step + 1] \in {pc[step + 1], "spawned"}
    BY <1>0, <1>11, SpawnProcessEffect
  <2>2. Spawns(step) \subseteq Spawns(step + 1)
    BY <2>1
  <2>3. queued[p] \subseteq Spawns(step) /\ pc[step + 1] = "none" /\ p # step + 1
    BY <1>0, <2>1
  <2>4. \A q \in MayBeMaster \ {p} : pc[q] \notin Forking \cup Early \cup
                 {"createDaemon", "masterProcessCycle", "open_listening_sockets"}
    BY <1>0, <2>1
  <2>5. CASE Fork(p, step + 1) /\ pc'[step + 1] = "spawned"
    <3>1. /\ queued'[step + 1] = queued[p]
          /\ \A q \in Processes \ {step + 1} : queued'[q] = queued[q]
      BY <1>0, <2>1, <2>5, Forked
    <3>2. queued'[p] = queued[p] /\ queued'[step + 1] \subseteq Spawns((step + 1) - 1)
      BY <2>1, <2>3, <3>1
    <3>3. \A w \in Workers \ {step + 1} : queued'[w] = queued[w] /\ pc'[w] = pc[w]
      BY <2>1, <3>1
    <3>4. queued'[main] = queued[main] /\ queued'[daemon] = queued[daemon]
          /\ pc'[main] = pc[main] /\ pc'[daemon] = pc[daemon]
      BY <2>1, <3>1
    <3> HIDE DEF Spawns
    <3>5. \A w \in Workers :
            /\ pc'[w] = "spawned" => queued'[w] \subseteq Spawns(w - 1)
            /\ pc'[w] = "exit" => queued'[w] \subseteq {<<"epoll_init", w>>}
            /\ pc'[w] \notin {"spawned", "exit"} => queued'[w] = {}
      BY <1>0, <2>5, <3>2, <3>3
    <3>6. \A q \in MayBeMaster : pc'[q] \in Forking => queued'[q] \subseteq Spawns(step')
      BY <2>1, <2>2, <2>3, <2>4, <3>2, <3>4
    <3> QED BY <1>0, <2>1, <3>4, <3>5, <3>6
  <2>6. CASE Log(p, <<"spawnProcess", step + 1>>) /\ UNCHANGED pc
    <3>1. /\ queued'[p] \subseteq queued[p] \cup {<<"spawnProcess", step + 1>>}
          /\ \A q \in Processes \ {p} : queued'[q] = queued[q]
      BY <1>0, <2>6, Logged
    <3>2. queued'[p] \subseteq Spawns(step + 1)
      BY <2>1, <2>2, <2>3, <3>1
    <3> HIDE DEF Spawns
    <3> QED BY <1>0, <2>1, <2>3, <2>4, <2>6, <3>1, <3>2
  <2> QED BY <1>0, <1>11, <2>5, <2>6, SpawnProcessEffect
<1>12. ASSUME NEW p \in MayBeMaster, MasterWaits(p)
      PROVE  Queues'
  BY <1>0, <1>12 DEF MasterWaits, Goes, processState, logState
<1>13. ASSUME NEW p \in MayBeMaster, MasterReaps(p)
      PROVE  Queues'
  BY <1>0, <1>13 DEF MasterReaps, LogAndPoll, processState
<1>14. ASSUME NEW w \in Workers, StartWorker(w)
      PROVE  Queues'
  BY <1>0, <1>14 DEF StartWorker, LogAndPoll, Goes, processState
<1>15. ASSUME NEW w \in Workers, EpollInit(w)
      PROVE  Queues'
  <2>1. /\ pc[w] = "epoll_init" /\ queued[w] = {} /\ UNCHANGED step
        /\ \A q \in Processes \ {w} : pc'[q] = pc[q]
    BY <1>0, <1>15 DEF EpollInit, Goes, processState
  <2>2. \A q \in Processes \ {w} : queued'[q] = queued[q]
    BY <1>0, <1>15, Logged DEF EpollInit
  <2>3. \/ pc'[w] = "serving" /\ queued'[w] = {}
        \/ pc'[w] = "exit" /\ queued'[w] \subseteq {<<"epoll_init", w>>}
    <3>1. w \in Processes /\ DOMAIN pc = Processes
      BY <1>0
    <3>2. \/ Goes(w, "serving") /\ UNCHANGED queued
          \/ Goes(w, "exit") /\ Log(w, <<"epoll_init", w>>)
      BY <1>15 DEF EpollInit
    <3>3. CASE Goes(w, "serving") /\ UNCHANGED queued
      BY <2>1, <3>1, <3>3 DEF Goes
    <3>4. CASE Goes(w, "exit") /\ Log(w, <<"epoll_init", w>>)
      <4>1. queued'[w] \subseteq queued[w] \cup {<<"epoll_init", w>>}
        BY <1>0, <3>1, <3>4, Logged
      <4> QED BY <2>1, <3>1, <3>4, <4>1 DEF Goes
    <3> QED BY <3>2, <3>3, <3>4
  <2> QED BY <1>0, <2>1, <2>2, <2>3
<1>16. ASSUME NEW p \in Processes, Exit(p)
      PROVE  Queues'
  BY <1>0, <1>16 DEF Exit, Goes, LogAndPoll, processState
<1> QED BY <1>1, <1>2, <1>3, <1>4, <1>5, <1>6, <1>7, <1>8, <1>9, <1>10, <1>11, <1>12, <1>13, <1>14, <1>15, <1>16 DEF Next, MayBeMaster

(* What the fields of a message are.                                       *)
LEMMA MessageFields ==
  ASSUME NEW m \in Once
  PROVE  /\ m = <<m[1], m[2]>> /\ m \in Messages
         /\ m[1] \in {"worker", "epoll_init", "exited"} => m[2] \in Workers
         /\ m[1] \in Failures \cup {"master", "sigprocmask"} => m[2] = 0
BY DEF Once, Messages, Failures

(* Every process goes on, so that no more messages become due.             *)
Onward ==
  /\ pc'[main] \in Early \cup {"open_listening_sockets"} =>
       pc[main] \in Early \cup {"open_listening_sockets"}
  /\ pc'[main] = "createDaemon" \/ pc'[daemon] \in Calls =>
       \/ pc[main] \in {"open_listening_sockets", "createDaemon"}
       \/ pc[daemon] \in Calls
  /\ \A p \in MayBeMaster : pc[p] \in Forking => pc'[p] \in Forking
  /\ \A w \in Workers :
       /\ pc'[w] \in {"none", "spawned"} => pc[w] \in {"none", "spawned"}
       /\ pc'[w] = "epoll_init" => pc[w] \in {"none", "spawned", "epoll_init"}
       /\ pc[w] = "reaped" => pc'[w] = "reaped"

(* Every step goes on.                                                     *)
LEMMA OnwardStep ==
  ASSUME IInv, Next
  PROVE  Onward
<1> USE DEF Onward, TypeOK, ConfOK, Places, Steps, Early, Forking, Calls, InMaster, Failures, main, daemon, Workers, Processes, MayBeMaster
<1>0. TypeOK /\ ConfOK /\ Places /\ Steps
  BY StartupAssumption DEF IInv
<1>1. CASE Load
  BY <1>0, <1>1 DEF Load, Goes, processState, logState
<1>2. CASE InitLog
  BY <1>0, <1>2 DEF InitLog, Goes, processState, logState
<1>3. CASE InitSignals
  BY <1>0, <1>3 DEF InitSignals, Goes, Log, processState
<1>4. CASE SocketFails
  BY <1>0, <1>4 DEF SocketFails, Goes, Log, processState
<1>5. CASE OpenListeningSocket
  BY <1>0, <1>5 DEF OpenListeningSocket, Log
<1>6. CASE SocketsOpen
  BY <1>0, <1>6 DEF SocketsOpen, LogAndPoll, Goes
<1>7. CASE CreateDaemon
  BY <1>0, <1>7, CreateDaemonEffect
<1>8. CASE DaemonFails
  BY <1>0, <1>8 DEF DaemonFails, Goes, LogAndPoll, processState
<1>9. CASE DaemonCall
  BY <1>0, <1>9, FollowingIs DEF DaemonCall, Goes, logState
<1>10. ASSUME NEW p \in MayBeMaster, StartMaster(p)
      PROVE  Onward
  BY <1>0, <1>10 DEF StartMaster, LogAndPoll, Goes, processState
<1>11. ASSUME NEW p \in MayBeMaster, SpawnProcess(p)
      PROVE  Onward
  <2>1. /\ pc'[main] = pc[main] /\ pc'[daemon] = pc[daemon]
        /\ \A w \in Workers : w # step + 1 => pc'[w] = pc[w]
        /\ pc'[step + 1] \in {pc[step + 1], "spawned"} /\ pc[step + 1] = "none"
    BY <1>0, <1>11, SpawnProcessEffect
  <2> QED BY <1>0, <2>1
<1>12. ASSUME NEW p \in MayBeMaster, MasterWaits(p)
      PROVE  Onward
  BY <1>0, <1>12 DEF MasterWaits, Goes, processState, logState
<1>13. ASSUME NEW p \in MayBeMaster, MasterReaps(p)
      PROVE  Onward
  BY <1>0, <1>13 DEF MasterReaps, LogAndPoll, processState
<1>14. ASSUME NEW w \in Workers, StartWorker(w)
      PROVE  Onward
  BY <1>0, <1>14 DEF StartWorker, LogAndPoll, Goes, processState
<1>15. ASSUME NEW w \in Workers, EpollInit(w)
      PROVE  Onward
  BY <1>0, <1>15 DEF EpollInit, Goes, Log, processState
<1>16. ASSUME NEW p \in Processes, Exit(p)
      PROVE  Onward
  BY <1>0, <1>16 DEF Exit, Goes, LogAndPoll, processState
<1> QED BY <1>1, <1>2, <1>3, <1>4, <1>5, <1>6, <1>7, <1>8, <1>9, <1>10, <1>11, <1>12, <1>13, <1>14, <1>15, <1>16 DEF Next, MayBeMaster

(* What is due has been due.                                               *)
LEMMA DueStep ==
  ASSUME Onward
  PROVE  Due' \subseteq Due
<1> SUFFICES ASSUME NEW m \in Due'
             PROVE  m \in Due
  OBVIOUS
<1>1. m \in Once /\ m \in Messages /\ (m[1] \in {"worker", "epoll_init", "exited"} => m[2] \in Workers)
  BY MessageFields DEF Due
<1> QED BY <1>1 DEF Due, Onward

(* A message that is said once waits with the process that has logged it,  *)
(* and that process ends or has yet to poll.                               *)
LEMMA WaitingWhere ==
  ASSUME TypeOK, Places, Queues, NEW q \in Processes, NEW m \in queued[q], m \in Once
  PROVE  \/ /\ q = main /\ pc[main] \in {"open_listening_sockets", "exit"} /\ pc[daemon] = "none"
            /\ m[1] \in Failures \cup {"listening"}
         \/ q \in Workers /\ pc[q] = "exit" /\ m = <<"epoll_init", q>>
<1>1. ASSUME NEW last, m \in Spawns(last)
      PROVE  FALSE
  BY <1>1 DEF Spawns, Once
<1>2. CASE q = main
  <2>1. pc[main] \in {"open_listening_sockets", "exit"} /\ pc[daemon] = "none"
    BY <1>1, <1>2 DEF Places, Queues, MayBeMaster, InMaster, Forking, Early
  <2>2. m \in {"listening"} \X (0 .. step - 1) \/ m \in ({"listening"} \X Sockets) \cup (Failures \X {0})
    BY <1>2, <2>1 DEF Queues
  <2> QED BY <1>2, <2>1, <2>2
<1>3. CASE q = daemon
  BY <1>1, <1>3 DEF Queues, MayBeMaster
<1>4. CASE q \in Workers
  BY <1>1, <1>4 DEF Queues
<1> QED BY <1>2, <1>3, <1>4 DEF Processes

(* What is logged is due or is a failed fork, which may be said often.     *)
LEMMA UnsaidLogged ==
  ASSUME TypeOK, Unsaid, Due' \subseteq Due, UNCHANGED written,
         NEW p \in Processes, NEW m, Log(p, m), m \in Due \/ m \notin Once
  PROVE  Unsaid'
<1>1. \A q \in Processes : queued'[q] \subseteq queued[q] \cup {m}
  BY Logged
<1>2. Waiting' \subseteq Due \cup Waiting
  BY <1>1 DEF Waiting
<1> QED BY <1>2, UnsaidKept

(* A fork doubles what waits, but adds nothing to it.                      *)
LEMMA UnsaidForked ==
  ASSUME TypeOK, Unsaid, Due' \subseteq Due, UNCHANGED written,
         NEW parent \in Processes, NEW child \in Processes, Fork(parent, child)
  PROVE  Unsaid'
<1>1. \A q \in Processes : queued'[q] = queued[q] \/ queued'[q] = queued[parent]
  BY Forked
<1>2. Waiting' \subseteq Due \cup Waiting
  BY <1>1 DEF Waiting
<1> QED BY <1>2, UnsaidKept

(* Nothing is said that should be said once and was said before.           *)
LEMMA UnsaidStep ==
  ASSUME IInv, Next
  PROVE  Unsaid'
<1>0. TypeOK /\ ConfOK /\ Places /\ Steps /\ Queues /\ Unsaid
  BY DEF IInv
<1>1. Due' \subseteq Due
  BY OnwardStep, DueStep
<1>2. main \in Processes /\ daemon \in Processes /\ main # daemon /\ MayBeMaster \subseteq Processes
      /\ \A w \in Workers : w \in Processes /\ w # main /\ w # daemon
  BY DEF main, daemon, Processes, Workers, MayBeMaster
<1>3. DOMAIN pc = Processes
  BY <1>0 DEF TypeOK
<1>4. CASE UNCHANGED <<queued, written>>
  <2>1. Waiting' = Waiting
    BY <1>4 DEF Waiting
  <2> QED BY <1>0, <1>1, <1>4, <2>1, UnsaidKept
<1>5. CASE InitSignals
  <2>1. <<"sigaction", 0>> \in Due
    BY <1>5, MessageKinds DEF InitSignals, Due, Early, Failures
  <2> QED BY <1>0, <1>1, <1>2, <1>4, <1>5, <2>1, UnsaidLogged DEF InitSignals
<1>6. CASE SocketFails
  <2>1. PICK f \in Failures : Log(main, <<f, 0>>)
    BY <1>6 DEF SocketFails, Failures
  <2>2. <<f, 0>> \in Due
    BY <1>6, MessageKinds DEF SocketFails, Due
  <2> QED BY <1>0, <1>1, <1>2, <1>6, <2>1, <2>2, UnsaidLogged DEF SocketFails
<1>7. CASE OpenListeningSocket
  <2>1. <<"listening", step>> \in Due
    <3>1. step \in Sockets
      BY <1>0, <1>7, StartupAssumption DEF TypeOK, ConfOK, Sockets, OpenListeningSocket
    <3> QED BY <1>7, <3>1, MessageKinds DEF OpenListeningSocket, Due
  <2> QED BY <1>0, <1>1, <1>2, <1>7, <2>1, UnsaidLogged DEF OpenListeningSocket
<1>8. CASE SocketsOpen
  <2>1. /\ pc[main] = "open_listening_sockets" /\ pc[daemon] = "none"
        /\ pc'[main] \in {"createDaemon", "masterProcessCycle"} /\ pc'[daemon] = "none"
        /\ LogAndPoll(main, {}) /\ UNCHANGED <<conf>>
    BY <1>0, <1>2, <1>3, <1>8 DEF SocketsOpen, Goes, Places
  <2>2. queued[main] \subseteq {"listening"} \X (0 .. step - 1)
    BY <1>0, <2>1 DEF Queues
  <2>3. queued[main] \cap Due' = {}
    BY <2>1, <2>2 DEF Due, Early, Failures, Calls
  <2>4. \A q \in Processes \ {main} : queued[q] \cap queued[main] \cap Once = {}
    BY <1>0, <2>2, WaitingWhere
  <2> QED BY <1>0, <1>1, <1>2, <2>1, <2>3, <2>4, UnsaidPolled
<1>9. CASE CreateDaemon
  <2>1. /\ pc[main] = "createDaemon" /\ pc'[main] = "exit" /\ pc[daemon] = "none"
        /\ queued[main] = {}
    BY <1>0, <1>9, CreateDaemonEffect DEF Places, Queues
  <2>2. CASE Fork(main, daemon) /\ UNCHANGED written
    BY <1>0, <1>1, <1>2, <2>2, UnsaidForked
  <2>3. CASE LogAndPoll(main, {<<"fork", 0>>}) /\ pc'[daemon] = pc[daemon]
    <3>1. <<"fork", 0>> \in Due
      BY <2>1, MessageKinds DEF Due, Failures
    <3>2. <<"fork", 0>> \notin Due'
      BY <2>1, <2>3 DEF Due, Failures, Early, Calls
    <3>3. \A q \in Processes \ {main} : <<"fork", 0>> \notin queued[q]
      BY <1>0, <3>1, WaitingWhere DEF Due
    <3> QED BY <1>0, <1>1, <1>2, <2>1, <2>3, <3>1, <3>2, <3>3, UnsaidPolled
  <2> QED BY <1>0, <1>9, <2>2, <2>3, CreateDaemonEffect
<1>10. CASE DaemonFails
  <2> DEFINE f == pc[daemon]
  <2>1. /\ f \in Failures /\ f \in Calls /\ LogAndPoll(daemon, {<<f, 0>>})
        /\ pc'[daemon] = "exit" /\ pc'[main] = pc[main] /\ pc[main] \in {"exit", "exited"}
        /\ queued[main] = {} /\ queued[daemon] = {}
    BY <1>0, <1>2, <1>3, <1>10 DEF DaemonFails, Goes, Places, Queues, Failures, Calls, InMaster, Forking
  <2> HIDE DEF f
  <2>2. <<f, 0>> \in Due
    BY <2>1, MessageKinds DEF Due, f
  <2>3. <<f, 0>> \notin Due'
    BY <2>1 DEF Due, Failures, Early, Calls
  <2>4. \A q \in Processes \ {daemon} : <<f, 0>> \notin queued[q]
    BY <1>0, <2>1, <2>2, WaitingWhere DEF Due, Failures
  <2> QED BY <1>0, <1>1, <1>2, <2>1, <2>2, <2>3, <2>4, UnsaidPolled
<1>11. ASSUME NEW p \in MayBeMaster, StartMaster(p)
       PROVE  Unsaid'
  <2>1. PICK ms \in {{<<"master", 0>>}, {<<"master", 0>>, <<"sigprocmask", 0>>}} :
          LogAndPoll(p, ms)
    BY <1>11 DEF StartMaster
  <2>2. /\ pc[p] = "masterProcessCycle" /\ pc'[p] = "startWorkProcess" /\ queued[p] = {}
        /\ \A q \in MayBeMaster : pc[q] \notin Forking
    BY <1>0, <1>2, <1>3, <1>11
       DEF StartMaster, Goes, Places, Queues, MayBeMaster, InMaster, Forking, Calls
  <2>3. ms \subseteq Due
    BY <2>1, <2>2, MessageKinds DEF Due
  <2>4. ms \cap Due' = {}
    <3>1. pc'[main] \notin Early \cup {"open_listening_sockets"}
      BY <1>0, <1>2, <1>3, <1>11
         DEF StartMaster, Goes, Places, MayBeMaster, InMaster, Early
    <3> QED BY <1>11, <2>1, <2>2, <3>1 DEF Due, Forking, Failures
  <2>5. \A q \in Processes : queued[q] \cap ms \cap Once = {}
    BY <1>0, <2>1, WaitingWhere DEF Failures
  <2> QED BY <1>0, <1>1, <1>2, <2>1, <2>2, <2>3, <2>4, <2>5, UnsaidPolled
<1>12. ASSUME NEW p \in MayBeMaster, SpawnProcess(p)
       PROVE  Unsaid'
  <2>1. step + 1 \in Workers /\ UNCHANGED written
        /\ (Fork(p, step + 1) \/ Log(p, <<"spawnProcess", step + 1>>))
    BY <1>0, <1>12, SpawnProcessEffect
  <2>2. <<"spawnProcess", step + 1>> \notin Once
    BY <2>1, MessageKinds
  <2> QED BY <1>0, <1>1, <1>2, <2>1, <2>2, UnsaidForked, UnsaidLogged
<1>13. ASSUME NEW p \in MayBeMaster, MasterReaps(p)
       PROVE  Unsaid'
  <2> DEFINE ended == {w \in Workers : pc[w] = "exited"}
             ms == {"exited"} \X ended
  <2>1. /\ pc[p] = "sigsuspend" /\ LogAndPoll(p, ms)
        /\ \A w \in Workers : w \in ended => pc'[w] = "reaped"
    BY <1>2, <1>13 DEF MasterReaps
  <2>2. queued[p] \cap Once = {}
    BY <1>0, <1>2, <2>1, WaitingWhere DEF MayBeMaster
  <2>3. ms \subseteq Due
    <3>1. ASSUME NEW w \in ended
          PROVE  <<"exited", w>> \in Due
      BY MessageKinds DEF Due
    <3> QED BY <3>1
  <2>4. (queued[p] \cup ms) \cap Due' = {}
    <3>1. pc[main] \notin Early \cup {"open_listening_sockets"}
      BY <1>0, <2>1 DEF Places, MayBeMaster, InMaster, Early
    <3>2. pc'[main] = pc[main]
      BY <1>2, <1>3, <1>13 DEF MasterReaps
    <3>3. ASSUME NEW w \in ended
          PROVE  <<"exited", w>> \notin Due'
      BY <2>1, <3>1, <3>2 DEF Due, Failures
    <3> QED BY <2>2, <3>3 DEF Due
  <2>5. \A q \in Processes : queued[q] \cap ms \cap Once = {}
    BY <1>0, WaitingWhere DEF Failures
  <2> HIDE DEF ms
  <2>6. \A q \in Processes \ {p} : queued[q] \cap (queued[p] \cup ms) \cap Once = {}
    BY <2>2, <2>5
  <2> QED BY <1>0, <1>1, <1>2, <2>1, <2>3, <2>4, <2>6, UnsaidPolled
<1>14. ASSUME NEW w \in Workers, StartWorker(w)
       PROVE  Unsaid'
  <2> DEFINE m == <<"worker", w>>
  <2>1. pc[w] = "spawned" /\ pc'[w] = "epoll_init" /\ LogAndPoll(w, {m}) /\ pc'[main] = pc[main]
    BY <1>2, <1>3, <1>14 DEF StartWorker, Goes
  <2>2. queued[w] \cap Once = {}
    BY <1>0, <1>2, <2>1, WaitingWhere
  <2>3. m \in Due
    BY <2>1, MessageKinds DEF Due
  <2>4. m \notin Due'
    <3>1. pc[main] \notin Early \cup {"open_listening_sockets"}
      BY <1>0, <2>1 DEF Places, MayBeMaster, Forking, InMaster, Early
    <3> QED BY <2>1, <3>1 DEF Due, Failures
  <2>5. \A q \in Processes : m \notin queued[q]
    BY <1>0, <2>3, WaitingWhere DEF Failures, Due
  <2>6. Due' \subseteq Due \ (queued[w] \cup {m})
    BY <1>1, <2>2, <2>4 DEF Due
  <2>7. \A q \in Processes \ {w} : queued[q] \cap (queued[w] \cup {m}) \cap Once = {}
    BY <2>2, <2>5
  <2> HIDE DEF m
  <2> QED BY <1>0, <1>2, <2>1, <2>3, <2>6, <2>7, UnsaidPolled
<1>15. ASSUME NEW w \in Workers, EpollInit(w)
       PROVE  Unsaid'
  <2>1. <<"epoll_init", w>> \in Due
    BY <1>15, MessageKinds DEF EpollInit, Due
  <2> QED BY <1>0, <1>1, <1>2, <1>4, <1>15, <2>1, UnsaidLogged DEF EpollInit
<1>16. ASSUME NEW p \in Processes, Exit(p)
       PROVE  Unsaid'
  <2>1. /\ pc[p] = "exit" /\ pc'[p] = "exited" /\ LogAndPoll(p, {})
        /\ \A q \in Processes \ {p} : pc'[q] = pc[q]
    BY <1>3, <1>16 DEF Exit, Goes
  <2>2. ASSUME NEW m \in queued[p] \cap Once
        PROVE  m \notin Due' /\ \A q \in Processes \ {p} : m \notin queued[q]
    <3>1. CASE p = main
      <4>1. pc[daemon] = "none" /\ m[1] \in Failures \cup {"listening"}
        BY <1>0, <1>2, <2>2, <3>1, WaitingWhere
      <4>2. pc'[main] = "exited" /\ pc'[daemon] = "none"
        BY <1>2, <2>1, <3>1, <4>1
      <4>3. m \notin Due'
        BY <4>1, <4>2 DEF Due, Early, Calls, Failures
      <4>4. ASSUME NEW q \in Processes \ {p}, m \in queued[q]
            PROVE  FALSE
        BY <1>0, <2>2, <3>1, <4>1, <4>4, WaitingWhere DEF Failures
      <4> QED BY <4>3, <4>4
    <3>2. CASE p # main
      <4>1. p \in Workers /\ m = <<"epoll_init", p>>
        BY <1>0, <2>2, <3>2, WaitingWhere
      <4>2. pc[main] \notin Early \cup {"open_listening_sockets"} /\ pc'[main] = pc[main]
        BY <1>0, <1>2, <2>1, <4>1 DEF Places, MayBeMaster, Forking, InMaster, Early
      <4>3. m \notin Due'
        <5>1. m[1] = "epoll_init" /\ m[2] = p
          <6>1. <<"epoll_init", p>>[1] = "epoll_init" /\ <<"epoll_init", p>>[2] = p
            OBVIOUS
          <6> QED BY <4>1, <6>1, Zenon
        <5>2. pc'[p] = "exited"
          BY <2>1
        <5> QED BY <4>2, <5>1, <5>2 DEF Due, Failures
      <4>4. ASSUME NEW q \in Processes \ {p}, m \in queued[q]
            PROVE  FALSE
        BY <1>0, <2>2, <4>1, <4>4, WaitingWhere DEF Failures
      <4> QED BY <4>3, <4>4
    <3> QED BY <3>1, <3>2
  <2>3. Due' \subseteq Due \ queued[p]
    BY <1>1, <2>2 DEF Due
  <2>4. \A q \in Processes \ {p} : queued[q] \cap queued[p] \cap Once = {}
    BY <2>2
  <2> QED BY <1>0, <2>1, <2>3, <2>4, UnsaidPolled
<1>17. CASE Load \/ InitLog \/ DaemonCall \/ \E p \in MayBeMaster : MasterWaits(p)
  BY <1>4, <1>17 DEF Load, InitLog, DaemonCall, MasterWaits, logState
<1> QED BY <1>5, <1>6, <1>7, <1>8, <1>9, <1>10, <1>11, <1>12, <1>13, <1>14, <1>15, <1>16, <1>17
        DEF Next, MayBeMaster

(* A master that waits goes on waiting, and logs nothing without a poll.   *)
MastersWait ==
  \A p \in MayBeMaster :
    pc[p] = "sigsuspend" => pc'[p] = "sigsuspend" /\ queued'[p] \subseteq queued[p]

(* Every step lets a master wait.                                          *)
LEMMA MastersWaitStep ==
  ASSUME IInv, Next
  PROVE  MastersWait
<1> USE DEF MastersWait
<1>0. TypeOK /\ ConfOK /\ Places /\ Steps /\ Queues
  BY DEF IInv
<1>1. MayBeMaster = {main, daemon} /\ main \in Processes /\ daemon \in Processes /\ main # daemon
      /\ \A w \in Workers : w \in Processes /\ w # main /\ w # daemon
  BY DEF main, daemon, Processes, Workers, MayBeMaster
<1>2. /\ pc[main] = "sigsuspend" => pc[daemon] = "none"
      /\ pc[daemon] = "sigsuspend" => pc[main] \in {"exit", "exited"}
  BY <1>0 DEF Places
<1>3. DOMAIN pc = Processes /\ DOMAIN queued = Processes
  BY <1>0 DEF TypeOK
<1>4. CASE Load \/ InitLog \/ InitSignals \/ SocketFails \/ OpenListeningSocket \/ SocketsOpen
  <2>1. /\ pc[main] \in {"load", "initLog", "initSignals", "open_listening_sockets"}
        /\ pc'[daemon] = pc[daemon] /\ queued'[daemon] = queued[daemon]
    BY <1>1, <1>3, <1>4 DEF Load, InitLog, InitSignals, SocketFails, OpenListeningSocket, SocketsOpen,
                            Goes, Log, LogAndPoll, logState
  <2> QED BY <1>1, <2>1
<1>5. CASE CreateDaemon
  BY <1>0, <1>1, <1>2, <1>5, CreateDaemonEffect DEF Places
<1>6. CASE DaemonFails \/ DaemonCall
  <2>1. pc[main] \in {"exit", "exited"} /\ pc[daemon] # "sigsuspend"
    BY <1>0, <1>6 DEF DaemonFails, DaemonCall, Places, Failures
  <2> QED BY <1>1, <2>1
<1>7. ASSUME NEW p \in MayBeMaster,
             StartMaster(p) \/ SpawnProcess(p) \/ MasterWaits(p) \/ MasterReaps(p)
      PROVE  MastersWait
  <2>1. \A q \in MayBeMaster \ {p} : pc[q] # "sigsuspend"
    BY <1>0, <1>1, <1>7 DEF StartMaster, SpawnProcess, MasterWaits, MasterReaps, Places, InMaster
  <2>2. pc[p] = "sigsuspend" => pc'[p] = "sigsuspend" /\ queued'[p] = {}
    BY <1>1, <1>3, <1>7 DEF StartMaster, SpawnProcess, MasterWaits, MasterReaps, LogAndPoll, Workers
  <2> QED BY <2>1, <2>2
<1>8. ASSUME NEW w \in Workers, StartWorker(w) \/ EpollInit(w)
      PROVE  MastersWait
  <2>1. \A q \in MayBeMaster : pc'[q] = pc[q] /\ queued'[q] = queued[q]
    BY <1>1, <1>3, <1>8 DEF StartWorker, EpollInit, Goes, Log, LogAndPoll
  <2> QED BY <2>1
<1>9. ASSUME NEW p \in Processes, Exit(p)
      PROVE  MastersWait
  <2>1. \A q \in Processes \ {p} : pc'[q] = pc[q] /\ queued'[q] = queued[q]
    BY <1>3, <1>9 DEF Exit, Goes, LogAndPoll
  <2>2. pc[p] = "exit"
    BY <1>9 DEF Exit
  <2> QED BY <1>1, <2>1, <2>2
<1> QED BY <1>4, <1>5, <1>6, <1>7, <1>8, <1>9 DEF Next, MayBeMaster

(* There are finitely many workers after a given one.                      *)
LEMMA WorkersAfter ==
  ASSUME ConfOK, NEW w \in Workers, NEW T \in SUBSET (w + 1 .. conf.WorkerProcesses)
  PROVE  /\ IsFiniteSet(T) /\ Cardinality(T) \in Nat
         /\ Cardinality(T) <= IF w < conf.WorkerProcesses THEN conf.WorkerProcesses - w ELSE 0
<1>1. w \in Nat /\ conf.WorkerProcesses \in Nat
  BY StartupAssumption DEF Workers, ConfOK
<1>2. /\ IsFiniteSet(w + 1 .. conf.WorkerProcesses)
      /\ Cardinality(w + 1 .. conf.WorkerProcesses)
           = IF w + 1 > conf.WorkerProcesses THEN 0 ELSE conf.WorkerProcesses - (w + 1) + 1
  <2>1. \A a, b \in Int : /\ IsFiniteSet(a .. b)
                          /\ Cardinality(a .. b) = IF a > b THEN 0 ELSE b - a + 1
    BY FS_Interval
  <2>2. w + 1 \in Int /\ conf.WorkerProcesses \in Int
    BY <1>1
  <2> QED BY <2>1, <2>2, Zenon
<1>3. IsFiniteSet(T) /\ Cardinality(T) <= Cardinality(w + 1 .. conf.WorkerProcesses)
  BY <1>2, FS_Subset
<1>4. Cardinality(T) \in Nat
  BY <1>3, FS_CardinalityType
<1> DEFINE c == Cardinality(T)
           n == conf.WorkerProcesses
<1>5. c <= IF w < n THEN n - w ELSE 0
  <2>1. c <= IF w + 1 > n THEN 0 ELSE n - (w + 1) + 1
    BY <1>2, <1>3
  <2>2. c \in Nat /\ n \in Nat
    BY <1>1, <1>4
  <2> HIDE DEF c, n
  <2> QED BY <1>1, <2>1, <2>2
<1> QED BY <1>3, <1>4, <1>5

(* As the workers go on, the limit on how often a failure is written does  *)
(* not sink.                                                               *)
LEMMA LimitGrows ==
  ASSUME ConfOK, UNCHANGED conf, Onward, NEW w \in Workers
  PROVE  /\ Started(w) \subseteq Started(w)' /\ Cardinality(Started(w)) <= Cardinality(Started(w)')
         /\ Cardinality(Started(w)) \in Nat /\ Cardinality(Started(w)') \in Nat
<1>1. Started(w) \subseteq w + 1 .. conf.WorkerProcesses /\ Started(w)' \subseteq w + 1 .. conf.WorkerProcesses
  BY DEF Started
<1>2. \A v \in w + 1 .. conf.WorkerProcesses : v \in Workers
  BY StartupAssumption DEF ConfOK, Workers
<1>3. Started(w) \subseteq Started(w)'
  BY <1>2 DEF Started, Onward
<1>4. IsFiniteSet(Started(w)')
  BY <1>1, WorkersAfter
<1>5. Cardinality(Started(w)) <= Cardinality(Started(w)')
  BY <1>3, <1>4, FS_Subset
<1> QED BY <1>1, <1>3, <1>5, WorkersAfter

(* A step that writes no failure of a fork keeps within the limits.        *)
LEMMA CopiesKept ==
  ASSUME TypeOK, ConfOK, Copies, UNCHANGED conf, Onward, MastersWait,
         NEW w \in Workers, written'[<<"spawnProcess", w>>] = written[<<"spawnProcess", w>>]
  PROVE  written'[<<"spawnProcess", w>>] <= Cardinality(Started(w)') + (IF MasterHasSaid(w)' THEN 1 ELSE 0)
<1> DEFINE m == <<"spawnProcess", w>>
           had == IF MasterHasSaid(w) THEN 1 ELSE 0
           has == IF MasterHasSaid(w)' THEN 1 ELSE 0
<1>1. MasterHasSaid(w) => MasterHasSaid(w)'
  BY DEF MasterHasSaid, MastersWait
<1>2. had \in Nat /\ has \in Nat /\ had <= has
  BY <1>1
<1>3. written[m] <= Cardinality(Started(w)) + had
  BY DEF Copies
<1>4. written[m] \in Nat
  BY MessageKinds DEF TypeOK
<1>5. /\ Cardinality(Started(w)) <= Cardinality(Started(w)')
      /\ Cardinality(Started(w)) \in Nat /\ Cardinality(Started(w)') \in Nat
  BY LimitGrows
<1> HIDE DEF had, has, Started, m
<1>6. written[m] <= Cardinality(Started(w)') + has
  BY <1>2, <1>3, <1>4, <1>5
<1> QED BY <1>6 DEF has, m

(* A poll by one who has logged no failure of a fork writes none.          *)
LEMMA PolledNoSpawn ==
  ASSUME TypeOK, NEW p \in Processes, NEW ms, LogAndPoll(p, ms), NEW w \in Workers,
         <<"spawnProcess", w>> \notin queued[p], <<"spawnProcess", w>> \notin ms
  PROVE  written'[<<"spawnProcess", w>>] = written[<<"spawnProcess", w>>]
<1>1. <<"spawnProcess", w>> \in Messages
  BY MessageKinds
<1>2. \A m \in Messages :
        written'[m] = IF m \in queued[p] \cup Passed(ms) THEN written[m] + 1 ELSE written[m]
  BY Polled
<1> QED BY <1>1, <1>2, PassedIs

(* The failure of a fork is written as often as the workers forked later,  *)
(* and the master, come to poll.                                           *)
LEMMA CopiesStep ==
  ASSUME IInv, Next
  PROVE  Copies'
<1>0. TypeOK /\ ConfOK /\ Places /\ Steps /\ Queues /\ Copies /\ Onward /\ MastersWait
  BY OnwardStep, MastersWaitStep DEF IInv
<1>1. MayBeMaster = {main, daemon} /\ main \in Processes /\ daemon \in Processes /\ main # daemon
      /\ \A w \in Workers : w \in Processes /\ w # main /\ w # daemon
  BY DEF main, daemon, Processes, Workers, MayBeMaster
<1>2. UNCHANGED conf
  BY ConfKept
<1> DEFINE Limit(w) == Cardinality(Started(w)') + (IF MasterHasSaid(w)' THEN 1 ELSE 0)
<1> SUFFICES ASSUME NEW w \in Workers
             PROVE  written'[<<"spawnProcess", w>>] <= Limit(w)
  BY DEF Copies
<1> DEFINE m == <<"spawnProcess", w>>
<1>3. CASE written'[m] = written[m]
  BY <1>0, <1>2, <1>3, CopiesKept
<1>4. \A f, x : m # <<f, x>> \/ f = "spawnProcess"
  OBVIOUS
<1>5. CASE Load \/ InitLog \/ InitSignals \/ SocketFails \/ OpenListeningSocket \/ DaemonCall
           \/ \E p \in MayBeMaster : SpawnProcess(p) \/ MasterWaits(p)
  <2>1. UNCHANGED written
    BY <1>5 DEF Load, InitLog, InitSignals, SocketFails, OpenListeningSocket, DaemonCall,
                SpawnProcess, MasterWaits, logState
  <2> QED BY <1>3, <2>1
<1>6. CASE SocketsOpen
  <2>1. LogAndPoll(main, {}) /\ m \notin queued[main]
    BY <1>0, <1>6 DEF SocketsOpen, Queues
  <2> QED BY <1>0, <1>1, <1>3, <2>1, PolledNoSpawn
<1>7. CASE CreateDaemon
  <2>1. CASE UNCHANGED written
    BY <1>3, <2>1
  <2>2. CASE LogAndPoll(main, {<<"fork", 0>>})
    <3>1. m \notin queued[main]
      BY <1>0, <1>7, CreateDaemonEffect DEF Queues
    <3>2. m \notin {<<"fork", 0>>}
      OBVIOUS
    <3> QED BY <1>0, <1>1, <1>3, <2>2, <3>1, <3>2, PolledNoSpawn
  <2> QED BY <1>0, <1>7, <2>1, <2>2, CreateDaemonEffect
<1>8. CASE DaemonFails
  <2>1. LogAndPoll(daemon, {<<pc[daemon], 0>>}) /\ m \notin queued[daemon]
    BY <1>0, <1>8 DEF DaemonFails, Queues, Forking, Failures
  <2>2. m \notin {<<pc[daemon], 0>>}
    BY <1>8 DEF DaemonFails, Failures
  <2> QED BY <1>0, <1>1, <1>3, <2>1, <2>2, PolledNoSpawn
<1>9. ASSUME NEW p \in MayBeMaster, StartMaster(p)
      PROVE  written'[m] <= Limit(w)
  <2>1. PICK ms \in {{}, {<<"sigprocmask", 0>>}} : LogAndPoll(p, ms \cup {<<"master", 0>>})
    BY <1>9 DEF StartMaster
  <2>2. m \notin ms \cup {<<"master", 0>>}
    OBVIOUS
  <2>3. m \notin queued[p]
    BY <1>0, <1>1, <1>9 DEF StartMaster, Queues, Forking
  <2> QED BY <1>0, <1>1, <1>3, <2>1, <2>2, <2>3, PolledNoSpawn
<1>10. ASSUME NEW p \in MayBeMaster, MasterReaps(p)
      PROVE  written'[m] <= Limit(w)
  <2> DEFINE ms == {"exited"} \X {v \in Workers : pc[v] = "exited"}
  <2>1. /\ pc[p] = "sigsuspend" /\ pc'[p] = "sigsuspend" /\ LogAndPoll(p, ms) /\ p \in Processes
    BY <1>0, <1>1, <1>10 DEF MasterReaps, MastersWait
  <2>2. m \notin ms
    OBVIOUS
  <2> HIDE DEF ms
  <2>3. CASE m \notin queued[p]
    BY <1>0, <1>3, <2>1, <2>2, <2>3, PolledNoSpawn
  <2>4. CASE m \in queued[p]
    <3>1. written'[m] = written[m] + 1 /\ written[m] \in Nat
      BY <1>0, <2>1, <2>4, MessageKinds, Polled DEF TypeOK
    <3>2. ~ MasterHasSaid(w)
      BY <1>0, <1>1, <2>1, <2>4 DEF MasterHasSaid, Places, InMaster
    <3>3. MasterHasSaid(w)'
      BY <1>0, <2>1, Polled DEF MasterHasSaid
    <3>4. written[m] <= Cardinality(Started(w)) + 0
      BY <1>0, <3>2 DEF Copies
    <3>5. /\ Cardinality(Started(w)) <= Cardinality(Started(w)')
          /\ Cardinality(Started(w)) \in Nat /\ Cardinality(Started(w)') \in Nat
      BY <1>0, <1>2, LimitGrows
    <3> HIDE DEF Started
    <3> QED BY <3>1, <3>3, <3>4, <3>5
  <2> QED BY <2>3, <2>4
<1>11. ASSUME NEW v \in Workers, StartWorker(v)
      PROVE  written'[m] <= Limit(w)
  <2>1. pc[v] = "spawned" /\ pc'[v] = "epoll_init" /\ LogAndPoll(v, {<<"worker", v>>})
    BY <1>0, <1>1, <1>11 DEF StartWorker, Goes, TypeOK
  <2>2. m \notin {<<"worker", v>>}
    OBVIOUS
  <2>3. CASE m \notin queued[v]
    BY <1>0, <1>1, <1>3, <2>1, <2>2, <2>3, PolledNoSpawn
  <2>4. CASE m \in queued[v]
    <3>1. written'[m] = written[m] + 1 /\ written[m] \in Nat
      BY <1>0, <1>1, <2>1, <2>4, MessageKinds, Polled DEF TypeOK
    <3>2. w \in 1 .. v - 1
      <4>1. m \in Spawns(v - 1)
        BY <1>0, <2>1, <2>4 DEF Queues
      <4> QED BY <4>1 DEF Spawns
    <3>3. v \in w + 1 .. conf.WorkerProcesses
      <4>1. v <= step /\ step <= conf.WorkerProcesses
        BY <1>0, <2>1 DEF Places, Steps
      <4>2. v \in Nat /\ step \in Nat /\ conf.WorkerProcesses \in Nat /\ w \in Nat
        BY <1>0, StartupAssumption DEF TypeOK, ConfOK, Workers
      <4> QED BY <3>2, <4>1, <4>2
    <3>4. v \notin Started(w) /\ v \in Started(w)'
      BY <1>2, <2>1, <3>3 DEF Started
    <3>5. Cardinality(Started(w)) < Cardinality(Started(w)')
      <4>1. Started(w) \subseteq Started(w)' /\ Cardinality(Started(w)) <= Cardinality(Started(w)')
            /\ Cardinality(Started(w)) \in Nat /\ Cardinality(Started(w)') \in Nat
        BY <1>0, <1>2, LimitGrows
      <4>2. IsFiniteSet(Started(w)')
        BY <1>0, <1>2, WorkersAfter DEF Started
      <4>3. Cardinality(Started(w)) # Cardinality(Started(w)')
        BY <3>4, <4>1, <4>2, FS_Subset
      <4> HIDE DEF Started
      <4> QED BY <4>1, <4>3
    <3>6. MasterHasSaid(w) => MasterHasSaid(w)'
      BY <1>0 DEF MasterHasSaid, MastersWait
    <3>7. written[m] <= Cardinality(Started(w)) + (IF MasterHasSaid(w) THEN 1 ELSE 0)
      BY <1>0 DEF Copies
    <3>8. Cardinality(Started(w)) \in Nat /\ Cardinality(Started(w)') \in Nat
      BY <1>0, <1>2, LimitGrows
    <3> HIDE DEF Started, MasterHasSaid
    <3> QED BY <3>1, <3>5, <3>6, <3>7, <3>8
  <2> QED BY <2>3, <2>4
<1>12. ASSUME NEW v \in Workers, EpollInit(v)
      PROVE  written'[m] <= Limit(w)
  BY <1>3, <1>12 DEF EpollInit
<1>13. ASSUME NEW p \in Processes, Exit(p)
      PROVE  written'[m] <= Limit(w)
  <2>1. pc[p] = "exit" /\ LogAndPoll(p, {})
    BY <1>13 DEF Exit
  <2>2. m \notin queued[p]
    <3>1. CASE p = main
      BY <1>0, <2>1, <3>1 DEF Queues, Failures
    <3>2. CASE p = daemon
      BY <1>0, <2>1, <3>2 DEF Queues, Forking
    <3>3. CASE p \in Workers
      BY <1>0, <2>1, <3>3 DEF Queues
    <3> QED BY <3>1, <3>2, <3>3 DEF Processes
  <2> QED BY <1>0, <1>3, <2>1, <2>2, PolledNoSpawn
<1> QED BY <1>5, <1>6, <1>7, <1>8, <1>9, <1>10, <1>11, <1>12, <1>13 DEF Next, MayBeMaster

(* What is in the log stays there.                                         *)
LEMMA WrittenStays ==
  ASSUME IInv, Next, Unsaid', NEW f \in Failures, written[<<f, 0>>] = 1
  PROVE  written'[<<f, 0>>] = 1
<1> DEFINE m == <<f, 0>>
<1>0. TypeOK /\ m \in Once /\ m \in Messages /\ MayBeMaster \subseteq Processes /\ Workers \subseteq Processes
      /\ main \in Processes /\ daemon \in Processes
  BY MessageKinds DEF IInv, MayBeMaster, Processes, Once
<1>1. CASE UNCHANGED written
  BY <1>1
<1>2. ASSUME NEW p \in Processes, NEW ms, LogAndPoll(p, ms)
      PROVE  written'[m] = 1
  <2>1. written'[m] = 1 \/ written'[m] = 2
    BY <1>0, <1>2, Polled
  <2>2. Once' = Once
    BY DEF Once
  <2>3. written'[m] <= 1
    BY <1>0, <2>2 DEF Unsaid
  <2> QED BY <2>1, <2>3
<1>3. CASE \/ Load \/ InitLog \/ InitSignals \/ SocketFails \/ OpenListeningSocket \/ DaemonCall
           \/ \E p \in MayBeMaster : SpawnProcess(p) \/ MasterWaits(p)
           \/ \E w \in Workers : EpollInit(w)
  BY <1>1, <1>3 DEF Load, InitLog, InitSignals, SocketFails, OpenListeningSocket, DaemonCall,
                    SpawnProcess, MasterWaits, EpollInit, logState
<1>4. CASE \/ SocketsOpen \/ CreateDaemon \/ DaemonFails
           \/ \E p \in MayBeMaster : StartMaster(p) \/ MasterReaps(p)
           \/ \E w \in Workers : StartWorker(w)
           \/ \E p \in Processes : Exit(p)
  BY <1>0, <1>1, <1>2, <1>4 DEF SocketsOpen, CreateDaemon, DaemonFails, StartMaster, MasterReaps,
                                StartWorker, Exit
<1> QED BY <1>3, <1>4 DEF Next, MayBeMaster

(* A failure that is due or waits is in the log after the poll.            *)
LEMMA Told ==
  ASSUME TypeOK, Unsaid, NEW p \in Processes, NEW ms, LogAndPoll(p, ms),
         NEW f \in Failures, <<f, 0>> \in queued[p] \cup Passed(ms),
         <<f, 0>> \in Due \cup Waiting
  PROVE  written'[<<f, 0>>] = 1
<1>1. <<f, 0>> \in Once /\ <<f, 0>> \in Messages
  BY MessageKinds DEF Once
<1>2. written[<<f, 0>>] = 0
  BY <1>1 DEF Unsaid
<1> QED BY <1>1, <1>2, Polled

(* A step by which neither main nor the daemon gives up.                   *)
LEMMA ReasonKept ==
  ASSUME Reason, conf.LogLevel # OFF,
         \A f \in Failures : written[<<f, 0>>] = 1 => written'[<<f, 0>>] = 1,
         pc[daemon] # "none" => pc'[daemon] # "none",
         pc'[main] \in {"exit", "exited"} => pc'[main] = pc[main] /\ queued'[main] = queued[main],
         pc'[daemon] \in {"exit", "exited"} => pc[daemon] \in {"exit", "exited"}
  PROVE  Reason'
<1>1. (pc'[main] \in {"exit", "exited"})
        => \/ pc'[daemon] # "none"
           \/ \E f \in Failures : written'[<<f, 0>>] = 1
           \/ pc'[main] = "exit" /\ \E f \in Failures : <<f, 0>> \in queued'[main]
  BY DEF Reason
<1>2. pc'[daemon] \in {"exit", "exited"} => \E f \in Failures : written'[<<f, 0>>] = 1
  BY DEF Reason
<1> QED BY <1>1, <1>2 DEF Reason

(* Who gives up has a reason, which is in the log by the time it has ended. *)
LEMMA ReasonStep ==
  ASSUME IInv, Next
  PROVE  Reason'
<1> SUFFICES ASSUME conf'.LogLevel # OFF PROVE Reason'
  BY DEF Reason
<1>0. /\ TypeOK /\ LevelOK /\ Places /\ Queues /\ Unsaid /\ Reason
      /\ conf.LogLevel # OFF
  BY ConfKept DEF IInv
<1>1. \A f \in Failures : written[<<f, 0>>] = 1 => written'[<<f, 0>>] = 1
  BY UnsaidStep, WrittenStays
<1>2. main \in Processes /\ daemon \in Processes /\ main # daemon /\ MayBeMaster = {main, daemon}
      /\ \A w \in Workers : w \in Processes /\ w # main /\ w # daemon
  BY DEF main, daemon, Processes, Workers, MayBeMaster
<1>3. DOMAIN pc = Processes /\ DOMAIN queued = Processes
  BY <1>0 DEF TypeOK
<1>4. CASE Load \/ InitLog
  <2>1. pc'[main] \in {"initLog", "notLoaded", "initSignals", "aborted"} /\ pc'[daemon] = pc[daemon]
    BY <1>2, <1>3, <1>4 DEF Load, InitLog, Goes
  <2> QED BY <1>0, <1>1, <2>1, ReasonKept
<1>5. CASE InitSignals \/ SocketFails
  <2>1. /\ pc'[daemon] = pc[daemon] /\ pc[daemon] = "none" /\ pc'[main] # "exited"
        /\ pc'[main] = "exit" => \E f \in Failures : Log(main, <<f, 0>>)
    BY <1>0, <1>2, <1>3, <1>5 DEF InitSignals, SocketFails, Goes, Places, Failures
  <2>2. pc'[main] = "exit" => \E f \in Failures : <<f, 0>> \in queued'[main]
    <3> SUFFICES ASSUME NEW f \in Failures, Log(main, <<f, 0>>)
                 PROVE  <<f, 0>> \in queued'[main]
      BY <2>1
    <3>1. <<f, 0>> \in Passed({<<f, 0>>})
      BY <1>0, FailurePasses
    <3> QED BY <1>0, <1>2, <3>1, Logged
  <2> QED BY <2>1, <2>2 DEF Reason
<1>6. CASE OpenListeningSocket \/ SocketsOpen
  <2>1. /\ pc'[main] \in {"open_listening_sockets", "createDaemon", "masterProcessCycle"}
        /\ pc'[daemon] = pc[daemon]
    BY <1>2, <1>3, <1>6 DEF OpenListeningSocket, SocketsOpen, Goes
  <2> QED BY <1>0, <1>1, <2>1, ReasonKept
<1>7. CASE CreateDaemon
  <2>1. pc[main] = "createDaemon" /\ pc'[main] = "exit" /\ pc[daemon] = "none"
    BY <1>0, <1>7, CreateDaemonEffect DEF Places
  <2>2. CASE pc'[daemon] = "setsid"
    BY <2>2 DEF Reason
  <2>3. CASE LogAndPoll(main, {<<"fork", 0>>}) /\ pc'[daemon] = pc[daemon]
    <3>1. "fork" \in Failures /\ <<"fork", 0>> \in Due
      BY <2>1, MessageKinds DEF Due, Failures
    <3>2. written'[<<"fork", 0>>] = 1
      BY <1>0, <1>2, <2>3, <3>1, Told, FailurePasses
    <3> QED BY <2>1, <2>3, <3>1, <3>2 DEF Reason
  <2> QED BY <1>0, <1>7, <2>2, <2>3, CreateDaemonEffect
<1>8. CASE DaemonFails
  <2> DEFINE f == pc[daemon]
  <2>1. /\ f \in Failures /\ f \in Calls /\ LogAndPoll(daemon, {<<f, 0>>}) /\ pc'[daemon] = "exit"
    BY <1>0, <1>2, <1>3, <1>8 DEF DaemonFails, Goes, Places, Failures, InMaster
  <2> HIDE DEF f
  <2>2. <<f, 0>> \in Due
    BY <2>1, MessageKinds DEF Due, f
  <2>3. written'[<<f, 0>>] = 1
    BY <1>0, <1>2, <2>1, <2>2, Told, FailurePasses
  <2> QED BY <2>1, <2>3 DEF Reason
<1>9. CASE DaemonCall
  <2>1. /\ pc[daemon] \in Calls /\ pc'[daemon] = Following(pc[daemon]) /\ pc'[main] = pc[main]
        /\ queued' = queued
    BY <1>0, <1>2, <1>3, <1>9 DEF DaemonCall, Goes, Places, Failures, InMaster, logState
  <2>2. pc'[daemon] \in Calls \cup InMaster
    BY <2>1, FollowingIs DEF Calls, InMaster
  <2>3. pc'[daemon] \notin {"none", "exit", "exited"}
    BY <2>2 DEF Calls, InMaster
  <2> QED BY <1>0, <1>1, <2>1, <2>3, ReasonKept
<1>10. ASSUME NEW p \in MayBeMaster,
              StartMaster(p) \/ SpawnProcess(p) \/ MasterWaits(p) \/ MasterReaps(p)
       PROVE  Reason'
  <2>1. CASE SpawnProcess(p)
    <3>1. /\ \A q \in MayBeMaster : pc'[q] = pc[q]
          /\ \A q \in MayBeMaster \ {p} : queued'[q] = queued[q]
          /\ pc[p] = "startWorkProcess"
      <4>1. step + 1 \in Workers /\ pc[p] = "startWorkProcess"
        BY <2>1, <1>10, SpawnProcessEffect DEF IInv
      <4>2. \A q \in MayBeMaster : pc'[q] = pc[q]
        BY <1>2, <1>10, <2>1, <4>1, SpawnProcessEffect DEF IInv
      <4>3. Fork(p, step + 1) \/ Log(p, <<"spawnProcess", step + 1>>)
        BY <2>1, <1>10, SpawnProcessEffect DEF IInv
      <4>4. \A q \in MayBeMaster \ {p} : queued'[q] = queued[q]
        <5>1. p \in Processes /\ step + 1 \in Processes /\ MayBeMaster \subseteq Processes \ {step + 1}
          BY <1>2, <4>1
        <5>2. CASE Fork(p, step + 1)
          BY <1>0, <5>1, <5>2, Forked
        <5>3. CASE Log(p, <<"spawnProcess", step + 1>>)
          BY <1>0, <5>1, <5>3, Logged
        <5> QED BY <4>3, <5>2, <5>3
      <4> QED BY <4>1, <4>2, <4>4
    <3> QED BY <1>0, <1>1, <1>2, <3>1, ReasonKept
  <2>2. CASE StartMaster(p) \/ MasterWaits(p) \/ MasterReaps(p)
    <3>1. pc[p] \in InMaster /\ pc'[p] \in InMaster
      BY <1>2, <1>3, <2>2 DEF StartMaster, MasterWaits, MasterReaps, Goes, InMaster
    <3>2. \A q \in MayBeMaster \ {p} : pc'[q] = pc[q]
      BY <1>2, <1>3, <2>2 DEF StartMaster, MasterWaits, MasterReaps, Goes
    <3>3. \A q \in MayBeMaster \ {p} : queued'[q] = queued[q]
      BY <1>2, <1>3, <2>2 DEF StartMaster, MasterWaits, MasterReaps, LogAndPoll, logState
    <3>4. pc[p] # "none" /\ pc'[p] \notin {"none", "exit", "exited"}
      BY <3>1 DEF InMaster
    <3> QED BY <1>0, <1>1, <1>2, <3>2, <3>3, <3>4, ReasonKept
  <2> QED BY <1>10, <2>1, <2>2
<1>11. ASSUME NEW w \in Workers, StartWorker(w) \/ EpollInit(w)
       PROVE  Reason'
  <2>1. \A q \in MayBeMaster : pc'[q] = pc[q] /\ queued'[q] = queued[q]
    BY <1>2, <1>3, <1>11 DEF StartWorker, EpollInit, Goes, Log, LogAndPoll
  <2> QED BY <1>0, <1>1, <1>2, <2>1, ReasonKept
<1>12. ASSUME NEW p \in Processes, Exit(p)
       PROVE  Reason'
  <2>1. /\ pc[p] = "exit" /\ pc'[p] = "exited" /\ LogAndPoll(p, {})
        /\ \A q \in Processes \ {p} : pc'[q] = pc[q] /\ queued'[q] = queued[q]
    BY <1>3, <1>12 DEF Exit, Goes, LogAndPoll
  <2>2. CASE p # main
    BY <1>0, <1>1, <1>2, <2>1, <2>2, ReasonKept
  <2>3. CASE p = main
    <3>1. pc'[daemon] = pc[daemon]
      BY <1>2, <2>1, <2>3
    <3>2. \/ pc[daemon] # "none" \/ \E f \in Failures : written'[<<f, 0>>] = 1
      <4>1. ASSUME NEW f \in Failures, <<f, 0>> \in queued[main]
            PROVE  written'[<<f, 0>>] = 1
        <5>1. <<f, 0>> \in Waiting
          BY <1>2, <4>1, MessageKinds DEF Waiting
        <5> QED BY <1>0, <2>1, <2>3, <4>1, <5>1, Told
      <4> QED BY <1>0, <1>1, <2>1, <2>3, <4>1 DEF Reason
    <3>3. pc'[daemon] \in {"exit", "exited"} => \E f \in Failures : written'[<<f, 0>>] = 1
      BY <1>0, <1>1, <3>1 DEF Reason
    <3> QED BY <3>1, <3>2, <3>3 DEF Reason
  <2> QED BY <2>2, <2>3
<1> QED BY <1>4, <1>5, <1>6, <1>7, <1>8, <1>9, <1>10, <1>11, <1>12 DEF Next, MayBeMaster

-----------------------------------------------------------------------------
(* The theorems                                                            *)

(* The program starts in it.                                               *)
LEMMA InitIInv ==
  ASSUME Init
  PROVE  IInv
<1>1. main \in Processes /\ daemon \in Processes /\ main # daemon /\ MayBeMaster = {main, daemon}
      /\ \A w \in Workers : w \in Processes /\ w # main /\ w # daemon
  BY DEF main, daemon, Processes, Workers, MayBeMaster
<1>2. pc[main] = "load" /\ \A p \in Processes \ {main} : pc[p] = "none"
  BY <1>1 DEF Init
<1>3. /\ \A p \in Processes : fds[p] = {} /\ session[p] = main /\ streams[p] = {} /\ queued[p] = {}
      /\ \A m \in Messages : written[m] = 0
      /\ \A s \in Sockets : bound[s] = -1
  BY DEF Init
<1>4. TypeOK
  <2>1. pc \in [Processes -> {"load", "none"}]
    BY DEF Init
  <2>2. \A p \in Processes : pc[p] \in Failures => p = daemon
    BY <1>2 DEF Failures
  <2>3. step \in 0 .. (IF MaxWorkers > MaxListenPorts THEN MaxWorkers ELSE MaxListenPorts)
    BY StartupAssumption DEF Init
  <2>4. bound \in [Sockets -> -1 .. PortNumbers - 1]
    BY StartupAssumption DEF Init
  <2>5. /\ fds \in [Processes -> SUBSET Sockets] /\ session \in [Processes -> {main, daemon}]
        /\ streams \in [Processes -> SUBSET {"stdin", "stdout"}]
        /\ queued \in [Processes -> SUBSET Messages] /\ written \in [Messages -> Nat]
    BY DEF Init
  <2> QED BY <2>1, <2>2, <2>3, <2>4, <2>5 DEF TypeOK
<1>5. ConfOK
  <2>1. PICK n \in 0 .. MaxListenPorts : conf.ports \in [1 .. n -> Numbers]
    BY DEF Init
  <2>2. conf.ports \in Seq(Numbers) /\ Len(conf.ports) = n /\ n <= MaxListenPorts
    BY <2>1, StartupAssumption
  <2>3. conf.Daemon \in BOOLEAN /\ conf.WorkerProcesses \in 0 .. MaxWorkers
    BY DEF Init
  <2> QED BY <2>2, <2>3 DEF ConfOK
<1>6. Places
  BY <1>1, <1>2 DEF Places, Early, InMaster, Calls
<1>7. Steps
  BY <1>1, <1>2 DEF Init, Steps, Early, Calls, Forking
<1>8. Listening
  BY <1>1, <1>2, <1>3 DEF Listening, Early, InMaster
<1>9. Leaving
  BY <1>1, <1>2, <1>3 DEF Leaving, Calls, InMaster
<1>10. Queues
  BY <1>1, <1>2, <1>3 DEF Queues, Early, Forking
<1>11. Unsaid
  BY <1>3 DEF Unsaid, Once
<1>12. Copies
  <2> SUFFICES ASSUME NEW w \in Workers
               PROVE  written[<<"spawnProcess", w>>]
                        <= Cardinality(Started(w)) + (IF MasterHasSaid(w) THEN 1 ELSE 0)
    BY DEF Copies
  <2>1. written[<<"spawnProcess", w>>] = 0
    BY <1>3, MessageKinds
  <2>2. Cardinality(Started(w)) \in Nat
    BY <1>5, WorkersAfter DEF Started
  <2> HIDE DEF Started, MasterHasSaid
  <2> QED BY <2>1, <2>2
<1>13. Reason
  BY <1>1, <1>2 DEF Reason
<1>14. LevelOK
  BY DEF Init, LevelOK
<1>15. Bindings
  BY <1>3 DEF Bindings
<1> QED BY <1>4, <1>5, <1>6, <1>7, <1>8, <1>9, <1>10, <1>11, <1>12, <1>13, <1>14, <1>15 DEF IInv

(* The inductive invariant holds in every state.                           *)
THEOREM Inductive == Spec => []IInv
<1>1. Init => IInv
  BY InitIInv
<1>2. IInv /\ [Next]_vars => IInv'
  <2>1. IInv /\ Next => IInv'
    BY TypeStep, ConfStep, PlacesStep, StepsStep, ListeningStep, BindingsStep, LeavingStep,
       QueuesStep, UnsaidStep, CopiesStep, ReasonStep DEF IInv
  <2>2. ASSUME IInv, UNCHANGED vars
        PROVE  IInv'
    <3>1. /\ TypeOK' = TypeOK /\ ConfOK' = ConfOK /\ Places' = Places /\ Steps' = Steps
          /\ Leaving' = Leaving /\ Queues' = Queues /\ Reason' = Reason
          /\ LevelOK' = LevelOK /\ Bindings' = Bindings
      BY <2>2 DEF vars, TypeOK, ConfOK, Places, Steps, Leaving, Queues, Reason, LevelOK, Bindings,
                  Port
    <3>2. Listening' = Listening
      BY <2>2 DEF vars, Listening, Ports
    <3>3. Due' = Due /\ Waiting' = Waiting
      BY <2>2 DEF vars, Due, Waiting, Once
    <3>4. Unsaid' = Unsaid
      BY <2>2, <3>3 DEF vars, Unsaid, Once
    <3>5. \A w \in Workers : Started(w)' = Started(w) /\ (MasterHasSaid(w)' <=> MasterHasSaid(w))
      BY <2>2 DEF vars, Started, MasterHasSaid
    <3>6. Copies' = Copies
      BY <2>2, <3>5 DEF vars, Copies
    <3> QED BY <2>2, <3>1, <3>2, <3>4, <3>6 DEF IInv
  <2> QED BY <2>1, <2>2
<1> QED BY <1>1, <1>2, PTL DEF Spec

(* Every variable has its type: only the daemon is ever in one of the      *)
(* calls of createDaemon, and a port number fits into an in_port_t.        *)
THEOREM StartupTypeCorrect == Spec => []TypeOK
<1>1. IInv => TypeOK
  BY DEF IInv
<1> QED BY <1>1, Inductive, PTL

(* However fork copies the queues of the log, a message is written once,   *)
(* and the failure of a fork at most once more for each later worker.      *)
THEOREM StartupWritesOnce == Spec => []WrittenOnce
<1>1. IInv => WrittenOnce
  <2> SUFFICES ASSUME IInv, NEW m \in Messages, written[m] > 1
               PROVE  m[1] = "spawnProcess" /\ written[m] <= 1 + conf.WorkerProcesses - m[2]
    BY DEF WrittenOnce
  <2>1. TypeOK /\ ConfOK /\ Unsaid /\ Copies
    BY DEF IInv
  <2>2. written[m] \in Nat
    BY <2>1 DEF TypeOK
  <2>3. m[1] = "spawnProcess"
    BY <2>1, <2>2 DEF Unsaid, Once
  <2>4. PICK w \in Workers : m = <<"spawnProcess", w>>
    BY <2>3 DEF Messages, Failures
  <2> DEFINE c == Cardinality(Started(w))
             n == conf.WorkerProcesses
  <2>5. c \in Nat /\ c <= IF w < n THEN n - w ELSE 0
    BY <2>1, WorkersAfter DEF Started
  <2>6. written[m] <= c + 1
    <3>1. written[m] <= c + (IF MasterHasSaid(w) THEN 1 ELSE 0)
      BY <2>1, <2>4 DEF Copies
    <3> HIDE DEF c, MasterHasSaid
    <3> QED BY <2>2, <2>5, <3>1
  <2>7. w \in Nat /\ n \in Nat
    BY <2>1, StartupAssumption DEF Workers, ConfOK
  <2>8. m[2] = w
    BY <2>4
  <2> HIDE DEF c, n
  <2>9. written[m] <= 1 + n - w
    BY <2>2, <2>5, <2>6, <2>7
  <2> QED BY <2>3, <2>8, <2>9 DEF n
<1> QED BY <1>1, Inductive, PTL

(* A server that has not come up has said why in its log, unless that is   *)
(* off, whichever process gave up and whether or not it polled before.     *)
THEOREM StartupTellsFailure == Spec => []FailureTold
<1>1. IInv => FailureTold
  BY DEF IInv, Reason, FailureTold
<1> QED BY <1>1, Inductive, PTL

(* A worker that serves listens to every port of the configuration, and    *)
(* these are different.                                                    *)
THEOREM StartupListens == Spec => []WorkersListen
<1>1. IInv => WorkersListen
  <2> SUFFICES ASSUME IInv, NEW w \in Workers, pc[w] = "serving"
               PROVE  /\ fds[w] = 0 .. Len(conf.ports) - 1
                      /\ \A s \in fds[w] : conf.ports[s + 1] < PortNumbers
                                            => bound[s] = conf.ports[s + 1]
                      /\ \A r, s \in fds[w] : (bound[r] = bound[s] /\ bound[r] # 0) => r = s
    BY Zenon DEF WorkersListen
  <2>1. w \in Processes /\ w # main
    BY DEF Workers, Processes, main
  <2>2. fds[w] = Ports /\ fds[w] \subseteq Sockets
    BY <2>1 DEF IInv, Listening, TypeOK
  <2>3. \A s \in fds[w] : bound[s] # -1
    BY <2>1 DEF IInv, Listening
  <2>4. \A r, s \in Sockets : (bound[r] = bound[s] /\ bound[r] \notin {0, -1}) => r = s
    BY DEF IInv, Listening
  <2>5. \A r, s \in fds[w] : (bound[r] = bound[s] /\ bound[r] # 0) => r = s
    BY <2>2, <2>3, <2>4
  <2>6. ASSUME NEW s \in fds[w], conf.ports[s + 1] < PortNumbers
        PROVE  bound[s] = conf.ports[s + 1]
    <3>1. /\ s < Len(conf.ports) /\ bound[s] = conf.ports[s + 1] % PortNumbers
          /\ s \in Nat
      BY <2>2, <2>3, <2>6 DEF IInv, Bindings, Port, Sockets
    <3>2. conf.ports[s + 1] \in Nat
      <4>1. conf.ports \in Seq(Numbers) /\ Numbers \subseteq Nat
        BY StartupAssumption DEF IInv, ConfOK
      <4>2. s + 1 \in 1 .. Len(conf.ports)
        BY <3>1, <4>1
      <4>3. \A ports \in Seq(Numbers) : \A n \in 1 .. Len(ports) : ports[n] \in Numbers
        OBVIOUS
      <4> QED BY <4>1, <4>2, <4>3
    <3>3. \A n \in Nat, m \in Nat \ {0} : n < m => n % m = n
      OBVIOUS
    <3> QED BY <2>6, <3>1, <3>2, <3>3, StartupAssumption
  <2> QED BY <2>2, <2>5, <2>6 DEF Ports
<1> QED BY <1>1, Inductive, PTL

(* A daemon's master and workers have left the session of the shell and    *)
(* given up its standard input and output, whichever call failed.          *)
THEOREM StartupDetaches == Spec => []Detached
<1>1. IInv => Detached
  <2> SUFFICES ASSUME IInv, conf.Daemon, NEW p \in Processes,
                      pc[p] \in InMaster \cup {"spawned", "epoll_init", "serving"}
               PROVE  session[p] = daemon /\ streams[p] = {"stdin", "stdout"}
    BY DEF Detached
  <2>1. Places /\ Leaving
    BY DEF IInv
  <2>2. CASE p = main
    BY <2>1, <2>2 DEF Places, Early, InMaster
  <2>3. CASE p = daemon
    BY <2>1, <2>3 DEF Places, Leaving, InMaster, Calls
  <2>4. CASE p \in Workers
    BY <2>1, <2>4 DEF Places, Leaving, InMaster
  <2> QED BY <2>2, <2>3, <2>4 DEF Processes
<1> QED BY <1>1, Inductive, PTL

=============================================================================
