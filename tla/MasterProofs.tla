---------------------------- MODULE MasterProofs ----------------------------
(***************************************************************************)
(* For every number of workers and every set of signals, whether the       *)
(* signals could be blocked or not: no ended worker is forgotten.          *)
(***************************************************************************)
EXTENDS Master, TLAPS

IInv == TypeOK /\ ZombieAnnounced

Points == LogPoints \cup PollPoints \cup MainPoints \cup HandlerPoints
Calls == [who : {Main} \cup (Signals \ Deadly), at : Points, inside : BOOLEAN,
          then : {"poll", "started", "fork", "cleanWorker"}]

(* What TypeOK says of the call in place k.                                *)
Fits(call, k) ==
  /\ call.who = Main <=> k = 1
  /\ call.at \in LogPoints \cup PollPoints \cup
                   (IF k = 1 THEN MainPoints ELSE HandlerPoints)
  /\ "cleanWorker" \in {call.at, call.then} => call.who = SIGCHLD
  /\ call.then \in {"started", "fork"} => k = 1
  /\ call.inside => call.at \in DOMAIN Needs

(* The part of TypeOK that a step of a call can disturb.                   *)
CallsOK(cs) == cs \in Seq(Calls) /\ cs # << >> /\ \A k \in 1 .. Len(cs) : Fits(cs[k], k)

LEMMA CallsTyped == TypeOK => CallsOK(calls)
BY DEF TypeOK, CallsOK, Fits, Calls, Points

LEMMA CallsTypedPrime == CallsOK(calls') /\ UNCHANGED processState /\ TypeOK => TypeOK'
BY DEF TypeOK, CallsOK, Fits, Calls, Points, processState

-----------------------------------------------------------------------------
(* The stack of calls                                                      *)

(* The innermost call becomes another one, the others stay.                *)
LEMMA TopReplaced ==
  ASSUME NEW cs \in Seq(Calls), cs # << >>, NEW call \in Calls,
         \A k \in 1 .. Len(cs) : Fits(cs[k], k), Fits(call, Len(cs)),
         NEW ds, ds = [cs EXCEPT ![Len(cs)] = call]
  PROVE  /\ CallsOK(ds)
         /\ Len(ds) = Len(cs) /\ ds[Len(cs)] = call
         /\ \A k \in 1 .. Len(cs) : k # Len(cs) => ds[k] = cs[k]
<1>1. Len(cs) \in Nat \ {0} /\ Len(cs) \in 1 .. Len(cs)
  OBVIOUS
<1>2. ds \in Seq(Calls) /\ Len(ds) = Len(cs)
  BY <1>1
<1>3. ds[Len(cs)] = call /\ \A k \in 1 .. Len(cs) : k # Len(cs) => ds[k] = cs[k]
  BY <1>1
<1>4. \A k \in 1 .. Len(ds) : Fits(ds[k], k)
  <2> TAKE k \in 1 .. Len(ds)
  <2> QED BY <1>2, <1>3
<1>5. ds # << >>
  BY <1>1, <1>2
<1> QED BY <1>2, <1>3, <1>4, <1>5 DEF CallsOK

(* A handler is called: it is the innermost, the others stay.              *)
LEMMA CallPushed ==
  ASSUME NEW cs, CallsOK(cs), NEW call \in Calls, Fits(call, Len(cs) + 1)
  PROVE  /\ CallsOK(Append(cs, call))
         /\ Len(Append(cs, call)) = Len(cs) + 1
         /\ Append(cs, call)[Len(cs) + 1] = call
         /\ \A k \in 1 .. Len(cs) : Append(cs, call)[k] = cs[k]
<1> DEFINE ds == Append(cs, call)
<1>1. cs \in Seq(Calls) /\ Len(cs) \in Nat
  BY DEF CallsOK
<1>2. /\ ds \in Seq(Calls) /\ Len(ds) = Len(cs) + 1 /\ ds[Len(cs) + 1] = call
      /\ \A k \in 1 .. Len(cs) : ds[k] = cs[k]
  BY <1>1
<1> HIDE DEF ds
<1>3. \A k \in 1 .. Len(ds) : Fits(ds[k], k)
  <2> TAKE k \in 1 .. Len(ds)
  <2>1. k = Len(cs) + 1 \/ k \in 1 .. Len(cs)
    BY <1>1, <1>2
  <2> QED BY <1>2, <2>1 DEF CallsOK
<1>4. ds # << >>
  BY <1>1, <1>2
<1>5. CallsOK(ds)
  BY <1>2, <1>3, <1>4 DEF CallsOK
<1> QED BY <1>2, <1>5 DEF ds

(* The innermost handler returns: the others stay.                         *)
LEMMA CallPopped ==
  ASSUME NEW cs, CallsOK(cs), Len(cs) > 1
  PROVE  /\ CallsOK(SubSeq(cs, 1, Len(cs) - 1))
         /\ Len(SubSeq(cs, 1, Len(cs) - 1)) = Len(cs) - 1
         /\ \A k \in 1 .. Len(cs) - 1 : SubSeq(cs, 1, Len(cs) - 1)[k] = cs[k]
<1> DEFINE ds == SubSeq(cs, 1, Len(cs) - 1)
<1>1. cs \in Seq(Calls) /\ Len(cs) \in Nat
  BY DEF CallsOK
<1>2. /\ ds \in Seq(Calls) /\ Len(ds) = Len(cs) - 1
      /\ \A k \in 1 .. Len(cs) - 1 : ds[k] = cs[k]
  BY <1>1
<1> HIDE DEF ds
<1>3. \A k \in 1 .. Len(ds) : Fits(ds[k], k)
  BY <1>1, <1>2 DEF CallsOK
<1>4. ds # << >>
  BY <1>1, <1>2
<1>5. CallsOK(ds)
  BY <1>2, <1>3, <1>4 DEF CallsOK
<1> QED BY <1>2, <1>5 DEF ds

(* The innermost call goes on to another point.                            *)
LEMMA CallGoes ==
  ASSUME TypeOK, NEW at \in Points, Goes(at),
         at \in LogPoints \cup PollPoints \cup (IF Top = 1 THEN MainPoints ELSE HandlerPoints),
         at = "cleanWorker" => calls[Top].who = SIGCHLD
  PROVE  /\ CallsOK(calls') /\ Len(calls') = Top
         /\ calls'[Top].who = calls[Top].who
         /\ calls'[Top].at = at /\ calls'[Top].then = calls[Top].then
         /\ \A k \in 1 .. Top : k # Top => calls'[k] = calls[k]
<1> DEFINE call == [calls[Top] EXCEPT !.at = at, !.inside = FALSE]
<1>1. CallsOK(calls)
  BY CallsTyped
<1>2. calls \in Seq(Calls) /\ calls # << >> /\ Top \in 1 .. Top /\ calls[Top] \in Calls
  BY <1>1 DEF CallsOK, Top
<1>3. /\ call \in Calls /\ call.who = calls[Top].who /\ call.at = at
      /\ call.inside = FALSE /\ call.then = calls[Top].then
  BY <1>2 DEF Calls
<1>4. calls' = [calls EXCEPT ![Len(calls)] = call]
  BY DEF Goes, Top
<1> HIDE DEF call
<1>5. Fits(call, Top)
  BY <1>1, <1>2, <1>3 DEF Fits, CallsOK, Top
<1>6. /\ CallsOK(calls') /\ Len(calls') = Top /\ calls'[Top] = call
      /\ \A k \in 1 .. Top : k # Top => calls'[k] = calls[k]
  BY <1>1, <1>2, <1>3, <1>4, <1>5, TopReplaced DEF CallsOK, Top
<1> QED BY <1>3, <1>6

(* The innermost call logs.                                                *)
LEMMA CallLogs ==
  ASSUME TypeOK, NEW then \in {"poll", "started", "fork", "cleanWorker"}, Logs(then),
         calls[Top].at \notin DOMAIN Needs,
         then = "cleanWorker" => calls[Top].who = SIGCHLD,
         then \in {"started", "fork"} => Top = 1
  PROVE  /\ CallsOK(calls') /\ Len(calls') = Top
         /\ calls'[Top].who = calls[Top].who
         /\ calls'[Top].at = "log" /\ calls'[Top].then = then
         /\ \A k \in 1 .. Top : k # Top => calls'[k] = calls[k]
<1> DEFINE call == [calls[Top] EXCEPT !.at = "log", !.then = then]
<1>1. CallsOK(calls)
  BY CallsTyped
<1>2. calls \in Seq(Calls) /\ calls # << >> /\ Top \in 1 .. Top /\ calls[Top] \in Calls
  BY <1>1 DEF CallsOK, Top
<1>3. "log" \in Points
  BY DEF Points, LogPoints
<1>4. /\ call \in Calls /\ call.who = calls[Top].who /\ call.at = "log"
      /\ call.inside = calls[Top].inside /\ call.then = then
  BY <1>2, <1>3 DEF Calls
<1>5. calls' = [calls EXCEPT ![Len(calls)] = call]
  BY DEF Logs, Top
<1> HIDE DEF call
<1>6. Fits(call, Top)
  BY <1>1, <1>2, <1>4 DEF Fits, CallsOK, Top, LogPoints
<1>7. /\ CallsOK(calls') /\ Len(calls') = Top /\ calls'[Top] = call
      /\ \A k \in 1 .. Top : k # Top => calls'[k] = calls[k]
  BY <1>1, <1>2, <1>4, <1>5, <1>6, TopReplaced DEF CallsOK, Top
<1> QED BY <1>4, <1>7

(* The innermost call takes what it waited for.                            *)
LEMMA CallEnters ==
  ASSUME TypeOK, Enter
  PROVE  /\ CallsOK(calls') /\ Len(calls') = Top
         /\ calls'[Top].who = calls[Top].who
         /\ calls'[Top].at = calls[Top].at /\ calls'[Top].then = calls[Top].then
         /\ \A k \in 1 .. Top : k # Top => calls'[k] = calls[k]
<1> DEFINE call == [calls[Top] EXCEPT !.inside = TRUE]
<1>1. CallsOK(calls)
  BY CallsTyped
<1>2. calls \in Seq(Calls) /\ calls # << >> /\ Top \in 1 .. Top /\ calls[Top] \in Calls
  BY <1>1 DEF CallsOK, Top
<1>3. /\ call \in Calls /\ call.who = calls[Top].who /\ call.at = calls[Top].at
      /\ call.then = calls[Top].then
  BY <1>2 DEF Calls
<1>4. calls' = [calls EXCEPT ![Len(calls)] = call]
  BY DEF Enter, Top
<1> HIDE DEF call
<1>5. Fits(call, Top)
  BY <1>1, <1>2, <1>3 DEF Fits, CallsOK, Top, Enter
<1>6. /\ CallsOK(calls') /\ Len(calls') = Top /\ calls'[Top] = call
      /\ \A k \in 1 .. Top : k # Top => calls'[k] = calls[k]
  BY <1>1, <1>2, <1>3, <1>4, <1>5, TopReplaced DEF CallsOK, Top
<1> QED BY <1>3, <1>6

-----------------------------------------------------------------------------
(* The announcement                                                        *)

(* If no worker has ended newly and the innermost call, if it had waitpids *)
(* to make, still has them to make, the announcement stands.               *)
LEMMA AnnouncedStays ==
  ASSUME IInv, Top \in 1 .. Top, calls[Top].at # "dead",
         Len(calls') = Top, \A k \in 1 .. Top : k # Top => calls'[k] = calls[k],
         UNCHANGED pending, Zombies' \subseteq Zombies,
         Reaping(calls[Top]) => Reaping(calls'[Top])
  PROVE  ZombieAnnounced'
<1> SUFFICES ASSUME Alive', Zombies' # {}, SIGCHLD \notin pending
             PROVE  \E k \in 1 .. Len(calls') : Reaping(calls'[k])
  BY DEF ZombieAnnounced
<1>1. Alive
  BY DEF Alive
<1>2. PICK k \in 1 .. Top : Reaping(calls[k])
  BY <1>1 DEF IInv, ZombieAnnounced, Top
<1> QED BY <1>2

(* The announcement does not rest on a call of masterProcessCycle.         *)
LEMMA MainReapsNothing == TypeOK => ~ Reaping(calls[1])
<1> SUFFICES ASSUME TypeOK PROVE ~ Reaping(calls[1])
  OBVIOUS
<1>1. calls[1].who = Main
  BY CallsTyped DEF CallsOK, Fits
<1> QED BY <1>1, MasterAssumption DEF Reaping, Signals

(* At a point of its own, masterProcessCycle is not interrupted.           *)
LEMMA MainUninterrupted ==
  ASSUME TypeOK, calls[Top].at \in MainPoints
  PROVE  Top = 1
<1>1. Top \in 1 .. Len(calls) /\ Fits(calls[Top], Top)
  BY CallsTyped DEF CallsOK, Top
<1> QED BY <1>1 DEF Fits, MainPoints, LogPoints, PollPoints, HandlerPoints

-----------------------------------------------------------------------------
(* The invariant                                                           *)

(* No worker has ended when the master starts.                             *)
LEMMA InitInv == Init => IInv
<1> SUFFICES ASSUME Init PROVE IInv
  OBVIOUS
<1> DEFINE call == CallOf(Main, "start")
<1>1. call \in Calls /\ Fits(call, 1)
  BY DEF CallOf, Calls, Points, MainPoints, Fits
<1>2. calls = <<call>>
  BY DEF Init
<1> HIDE DEF call
<1>3. CallsOK(calls)
  BY <1>1, <1>2 DEF CallsOK
<1>4. TypeOK
  BY <1>3 DEF TypeOK, CallsOK, Fits, Calls, Points, Init
<1>5. Zombies = {}
  BY DEF Init, Zombies
<1> QED BY <1>4, <1>5 DEF IInv, ZombieAnnounced

(* log and poll: a call for SIGCHLD that logs goes on to its waitpids.     *)
LEMMA LogPollInv ==
  ASSUME IInv, Enter \/ Proceed \/ Handle
  PROVE  IInv'
<1>1. TypeOK /\ CallsOK(calls) /\ Top \in 1 .. Top /\ UNCHANGED processState
  BY CallsTyped DEF IInv, Enter, Proceed, Handle, CallsOK, Top
<1>2. calls[Top] \in Calls /\ Fits(calls[Top], Top)
  BY <1>1 DEF CallsOK, Top
<1>3. calls[Top].at \in LogPoints \cup PollPoints
  BY <1>2 DEF Enter, Proceed, Handle, At, Fits, LogPoints, PollPoints, Needs
<1>4. calls[Top].at # "dead" /\ UNCHANGED pending /\ Zombies' = Zombies
  BY <1>1, <1>3 DEF LogPoints, PollPoints, processState, Zombies
<1>5. CASE Enter
  <2>1. /\ CallsOK(calls') /\ Len(calls') = Top
        /\ \A k \in 1 .. Top : k # Top => calls'[k] = calls[k]
        /\ Reaping(calls[Top]) => Reaping(calls'[Top])
    BY <1>1, <1>5, CallEnters DEF Reaping
  <2> QED BY <1>1, <1>4, <2>1, CallsTypedPrime, AnnouncedStays DEF IInv
<1>6. ASSUME NEW at \in Points, Goes(at),
             at \in LogPoints \cup PollPoints \cup (IF Top = 1 THEN MainPoints ELSE HandlerPoints),
             at = "cleanWorker" => calls[Top].who = SIGCHLD,
             calls[Top].at \in LogPoints =>
               \/ at \in LogPoints
               \/ at = calls[Top].then
      PROVE  IInv'
  <2>1. /\ CallsOK(calls') /\ Len(calls') = Top
        /\ calls'[Top].who = calls[Top].who
        /\ calls'[Top].at = at /\ calls'[Top].then = calls[Top].then
        /\ \A k \in 1 .. Top : k # Top => calls'[k] = calls[k]
    BY <1>1, <1>6, CallGoes
  <2>2. Reaping(calls[Top]) => Reaping(calls'[Top])
    BY <1>3, <1>6, <2>1 DEF Reaping, LogPoints, PollPoints, HandlerPoints
  <2> QED BY <1>1, <1>4, <2>1, <2>2, CallsTypedPrime, AnnouncedStays DEF IInv
<1>7. CASE Proceed
  <2>1. PICK at \in Following(calls[Top]) : Goes(at)
    BY <1>7 DEF Proceed
  <2>2. CASE calls[Top].at \in LogPoints
    <3>1. at \in {"registerLogInfo", "preallocate", calls[Top].then}
      BY <2>1, <2>2 DEF Following, LogPoints
    <3>2. CASE at = calls[Top].then
      <4>1. calls[Top].then = "cleanWorker" => Top # 1
        BY <1>2, MasterAssumption DEF Fits, Signals
      <4>2. calls[Top].then \in {"poll", "started", "fork", "cleanWorker"}
        BY <1>2 DEF Calls
      <4>3. calls[Top].then \in LogPoints \cup PollPoints \cup
                               (IF Top = 1 THEN MainPoints ELSE HandlerPoints)
        BY <1>2, <4>1, <4>2 DEF Fits, PollPoints, MainPoints, HandlerPoints
      <4>4. at \in Points
        BY <3>2, <4>3 DEF Points
      <4>5. at = "cleanWorker" => calls[Top].who = SIGCHLD
        BY <1>2, <3>2 DEF Fits
      <4> QED BY <1>6, <2>1, <3>2, <4>3, <4>4, <4>5
    <3>3. CASE at \in LogPoints
      BY <1>6, <2>1, <3>3 DEF Points, LogPoints
    <3> QED BY <3>1, <3>2, <3>3 DEF LogPoints
  <2>3. CASE calls[Top].at \in PollPoints
    <3>1. at \in PollPoints
      BY <2>1, <2>3 DEF Following, PollPoints
    <3> QED BY <1>6, <2>1, <2>3, <3>1 DEF Points, PollPoints, LogPoints
  <2> QED BY <1>3, <2>2, <2>3
<1>8. CASE Handle
  <2>1. "polled" \in PollPoints /\ Goes("polled") /\ calls[Top].at \notin LogPoints
    BY <1>8 DEF PollPoints, LogPoints, Handle, At
  <2> QED BY <1>6, <2>1 DEF Points
<1> QED BY <1>5, <1>7, <1>8

(* TypeOK of a step is the type of the stack and of the rest.              *)
LEMMA TypedAgain ==
  ASSUME TypeOK, CallsOK(calls'), masked' \in BOOLEAN, i' \in Nat, invalidProcess' \in {0, 1},
         pending' \subseteq Signals, sent' \in Nat,
         worker' \in [Workers -> {"none", "running", "zombie", "reaped"}]
  PROVE  TypeOK'
BY DEF TypeOK, CallsOK, Fits, Calls, Points

(* masterProcessCycle between signals: no worker ends in these steps.      *)
LEMMA MainInv ==
  ASSUME IInv, \/ BlockSignals \/ LogStart \/ MainPolled
               \/ SpawnProcess \/ EnterLoop \/ Suspend
  PROVE  IInv'
<1>1. TypeOK /\ CallsOK(calls)
  BY CallsTyped DEF IInv
<1>2. calls[Top].at \in {"start", "started", "fork", "loop"} \/ (At("polled") /\ Top = 1)
  BY DEF BlockSignals, LogStart, MainPolled, SpawnProcess, EnterLoop, Suspend, At
<1>3. Top = 1
  BY <1>1, <1>2, MainUninterrupted DEF MainPoints
<1>4. calls[Top].at # "dead" /\ calls[Top].at \notin DOMAIN Needs /\ ~ Reaping(calls[Top])
  BY <1>1, <1>2, <1>3, MainReapsNothing DEF At, Needs
<1>5. /\ pending' = pending /\ sent' = sent /\ invalidProcess' = invalidProcess
      /\ i' \in {i, i + 1}
  BY DEF BlockSignals, LogStart, MainPolled, SpawnProcess, EnterLoop, Suspend, processState
<1>6. worker' = worker \/ (i \in Workers /\ worker' = [worker EXCEPT ![i] = "running"])
  BY DEF BlockSignals, LogStart, MainPolled, SpawnProcess, EnterLoop, Suspend, processState
<1>7. /\ worker' \in [Workers -> {"none", "running", "zombie", "reaped"}]
      /\ Zombies' \subseteq Zombies
  BY <1>1, <1>6 DEF TypeOK, Zombies
<1>8. \/ UNCHANGED calls
      \/ \E at \in {"fork", "loop", "sigsuspend"} : Goes(at)
      \/ \E then \in {"poll", "started", "fork"} : Logs(then)
  BY DEF BlockSignals, LogStart, MainPolled, SpawnProcess, EnterLoop, Suspend
<1>9. /\ CallsOK(calls') /\ Len(calls') = Top
      /\ \A k \in 1 .. Top : k # Top => calls'[k] = calls[k]
  <2>1. CASE UNCHANGED calls
    BY <1>1, <2>1 DEF Top
  <2>2. ASSUME NEW at \in {"fork", "loop", "sigsuspend"}, Goes(at)
        PROVE  /\ CallsOK(calls') /\ Len(calls') = Top
               /\ \A k \in 1 .. Top : k # Top => calls'[k] = calls[k]
    <3>1. at \in MainPoints /\ at \in Points
      BY DEF MainPoints, Points
    <3> QED BY <1>1, <1>3, <2>2, <3>1, CallGoes
  <2>3. ASSUME NEW then \in {"poll", "started", "fork"}, Logs(then)
        PROVE  /\ CallsOK(calls') /\ Len(calls') = Top
               /\ \A k \in 1 .. Top : k # Top => calls'[k] = calls[k]
    BY <1>1, <1>3, <1>4, <2>3, CallLogs
  <2> QED BY <1>8, <2>1, <2>2, <2>3
<1>10. TypeOK'
  <2>1. /\ masked \in BOOLEAN /\ i \in Nat /\ sent \in Nat /\ pending \subseteq Signals
        /\ invalidProcess \in {0, 1}
    BY <1>1 DEF TypeOK
  <2>2. masked' \in BOOLEAN
    <3>1. masked' = masked \/ masked' = TRUE \/ masked' = FALSE
      BY DEF BlockSignals, LogStart, MainPolled, SpawnProcess, EnterLoop, Suspend, processState
    <3> QED BY <2>1, <3>1
  <2>3. i' \in Nat
    BY <1>5, <2>1
  <2> QED BY <1>1, <1>5, <1>7, <1>9, <2>1, <2>2, <2>3, TypedAgain
<1>11. ZombieAnnounced'
  BY <1>3, <1>4, <1>5, <1>7, <1>9, AnnouncedStays
<1> QED BY <1>10, <1>11 DEF IInv

(* A signal is delivered: a SIGCHLD that was pending becomes a handler.    *)
LEMMA DeliverInv ==
  ASSUME IInv, NEW signo \in Signals, Deliver(signo)
  PROVE  IInv'
<1>1. /\ TypeOK /\ CallsOK(calls) /\ Len(calls) \in Nat /\ Alive
      /\ UNCHANGED <<masked, i, invalidProcess, sent, worker>>
      /\ pending' = pending \ {signo} /\ Zombies' = Zombies
  BY CallsTyped DEF IInv, Deliver, CallsOK, Zombies
<1>2. pending' \subseteq Signals
  BY <1>1 DEF TypeOK
<1>3. CASE signo \in Deadly
  <2> DEFINE call == CallOf(Main, "dead")
  <2>1. call \in Calls /\ Fits(call, 1) /\ call.at = "dead"
    BY DEF CallOf, Calls, Points, MainPoints, Fits
  <2>2. calls' = <<call>>
    BY <1>3 DEF Deliver
  <2> HIDE DEF call
  <2>3. CallsOK(calls') /\ calls'[1].at = "dead"
    BY <2>1, <2>2 DEF CallsOK
  <2>4. TypeOK'
    BY <1>1, <1>2, <2>3, TypedAgain DEF TypeOK
  <2>5. ~ Alive'
    BY <2>3 DEF Alive
  <2> QED BY <2>4, <2>5 DEF IInv, ZombieAnnounced
<1>4. CASE signo \notin Deadly
  <2> DEFINE call == CallOf(signo, "entry")
  <2>1. /\ call \in Calls /\ Fits(call, Len(calls) + 1)
        /\ call.who = signo /\ call.at = "entry"
    <3>1. Len(calls) + 1 # 1 /\ signo # Main
      BY <1>1, MasterAssumption DEF CallsOK
    <3>2. call \in Calls
      BY <1>4 DEF CallOf, Calls, Points, HandlerPoints
    <3>3. Fits(call, Len(calls) + 1)
      BY <3>1 DEF CallOf, Fits, HandlerPoints
    <3> QED BY <3>2, <3>3 DEF CallOf
  <2>2. calls' = Append(calls, call)
    BY <1>4 DEF Deliver
  <2> HIDE DEF call
  <2>3. /\ CallsOK(calls') /\ Len(calls') = Len(calls) + 1
        /\ calls'[Len(calls) + 1] = call
        /\ \A k \in 1 .. Len(calls) : calls'[k] = calls[k]
    BY <1>1, <2>1, <2>2, CallPushed
  <2>4. TypeOK'
    BY <1>1, <1>2, <2>3, TypedAgain DEF TypeOK
  <2>5. ASSUME Zombies # {}, SIGCHLD \notin pending'
        PROVE  \E k \in 1 .. Len(calls') : Reaping(calls'[k])
    <3>1. CASE signo = SIGCHLD
      <4>1. Reaping(calls'[Len(calls) + 1])
        BY <2>1, <2>3, <3>1 DEF Reaping, HandlerPoints
      <4> QED BY <1>1, <2>3, <4>1
    <3>2. CASE signo # SIGCHLD
      <4>1. PICK k \in 1 .. Len(calls) : Reaping(calls[k])
        BY <1>1, <2>5, <3>2 DEF IInv, ZombieAnnounced
      <4> QED BY <1>1, <2>3, <4>1
    <3> QED BY <3>1, <3>2
  <2> QED BY <1>1, <2>4, <2>5 DEF IInv, ZombieAnnounced
<1> QED BY <1>3, <1>4

(* The handler enters: one for SIGCHLD goes on to its waitpids.            *)
LEMMA EntryInv == IInv /\ HandlerEntry => IInv'
<1> SUFFICES ASSUME IInv, HandlerEntry PROVE IInv'
  OBVIOUS
<1>1. /\ TypeOK /\ CallsOK(calls) /\ Top \in 1 .. Top /\ calls[Top].at = "entry"
      /\ UNCHANGED <<masked, i, pending, sent, worker>> /\ Zombies' = Zombies
  BY CallsTyped DEF IInv, HandlerEntry, At, CallsOK, Top, Zombies
<1>2. PICK then \in {"cleanWorker", "poll"} :
        /\ Logs(then) /\ (then = "cleanWorker" <=> calls[Top].who = SIGCHLD)
        /\ invalidProcess' \in {0, 1}
  BY <1>1 DEF HandlerEntry, TypeOK
<1>3. calls[Top].at \notin DOMAIN Needs
  BY <1>1 DEF Needs
<1>4. /\ CallsOK(calls') /\ Len(calls') = Top
      /\ calls'[Top].who = calls[Top].who
      /\ calls'[Top].at = "log" /\ calls'[Top].then = then
      /\ \A k \in 1 .. Top : k # Top => calls'[k] = calls[k]
  BY <1>1, <1>2, <1>3, CallLogs
<1>5. TypeOK'
  BY <1>1, <1>2, <1>4, TypedAgain DEF TypeOK
<1>6. Reaping(calls[Top]) => Reaping(calls'[Top])
  BY <1>2, <1>4 DEF Reaping, LogPoints
<1>7. ZombieAnnounced'
  BY <1>1, <1>4, <1>6, AnnouncedStays
<1> QED BY <1>5, <1>7 DEF IInv

(* A waitpid: the handler goes on as long as there are ended workers.      *)
LEMMA CleanWorkerInv == IInv /\ CleanWorker => IInv'
<1> SUFFICES ASSUME IInv, CleanWorker PROVE IInv'
  OBVIOUS
<1>1. /\ TypeOK /\ CallsOK(calls) /\ Top \in 1 .. Top /\ calls[Top].at = "cleanWorker"
      /\ UNCHANGED <<masked, i, invalidProcess, pending, sent>>
  BY CallsTyped DEF IInv, CleanWorker, At, CallsOK, Top
<1>2. calls[Top].at \notin DOMAIN Needs
  BY <1>1 DEF Needs
<1>3. calls[Top].who = SIGCHLD
  BY <1>1 DEF CallsOK, Fits, Top
<1>4. CASE \E w \in Zombies : worker' = [worker EXCEPT ![w] = "reaped"] /\ Logs("cleanWorker")
  <2>1. /\ CallsOK(calls') /\ Len(calls') = Top
        /\ calls'[Top].who = calls[Top].who
        /\ calls'[Top].at = "log" /\ calls'[Top].then = "cleanWorker"
        /\ \A k \in 1 .. Top : k # Top => calls'[k] = calls[k]
    BY <1>1, <1>2, <1>3, <1>4, CallLogs
  <2>2. /\ worker' \in [Workers -> {"none", "running", "zombie", "reaped"}]
        /\ Zombies' \subseteq Zombies
    BY <1>1, <1>4 DEF TypeOK, Zombies
  <2>3. TypeOK'
    BY <1>1, <2>1, <2>2, TypedAgain DEF TypeOK
  <2>4. Reaping(calls[Top]) => Reaping(calls'[Top])
    BY <2>1 DEF Reaping, LogPoints
  <2>5. ZombieAnnounced'
    BY <1>1, <2>1, <2>2, <2>4, AnnouncedStays
  <2> QED BY <2>3, <2>5 DEF IInv
<1>5. CASE Zombies = {} /\ (Goes("poll") \/ Logs("poll")) /\ UNCHANGED worker
  <2>1. CallsOK(calls')
    <3>1. "poll" \in PollPoints /\ "poll" \in Points
      BY DEF PollPoints, Points
    <3> QED BY <1>1, <1>2, <1>5, <3>1, CallGoes, CallLogs
  <2>2. TypeOK'
    BY <1>1, <1>5, <2>1, TypedAgain DEF TypeOK
  <2>3. Zombies' = {}
    BY <1>5 DEF Zombies
  <2> QED BY <2>2, <2>3 DEF IInv, ZombieAnnounced
<1> QED BY <1>4, <1>5 DEF CleanWorker, Children

(* The handler returns: it has made its last waitpid before.               *)
LEMMA ReturnInv == IInv /\ HandlerReturn => IInv'
<1> SUFFICES ASSUME IInv, HandlerReturn PROVE IInv'
  OBVIOUS
<1>1. /\ TypeOK /\ CallsOK(calls) /\ Top \in Nat /\ Top > 1 /\ calls[Top].at = "polled"
      /\ UNCHANGED processState
  BY CallsTyped DEF IInv, HandlerReturn, At, CallsOK, Top
<1>2. Zombies' = Zombies /\ UNCHANGED pending
  BY <1>1 DEF Zombies, processState
<1>3. ~ Reaping(calls[Top]) /\ ~ Reaping(calls[1])
  BY <1>1, MainReapsNothing DEF Reaping, LogPoints, HandlerPoints
<1>4. CASE Top = 2 /\ calls[1].at = "sigsuspend"
  <2> DEFINE call == CallOf(Main, "loop")
  <2>1. call \in Calls /\ Fits(call, 1)
    BY DEF CallOf, Calls, Points, MainPoints, Fits
  <2>2. calls' = <<call>>
    BY <1>4 DEF HandlerReturn
  <2> HIDE DEF call
  <2>3. CallsOK(calls')
    BY <2>1, <2>2 DEF CallsOK
  <2>4. TypeOK'
    BY <1>1, <2>3, CallsTypedPrime
  <2>5. Alive /\ ~ \E k \in 1 .. Len(calls) : Reaping(calls[k])
    BY <1>3, <1>4 DEF Alive, Top
  <2> QED BY <1>2, <2>4, <2>5 DEF IInv, ZombieAnnounced
<1>5. CASE ~ (Top = 2 /\ calls[1].at = "sigsuspend")
  <2>1. calls' = SubSeq(calls, 1, Len(calls) - 1)
    BY <1>5 DEF HandlerReturn, Top
  <2>2. /\ CallsOK(calls') /\ Len(calls') = Top - 1
        /\ \A k \in 1 .. Top - 1 : calls'[k] = calls[k]
    BY <1>1, <2>1, CallPopped DEF Top
  <2>3. TypeOK'
    BY <1>1, <2>2, CallsTypedPrime
  <2>4. ASSUME Alive', Zombies # {}, SIGCHLD \notin pending
        PROVE  \E k \in 1 .. Len(calls') : Reaping(calls'[k])
    <3>1. Alive
      BY <1>1, <2>2, <2>4 DEF Alive
    <3>2. PICK k \in 1 .. Top : Reaping(calls[k])
      BY <2>4, <3>1 DEF IInv, ZombieAnnounced, Top
    <3>3. k \in 1 .. Top - 1
      BY <1>1, <1>3, <3>2
    <3> QED BY <2>2, <3>2, <3>3
  <2> QED BY <1>2, <2>3, <2>4 DEF IInv, ZombieAnnounced
<1> QED BY <1>4, <1>5

(* What happens outside: with a worker that ends comes a SIGCHLD.          *)
LEMMA OutsideInv ==
  ASSUME IInv,
         \/ \E signo \in Signals : Kill(signo)
         \/ \E w \in Workers : WorkerEnds(w)
  PROVE  IInv'
<1>1. CallsOK(calls) /\ TypeOK
  BY CallsTyped DEF IInv
<1>2. CASE \E signo \in Signals : Kill(signo)
  <2>1. /\ calls' = calls /\ pending \subseteq pending' /\ pending' \subseteq Signals
        /\ sent' \in Nat /\ UNCHANGED <<masked, i, invalidProcess, worker>>
    BY <1>1, <1>2 DEF Kill, TypeOK
  <2>2. TypeOK'
    BY <1>1, <2>1, TypedAgain DEF TypeOK
  <2>3. ZombieAnnounced'
    BY <2>1 DEF IInv, ZombieAnnounced, Zombies, Alive
  <2> QED BY <2>2, <2>3 DEF IInv
<1>3. CASE \E w \in Workers : WorkerEnds(w)
  <2>1. /\ calls' = calls /\ SIGCHLD \in pending' /\ pending' \subseteq Signals
        /\ worker' \in [Workers -> {"none", "running", "zombie", "reaped"}]
        /\ UNCHANGED <<masked, i, invalidProcess, sent>>
    BY <1>1, <1>3 DEF WorkerEnds, TypeOK, Signals
  <2>2. TypeOK'
    BY <1>1, <2>1, TypedAgain DEF TypeOK
  <2> QED BY <2>1, <2>2 DEF IInv, ZombieAnnounced
<1> QED BY <1>2, <1>3

(* IInv is inductive.                                                      *)
LEMMA StepInv == IInv /\ [Next]_vars => IInv'
<1> SUFFICES ASSUME IInv, [Next]_vars PROVE IInv'
  OBVIOUS
<1>1. CASE Runs
  BY <1>1, LogPollInv, MainInv, EntryInv, CleanWorkerInv, ReturnInv DEF Runs
<1>2. ASSUME NEW signo \in Signals, Deliver(signo) PROVE IInv'
  BY <1>2, DeliverInv
<1>3. CASE (\E signo \in Signals : Kill(signo)) \/ (\E w \in Workers : WorkerEnds(w))
  BY <1>3, OutsideInv
<1>4. CASE UNCHANGED vars
  <2>1. CallsOK(calls') /\ UNCHANGED processState /\ TypeOK
    BY <1>4, CallsTyped DEF IInv, vars, processState
  <2>2. TypeOK'
    BY <2>1, CallsTypedPrime
  <2> QED BY <1>4, <2>2 DEF vars, IInv, ZombieAnnounced, Zombies, Alive
<1> QED BY <1>1, <1>2, <1>3, <1>4 DEF Next

(* The variables keep their types: handlers run within masterProcessCycle, *)
(* none for a signal that has none, and waitpid is called for SIGCHLD.     *)
THEOREM MasterTypeCorrect == Spec => []TypeOK
<1>1. IInv => TypeOK
  BY DEF IInv
<1> QED BY InitInv, StepInv, <1>1, PTL DEF Spec

(* No ended worker is forgotten: as long as the master lives, a SIGCHLD is *)
(* pending or a handler for one has yet to make its last waitpid.          *)
THEOREM ZombieAnnouncedHolds == Spec => []ZombieAnnounced
<1>1. IInv => ZombieAnnounced
  BY DEF IInv
<1> QED BY InitInv, StepInv, <1>1, PTL DEF Spec
=============================================================================
