------------------------------ MODULE LogMerge ------------------------------
(***************************************************************************)
(* What fmtlog promises to several threads that log and one that polls:    *)
(* the messages of a thread come out in the order in which they were       *)
(* logged, none twice; and a poll gives out by time stamp what was there   *)
(* when it began.  (What comes in while it runs may be given out before an *)
(* older message of another thread that came in even later.)  A thread     *)
(* that ends may lose its last messages, but none that was there when the  *)
(* poll began.                                                             *)
(***************************************************************************)
EXTENDS Naturals, Sequences

CONSTANTS Threads, Messages

VARIABLES
  queue,      \* of each thread: messages logged and not given out
  waiting,    \* messages that were there when the poll began
  out,        \* message given out last
  logging     \* threads that have not ended

vars == <<queue, waiting, out, logging>>

Init ==
  /\ queue = [t \in Threads |-> << >>]
  /\ waiting = {}
  /\ out = << >>
  /\ logging = Threads

Contents(t) == {queue[t][k] : k \in DOMAIN queue[t]}

Log(t, m) ==
  /\ t \in logging
  /\ queue' = [queue EXCEPT ![t] = Append(@, m)]
  /\ UNCHANGED <<waiting, out, logging>>

Begin ==
  /\ waiting' = UNION {Contents(t) : t \in Threads}
  /\ UNCHANGED <<queue, out, logging>>

Finish ==
  /\ waiting' = {} /\ out' = << >>
  /\ UNCHANGED <<queue, logging>>

GiveOut(t) ==
  /\ queue[t] # << >>
  /\ \A u \in Threads : \A m \in Contents(u) \cap waiting : Head(queue[t]).tsc <= m.tsc
  /\ out' = <<Head(queue[t])>>
  /\ queue' = [queue EXCEPT ![t] = Tail(@)]
  /\ UNCHANGED <<waiting, logging>>

End(t) ==
  /\ logging' = logging \ {t}
  /\ UNCHANGED <<queue, waiting, out>>

Lose(t) ==
  /\ t \notin logging
  /\ Contents(t) \cap waiting = {}
  /\ queue' = [queue EXCEPT ![t] = << >>]
  /\ UNCHANGED <<waiting, out, logging>>

Next ==
  \/ Begin \/ Finish
  \/ \E t \in Threads : GiveOut(t) \/ End(t) \/ Lose(t)
  \/ \E t \in Threads, m \in Messages : Log(t, m)

Spec == Init /\ [][Next]_vars
=============================================================================
