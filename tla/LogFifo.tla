------------------------------- MODULE LogFifo ------------------------------
(***************************************************************************)
(* What the queue between a logging thread and the thread that polls the   *)
(* log promises: messages come out whole, in the order in which they were  *)
(* put in, none twice and none left out.  A message may be refused when it *)
(* is offered (that is a stuttering step), not afterwards.                 *)
(***************************************************************************)
EXTENDS Sequences

CONSTANT Messages

VARIABLES
  queue,       \* messages put in and not yet removed
  got,         \* the message handled last
  handled      \* the message at the head has been handled

vars == <<queue, got, handled>>

Init == queue = << >> /\ got = << >> /\ handled = FALSE

Push(m) == queue' = Append(queue, m) /\ UNCHANGED <<got, handled>>

Handle ==
  /\ queue # << >>
  /\ ~ handled
  /\ got' = Head(queue)
  /\ handled' = TRUE
  /\ UNCHANGED queue

Pop ==
  /\ handled
  /\ queue' = Tail(queue)
  /\ handled' = FALSE
  /\ UNCHANGED got

Next == (\E m \in Messages : Push(m)) \/ Handle \/ Pop

Spec == Init /\ [][Next]_vars
=============================================================================
