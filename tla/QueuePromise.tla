---------------------------- MODULE QueuePromise ----------------------------
(***************************************************************************)
(* What a session promises of the messages its user sends: one turn runs   *)
(* at a time, a message gets one turn at most, and those that had to wait  *)
(* get theirs in the order in which they came, whatever drains the queue.  *)
(***************************************************************************)
EXTENDS Integers, Sequences

CONSTANT Messages

VARIABLES
  waiting,   \* the queue
  settled,   \* messages that were given their turn, or never will be
  running    \* a turn is open

pvars == <<waiting, settled, running>>

InQueue == {waiting[i] : i \in DOMAIN waiting}

\* The queue q without m, in its order.
Without(q, m) ==
  IF \E i \in DOMAIN q : q[i] = m
  THEN LET place == CHOOSE i \in DOMAIN q : q[i] = m
       IN  [i \in 1..(Len(q) - 1) |-> IF i < place THEN q[i] ELSE q[i + 1]]
  ELSE q

PInit == waiting = << >> /\ settled = {} /\ running = FALSE

Enqueue(m) ==
  /\ m \notin settled \cup InQueue
  /\ waiting' = Append(waiting, m)
  /\ UNCHANGED <<settled, running>>

\* The message goes away: it was refused, deleted, or consumed without a turn.
Drop(m) ==
  /\ m \notin settled
  /\ waiting' = Without(waiting, m)
  /\ settled' = settled \cup {m}
  /\ UNCHANGED running

\* A message that comes to an idle session does not wait.
StartAtOnce(m) ==
  /\ ~running /\ m \notin settled \cup InQueue
  /\ settled' = settled \cup {m} /\ running' = TRUE
  /\ UNCHANGED waiting

StartNext ==
  /\ ~running /\ waiting # << >>
  /\ waiting' = Tail(waiting)
  /\ settled' = settled \cup {Head(waiting)} /\ running' = TRUE

\* The turn ends; with the process, so do messages that were on their way.
End(lost) ==
  /\ running' \in {running, FALSE}
  /\ settled' = settled \cup lost
  /\ UNCHANGED waiting

PNext ==
  \/ StartNext
  \/ \E m \in Messages : Enqueue(m) \/ Drop(m) \/ StartAtOnce(m)
  \/ \E lost \in SUBSET (Messages \ InQueue) : End(lost)

PSpec == PInit /\ [][PNext]_pvars
=============================================================================
