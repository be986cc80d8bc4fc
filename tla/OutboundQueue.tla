--------------------------- MODULE OutboundQueue ---------------------------
(***************************************************************************)
(* The messages a user sends to one session: the outbound acceptor starts  *)
(* a turn for them or puts them in the queue, and the drainer starts the   *)
(* turn of the first in the queue when the one before it ends              *)
(* (electron/outbound/outboundAcceptor.ts, wired in agentProtocolIpc.ts).  *)
(*                                                                         *)
(* A call of drain is a process. Its steps are the stretches of code       *)
(* between two awaits; continuations of different calls run in any order.  *)
(* The turn itself is its place in TurnLifecycle: it is active in memory   *)
(* while it runs, and its row stays open until its source settles.         *)
(***************************************************************************)
EXTENDS Integers, Sequences

CONSTANTS
  Messages,      \* what the user sends
  MaxDrains,     \* bound: calls of drain under way at a time
  QueueMax,      \* MAX_CHAT_MESSAGE_QUEUE_SIZE
  MaxRetries,    \* MAX_DRAIN_RETRIES
  MaxCrashes,    \* bound: restarts of the program
  None           \* no message

ASSUME OutboundAssumption ==
  /\ MaxDrains \in Nat /\ QueueMax \in Nat /\ MaxRetries \in Nat /\ MaxCrashes \in Nat
  /\ None \notin Messages

Drains == 1..MaxDrains

VARIABLES
  entry,       \* what became of each message
  queue,       \* the queued rows in the order of their sequence numbers
  turn,        \* none, running (active in memory), settling (only its row is open)
  at,          \* the calls of drain
  draining,    \* the session is in the set of that name
  suppressed,  \* it is in suppressedTriggers
  attempts,    \* retryAttempts
  retries,     \* microtasks that will call drain
  stalled,     \* the drainer gave up, or was restarted, and nothing triggered it since
  crashes

volatile == <<at, draining, suppressed, attempts, retries, stalled>>
vars == <<entry, queue, turn, volatile, crashes>>

Idle == [step |-> "idle", msg |-> None, result |-> "none"]
Step(s, m, r) == [step |-> s, msg |-> m, result |-> r]

TypeOK ==
  /\ entry \in [Messages -> {"new", "enqueueing", "preparing", "queued", "turned", "gone"}]
  /\ queue \in Seq(Messages) /\ {queue[i] : i \in DOMAIN queue} = {m \in Messages : entry[m] = "queued"}
  /\ turn \in {"none", "running", "settling"}
  /\ at \in [Drains -> [step : {"idle", "submit", "prepare", "back", "exit"}, msg : Messages \cup {None},
                        result : {"none", "started", "rejected", "queued", "local"}]]
  /\ draining \in BOOLEAN /\ suppressed \in BOOLEAN /\ stalled \in BOOLEAN
  /\ attempts \in 0..(MaxRetries + 1) /\ retries \in Nat /\ crashes \in 0..MaxCrashes

Init ==
  /\ entry = [m \in Messages |-> "new"] /\ queue = << >>
  /\ turn = "none"
  /\ at = [d \in Drains |-> Idle]
  /\ draining = FALSE /\ suppressed = FALSE /\ stalled = FALSE
  /\ attempts = 0 /\ retries = 0 /\ crashes = 0

\* The rows without that of m, in their order.
Without(rows, m) ==
  IF \E i \in DOMAIN rows : rows[i] = m
  THEN LET row == CHOOSE i \in DOMAIN rows : rows[i] = m
       IN  [i \in 1..(Len(rows) - 1) |-> IF i < row THEN rows[i] ELSE rows[i + 1]]
  ELSE rows

Active == turn = "running"     \* listActive is not empty
RowOpen == turn # "none"       \* hasActiveTurn
-----------------------------------------------------------------------------
(* drain.                                                                  *)

\* One turn of the loop of drainOnce: nothing to do, or the head is submitted.
Turn(active, q) ==
  IF active \/ q = << >> THEN Step("exit", None, "rejected") ELSE Step("submit", Head(q), "none")

\* drain is called, by a process that is free, while the others are at A and
\* the turn is active or not. It leaves a mark if the session is draining.
Call(A, active, q) ==
  IF draining
  THEN suppressed' = TRUE /\ at' = A /\ UNCHANGED draining
  ELSE \E d \in Drains :
         /\ A[d] = Idle /\ \A e \in Drains : A[e] = Idle => d <= e
         /\ at' = [A EXCEPT ![d] = Turn(active, q)]
         /\ draining' = (at'[d].step = "submit")
         /\ UNCHANGED suppressed

\* Mutated form of Trigger: a trigger that meets a drain is forgotten.
TriggerOnce(A, active, q) ==
  IF draining
  THEN at' = A /\ UNCHANGED <<draining, suppressed, attempts, retries, stalled>>
  ELSE Call(A, active, q) /\ stalled' = FALSE /\ UNCHANGED <<attempts, retries>>

\* drain is called as the turn ended or a message was queued.
Trigger(A, active, q) == Call(A, active, q) /\ stalled' = FALSE /\ UNCHANGED <<attempts, retries>>

\* Mutated form of Notify: the drainer is not told.
NotifyNobody(A, q) == at' = A /\ UNCHANGED <<draining, suppressed, attempts, retries, stalled>>

\* notifyEnqueued: the end of an active turn will call drain anyway.
Notify(A, q) ==
  IF Active THEN at' = A /\ UNCHANGED <<draining, suppressed, attempts, retries, stalled>>
  ELSE Trigger(A, FALSE, q)

\* Mutated form of Retry: the attempts are not counted.
RetryForEver(n) == attempts' = n /\ retries' = retries + 1 /\ UNCHANGED stalled

\* scheduleRetry, n attempts having been made; beyond the limit their number
\* does not matter.
Retry(n) ==
  IF n < MaxRetries THEN attempts' = n + 1 /\ retries' = retries + 1 /\ UNCHANGED stalled
  ELSE attempts' = MaxRetries + 1 /\ stalled' = TRUE /\ UNCHANGED retries

RetryRuns ==
  /\ retries > 0 /\ retries' = retries - 1
  /\ Call(at, Active, queue)
  /\ UNCHANGED <<entry, queue, turn, attempts, stalled, crashes>>

\* submitOutbound is admitted and looks whether the session runs.
Snapshot(d) ==
  /\ at[d].step = "submit"
  /\ at' = [at EXCEPT ![d] = IF Active THEN Step("back", @.msg, "rejected") ELSE Step("prepare", @.msg, "none")]
  /\ UNCHANGED <<entry, queue, turn, draining, suppressed, attempts, retries, stalled, crashes>>

\* Admission, the limit of parallel turns, the key, the working directory or
\* the configuration refuse, or the text is a command of the renderer.
Refused(d) ==
  /\ at[d].step \in {"submit", "prepare"}
  /\ \E r \in {"rejected", "local"} : at' = [at EXCEPT ![d] = Step("back", @.msg, r)]
  /\ UNCHANGED <<entry, queue, turn, draining, suppressed, attempts, retries, stalled, crashes>>

\* prepare finds the turn of the request: another drain was faster.
Replayed(d) ==
  /\ at[d].step = "prepare" /\ entry[at[d].msg] = "turned"
  /\ at' = [at EXCEPT ![d] = Step("back", @.msg, "started")]
  /\ UNCHANGED <<entry, queue, turn, draining, suppressed, attempts, retries, stalled, crashes>>

\* SESSION_TURN_BUSY: it is queued again, which finds its receipt, and told.
Busy(d) ==
  /\ at[d].step = "prepare" /\ entry[at[d].msg] = "queued" /\ RowOpen
  /\ Notify([at EXCEPT ![d] = Step("back", @.msg, "queued")], queue)
  /\ UNCHANGED <<entry, queue, turn, crashes>>

\* It was deleted: the claim is refused, or the receipt has no message.
NotClaimable(d) ==
  /\ at[d].step = "prepare" /\ entry[at[d].msg] = "gone"
  /\ at' = [at EXCEPT ![d] = Step("back", @.msg, "rejected")]
  /\ UNCHANGED <<entry, queue, turn, draining, suppressed, attempts, retries, stalled, crashes>>

\* Mutated form of Claim: the row may be anything but claimed.
ClaimStale(d) ==
  /\ at[d].step = "prepare" /\ entry[at[d].msg] \in {"queued", "gone"} /\ ~RowOpen
  /\ entry' = [entry EXCEPT ![at[d].msg] = "turned"]
  /\ queue' = Without(queue, at[d].msg)
  /\ turn' = "running"
  /\ at' = [at EXCEPT ![d] = Step("back", @.msg, "started")]
  /\ UNCHANGED <<draining, suppressed, attempts, retries, stalled, crashes>>

\* claimQueuedTurnAtomically: the message gets its turn.
Claim(d) ==
  /\ at[d].step = "prepare" /\ entry[at[d].msg] = "queued" /\ ~RowOpen
  /\ entry' = [entry EXCEPT ![at[d].msg] = "turned"]
  /\ queue' = Without(queue, at[d].msg)
  /\ turn' = "running"
  /\ at' = [at EXCEPT ![d] = Step("back", @.msg, "started")]
  /\ UNCHANGED <<draining, suppressed, attempts, retries, stalled, crashes>>

\* submitOutbound answers. A command of the renderer is deleted and the loop
\* goes on; after all else it ends.
Back(d) ==
  /\ at[d].step = "back"
  /\ IF at[d].result = "local"
     THEN /\ queue' = Without(queue, at[d].msg)
          /\ entry' = [entry EXCEPT ![at[d].msg] = IF @ = "queued" THEN "gone" ELSE @]
          /\ at' = [at EXCEPT ![d] = Turn(Active, queue')]
     ELSE /\ at' = [at EXCEPT ![d] = Step("exit", None, @.result)]
          /\ UNCHANGED <<entry, queue>>
  /\ draining' = (at'[d].step = "submit")
  /\ UNCHANGED <<turn, suppressed, attempts, retries, stalled, crashes>>

\* Mutated form of Exit: a mark that was left is not looked at.
ExitBlindly(d) ==
  /\ at[d].step = "exit"
  /\ at' = [at EXCEPT ![d] = Idle]
  /\ draining' = FALSE /\ suppressed' = FALSE
  /\ attempts' = 0
  /\ UNCHANGED <<entry, queue, turn, retries, stalled, crashes>>

\* The end of drain, one await after drainOnce: the session leaves the set, and
\* drain is called again if it seems to be needed.
Exit(d) ==
  /\ at[d].step = "exit"
  /\ at' = [at EXCEPT ![d] = Idle]
  /\ draining' = FALSE /\ suppressed' = FALSE
  /\ LET started == at[d].result = "started"
         idle == ~Active /\ queue # << >>
     IN  IF (started /\ suppressed /\ idle) \/ (~started /\ (suppressed \/ idle))
         THEN Retry(IF started THEN 0 ELSE attempts)
         ELSE /\ attempts' = IF started \/ Active THEN 0 ELSE attempts
              /\ UNCHANGED <<retries, stalled>>
  /\ UNCHANGED <<entry, queue, turn, crashes>>
-----------------------------------------------------------------------------
(* The user and the turn.                                                  *)

\* submitOutbound for a message of the user looks whether the session runs.
Submit(m) ==
  /\ entry[m] = "new"
  /\ entry' = [entry EXCEPT ![m] = IF ~Active THEN "preparing"
                                   ELSE IF Len(queue) < QueueMax THEN "enqueueing" ELSE "gone"]
  /\ UNCHANGED <<queue, turn, volatile, crashes>>

SubmitRefused(m) ==
  /\ entry[m] \in {"new", "preparing"}
  /\ entry' = [entry EXCEPT ![m] = "gone"]
  /\ UNCHANGED <<queue, turn, volatile, crashes>>

\* enqueueDecision, as the session ran when it looked, or prepare said it does.
Enqueue(m) ==
  /\ entry[m] = "enqueueing" \/ (entry[m] = "preparing" /\ RowOpen)
  /\ entry' = [entry EXCEPT ![m] = "queued"]
  /\ queue' = Append(queue, m)
  /\ Notify(at, queue')
  /\ UNCHANGED <<turn, crashes>>

StartAtOnce(m) ==
  /\ entry[m] = "preparing" /\ ~RowOpen
  /\ entry' = [entry EXCEPT ![m] = "turned"]
  /\ turn' = "running"
  /\ UNCHANGED <<queue, volatile, crashes>>

\* The user deletes a queued message.
Delete(m) ==
  /\ entry[m] = "queued"
  /\ entry' = [entry EXCEPT ![m] = "gone"]
  /\ queue' = Without(queue, m)
  /\ UNCHANGED <<turn, volatile, crashes>>

\* onTurnProjection: the message is final in memory. A cancel has written the
\* row before; otherwise that is done when the source settles.
EndTurn ==
  /\ turn = "running" /\ turn' \in {"settling", "none"}
  /\ Trigger(at, FALSE, queue)
  /\ UNCHANGED <<entry, queue, crashes>>

SettleRow ==
  /\ turn = "settling" /\ turn' = "none"
  /\ UNCHANGED <<entry, queue, volatile, crashes>>

\* A restart: the queue and what was turned are in the database, the row of a
\* turn is recovered, and nothing calls drain.
Restart ==
  /\ crashes < MaxCrashes /\ crashes' = crashes + 1
  /\ entry' = [m \in Messages |-> IF entry[m] \in {"enqueueing", "preparing"} THEN "gone" ELSE entry[m]]
  /\ turn' = "none"
  /\ at' = [d \in Drains |-> Idle]
  /\ draining' = FALSE /\ suppressed' = FALSE /\ stalled' = TRUE
  /\ attempts' = 0 /\ retries' = 0
  /\ UNCHANGED queue

DrainStep(d) ==
  Snapshot(d) \/ Refused(d) \/ Replayed(d) \/ Busy(d) \/ NotClaimable(d) \/ Claim(d) \/ Back(d) \/ Exit(d)
UserStep(m) == Submit(m) \/ SubmitRefused(m) \/ Enqueue(m) \/ StartAtOnce(m) \/ Delete(m)

Next ==
  \/ RetryRuns \/ EndTurn \/ SettleRow \/ Restart
  \/ \E d \in Drains : DrainStep(d)
  \/ \E m \in Messages : UserStep(m)

Spec == Init /\ [][Next]_vars

\* Promises that are settled are continued, microtasks run, and turns end.
FairSpec ==
  /\ Spec /\ WF_vars(RetryRuns) /\ WF_vars(EndTurn) /\ WF_vars(SettleRow)
  /\ \A d \in Drains : WF_vars(DrainStep(d))
  /\ \A m \in Messages : WF_vars(Enqueue(m) \/ StartAtOnce(m))
-----------------------------------------------------------------------------
(* Properties.                                                             *)

AtWork == retries > 0 \/ \E d \in Drains : at[d] # Idle

\* No message is left behind: while no turn is active and the queue is not
\* empty a drain is under way, or the drainer said that it gave up (invariant
\* I2 of outboundDrainer.test.ts), however triggers and drains meet.
NothingStranded == ~Active /\ queue # << >> /\ ~AtWork => stalled

\* Why that is so. No message is in the queue twice; what a drain holds and is
\* still queued is the head; a session in the set has a drain that submits.
RowsDiffer == \A i, j \in DOMAIN queue : queue[i] = queue[j] => i = j
Submits(d) == at[d].step \in {"submit", "prepare", "back"}
HeldIsHead ==
  \A d \in Drains : Submits(d) =>
    /\ at[d].msg \in Messages /\ entry[at[d].msg] \in {"queued", "turned", "gone"}
    /\ entry[at[d].msg] = "queued" => queue # << >> /\ queue[1] = at[d].msg
MarkIsSeen == draining => \E d \in Drains : Submits(d)

\* While the queue waits for nothing there is a drain that will look again: it
\* did not start a turn, nor will it find one started, or it will see the mark.
LooksAgain(d) ==
  \/ at[d].step \in {"exit", "back"} /\ (at[d].result # "started" \/ suppressed)
  \/ at[d].step \in {"submit", "prepare"} /\ (entry[at[d].msg] # "turned" \/ suppressed)
SomebodyLooks ==
  ~Active /\ queue # << >> => stalled \/ retries > 0 \/ \E d \in Drains : LooksAgain(d)
QueueInv == RowsDiffer /\ HeldIsHead /\ MarkIsSeen /\ SomebodyLooks

\* The drainer does not spin: whatever is refused for ever, it comes to rest or
\* a turn is open.
ComesToRest == []<>(~AtWork \/ RowOpen)

\* If turns end, a queued message leaves the queue or the drainer gave up.
Served == \A m \in Messages : entry[m] = "queued" ~> entry[m] # "queued" \/ stalled

\* Both: triggers, retries and drains serve the queue, and then stop.
Drained == ComesToRest /\ Served

\* One turn at a time, one turn for a message, in the order of the queue: also
\* when two drains hold the same message, or one that was deleted.
Promise == INSTANCE QueuePromise WITH
  waiting <- queue, settled <- {m \in Messages : entry[m] \in {"turned", "gone"}}, running <- RowOpen
KeepsQueue == Promise!PSpec

=============================================================================
