---------------------------- MODULE TurnLifecycle ----------------------------
(***************************************************************************)
(* The life of a turn: TurnCoordinator (shared/turnCoordinator.ts) keeps   *)
(* it in memory, consumes the facts its source reports, checkpoints the    *)
(* assistant message to SQLite, and ends the turn when the source returns, *)
(* rejects, is cancelled or is recovered. TurnRuntime (turnRuntime.ts),    *)
(* the desktop and remote sources and the SQL of database/operations.ts    *)
(* take part.                                                              *)
(*                                                                         *)
(* mem[t] is what the process holds of turn t, row[t] its row in the turns *)
(* table together with its assistant message. The content of a message is  *)
(* the version it was written at. A handler is one action, for nothing     *)
(* else runs on its thread; the writes of one action are numbered, and     *)
(* those in its set of failing writes throw.                               *)
(***************************************************************************)
EXTENDS Integers, FiniteSets

CONSTANTS
  Turns, SessionOf,
  FactKinds,     \* facts a source reports on its way, of Kinds
  Outcomes,      \* what a source may return
  Canonical,     \* what recovery may find in the canonical History
  Timeouts,      \* TurnRuntime.timeout is called
  WakeRecovers,  \* an IM wake event may recover the turns of all sessions
  MaxFacts,      \* facts of one turn besides the last
  MaxFaults,     \* writes that fail
  MaxCrashes, MaxReplays

Kinds == {"delta", "usage", "tool-result", "confirm-requested"}
Endings == {"completed", "parked", "failed", "cancelled", "timed-out", "recovered", "commit-uncertain"}

ASSUME TurnAssumption ==
  /\ FactKinds \subseteq Kinds
  /\ Outcomes \subseteq Endings /\ Canonical \subseteq Endings \ {"parked", "commit-uncertain"}
  /\ Timeouts \in BOOLEAN /\ WakeRecovers \in BOOLEAN
  /\ MaxFacts \in Nat /\ MaxFaults \in Nat /\ MaxCrashes \in Nat /\ MaxReplays \in Nat

VARIABLES mem, row, faults, crashes, replays

vars == <<mem, row, faults, crashes, replays>>

None == "none"

\* isTerminalMessageStatus
Over(status) == status \in {"completed", "failed", "cancelled"}

\* The message status that stands for an outcome.
StatusOf(o) ==
  CASE o = "completed" -> "completed"
    [] o = "parked" -> "sent"
    [] o = "cancelled" -> "cancelled"
    [] OTHER -> "failed"

IsImmediate(kind) == kind \in {"tool-result", "confirm-requested"}
AllowedWhileFinishing(kind) == kind \in {"delta", "tool-result"}

Unfinished(r) == r.state \in {"configuring", "prepared", "executing"}

NoTimer == [kind |-> "none", version |-> 0, status |-> None]
LiveTimer == [NoTimer EXCEPT !.kind = "live"]

\* Nothing in memory of the turn.
Unknown == [known |-> FALSE, configuring |-> FALSE, status |-> None, version |-> 0, kept |-> None,
            execution |-> "none", finishing |-> None, terminal |-> None,
            timer |-> NoTimer, retries |-> 0, committed |-> -1, ckFailed |-> FALSE,
            recovered |-> FALSE, heard |-> FALSE, gap |-> FALSE]
NoRow == [state |-> "absent", version |-> 0, outcome |-> None, message |-> None, content |-> 0]

-----------------------------------------------------------------------------
(* The steps handlers are made of, on s = [m: memory, r: row, threw].      *)

\* updateTurnState: an unconditional UPDATE, and the message too if it still streams.
UpdateRow(r, state, v, o) ==
  [r EXCEPT !.state = state, !.version = v, !.outcome = IF o = None THEN @ ELSE o,
            !.message = IF state = "terminal" /\ @ = "streaming" THEN StatusOf(o) ELSE @]

Update(s, state, o, ok) ==
  IF ok THEN [s EXCEPT !.r = UpdateRow(@, state, s.m.version, o)] ELSE [s EXCEPT !.threw = TRUE]

\* Mutated form of Takes: a message that is final may be replaced.
TakesFinal(r, v) == r.version < v

\* checkpointTurnAtomically takes a newer version of a message that still streams.
Takes(r, v) == r.version < v /\ r.message = "streaming"

\* Mutated form of Retry: a message that is final is given up in silence.
RetryWhileLive(m) ==
  IF Over(m.status) \/ m.retries >= 3 \/ m.timer # NoTimer THEN m
  ELSE [m EXCEPT !.retries = @ + 1, !.timer = LiveTimer]

\* finishCheckpoint after a checkpoint was refused or threw.
Retry(m) ==
  IF Over(m.status)
  THEN IF m.retries >= 3 THEN [m EXCEPT !.ckFailed = TRUE]
       ELSE [m EXCEPT !.retries = @ + 1,
                      !.timer = [kind |-> "snapshot", version |-> m.version, status |-> m.status]]
  ELSE IF m.retries >= 3 \/ m.timer # NoTimer THEN m
       ELSE [m EXCEPT !.retries = @ + 1, !.timer = LiveTimer]

\* Mutated form of Persist: a checkpoint that was refused counts as committed.
PersistRefused(s, v, status, ok) ==
  LET told == [s EXCEPT !.m.committed = IF v > @ THEN v ELSE @, !.m.retries = 0, !.m.ckFailed = FALSE]
  IN  IF ok /\ Takes(s.r, v)
      THEN [told EXCEPT !.r.version = v, !.r.content = v, !.r.message = status]
      ELSE IF ok THEN told ELSE [s EXCEPT !.m = Retry(@)]

Persist(s, v, status, ok) ==
  IF ok /\ Takes(s.r, v)
  THEN [s EXCEPT !.r.version = v, !.r.content = v, !.r.message = status,
                 !.m.committed = IF v > @ THEN v ELSE @, !.m.retries = 0, !.m.ckFailed = FALSE]
  ELSE [s EXCEPT !.m = Retry(@)]

\* Mutated form of Flush: it only stops the timer.
FlushStopsTimer(s, ok) == [s EXCEPT !.m.timer = NoTimer]

\* flushCheckpoint
Flush(s, ok) == Persist([s EXCEPT !.m.timer = NoTimer], s.m.version, s.m.status, ok)

Schedule(s) == IF s.m.timer = NoTimer THEN [s EXCEPT !.m.timer = LiveTimer] ELSE s

\* consume, for a fact that is let through: `status` is what the reducer makes of it.
Consume(s, status, immediate, ok) ==
  LET next == [s EXCEPT !.m.status = status, !.m.version = @ + 1]
  IN  IF Over(s.m.status) THEN s
      ELSE IF immediate THEN Flush(next, ok) ELSE Schedule(next)

\* finalizeFinishing
Finalize(s, o, ok1, ok2) ==
  LET quiet == [s EXCEPT !.m.finishing = None]
      done == Update(Consume(quiet, StatusOf(o), TRUE, ok1), "terminal", o, ok2)
  IN  IF Over(s.m.status) THEN quiet
      ELSE IF done.threw THEN done ELSE [done EXCEPT !.m.terminal = o]

\* The terminal fact a source reports before it returns; it also unbinds the request.
Report(s, o, ok) ==
  LET unbound == [s EXCEPT !.m.heard = FALSE]
  IN  IF o = "recovered" THEN s
      ELSE IF s.m.finishing # None THEN unbound
      ELSE Consume(unbound, StatusOf(o), o # "parked", ok)

\* Mutated form of Rejected: a cancelled turn counts as failed.
RejectedFails(s, ok1, ok2) ==
  LET flushed == Flush([s EXCEPT !.m.status = "failed", !.threw = FALSE], ok1)
  IN  IF s.m.finishing # None THEN Finalize(s, s.m.finishing, ok1, ok2)
      ELSE Update([flushed EXCEPT !.m.terminal = "failed"], "terminal", "failed", ok2)

\* The rejection handler of execute.
Rejected(s, ok1, ok2) ==
  LET o == IF s.m.status = "cancelled" THEN "cancelled" ELSE "failed"
      flushed == Flush([s EXCEPT !.m.status = o, !.threw = FALSE], ok1)
  IN  IF s.m.finishing # None THEN Finalize(s, s.m.finishing, ok1, ok2)
      ELSE Update([flushed EXCEPT !.m.terminal = o], "terminal", o, ok2)

\* Mutated form of Fulfilled: the row is written though a window has settled the turn.
FulfilledTwice(s, o, ok1, ok2) ==
  LET settled == IF Over(s.m.status) THEN s ELSE Flush([s EXCEPT !.m.status = StatusOf(o)], ok1)
      told == IF s.m.terminal # None THEN settled ELSE [settled EXCEPT !.m.terminal = o]
  IN  IF s.m.finishing # None THEN Finalize(s, s.m.finishing, ok1, ok2)
      ELSE Update(told, "terminal", o, ok2)

\* The fulfilment handler of execute, but for what its writes throw.
Fulfilled(s, o, ok1, ok2) ==
  LET already == Over(s.m.status)
      settled == IF already THEN s ELSE Flush([s EXCEPT !.m.status = StatusOf(o)], ok1)
      accepted == IF s.m.terminal # None THEN s.m.terminal
                  ELSE IF already /\ s.m.status = "completed" THEN "completed" ELSE o
      told == [settled EXCEPT !.m.terminal = accepted]
  IN  IF s.m.finishing # None THEN Finalize(s, s.m.finishing, ok1, ok2)
      ELSE IF s.m.terminal # None THEN told
      ELSE Update(told, "terminal", accepted, ok2)

\* executeWithSource reports a failure before it lets the source's error through.
ReportFailure(s, ok) ==
  IF s.m.finishing # None THEN s ELSE Consume(s, "failed", TRUE, ok)

-----------------------------------------------------------------------------
Here(t) == [m |-> mem[t], r |-> row[t], threw |-> FALSE]

\* The ways in which some of the n writes of a handler may fail.
Failing(n) == {F \in SUBSET (1..n) : faults + Cardinality(F) <= MaxFaults}

\* Turn t comes out of a handler as s, of whose writes F failed.
Leave(t, s, F) ==
  /\ faults' = faults + Cardinality(F)
  /\ mem' = [mem EXCEPT ![t] = s.m]
  /\ row' = [row EXCEPT ![t] = s.r]
  /\ UNCHANGED <<crashes, replays>>

\* Mutated form of Busy: a turn that is still configured does not count.
BusyElsewhere(s) == \E u \in Turns : SessionOf[u] = s /\ row[u].state \in {"prepared", "executing"}

Busy(s) == \E u \in Turns : SessionOf[u] = s /\ Unfinished(row[u])

\* prepare of a new request: desktop turns are configured afterwards, the others are not.
Prepare(t, state) ==
  /\ row[t] = NoRow /\ ~Busy(SessionOf[t])
  /\ Leave(t, [m |-> [mem[t] EXCEPT !.known = TRUE, !.status = "streaming", !.configuring = state = "configuring"],
               r |-> [NoRow EXCEPT !.state = state, !.message = "streaming"]], {})

\* prepare of a request the database knows: what is stored takes the place of what is in memory.
Replay(t) ==
  /\ row[t] # NoRow
  /\ replays < MaxReplays
  /\ replays' = replays + 1
  /\ mem' = [mem EXCEPT ![t].known = TRUE, ![t].status = row[t].message, ![t].version = row[t].version,
                        ![t].kept = row[t].outcome, ![t].gap = mem[t].heard]
  /\ UNCHANGED <<row, faults, crashes>>

\* setPersistedTurnExecutionConfig
Configured(t) ==
  /\ mem[t].configuring /\ row[t].state = "configuring"
  /\ Leave(t, [m |-> [mem[t] EXCEPT !.configuring = FALSE], r |-> [row[t] EXCEPT !.state = "prepared"]], {})

\* failConfiguringTurn, after the failure was consumed.
ConfigurationFails(t) ==
  \E F \in Failing(2) :
    LET s == Consume(Here(t), "failed", TRUE, 1 \notin F)
        failed == UpdateRow(s.r, "terminal", s.m.version, "failed")
    IN  /\ mem[t].configuring
        /\ Leave(t, [m |-> [s.m EXCEPT !.configuring = FALSE],
                     r |-> IF s.r.state = "configuring" /\ 2 \notin F THEN failed ELSE s.r], F)

\* Mutated form of Execute: the submission does not look at the row.
ExecuteUnchecked(t) ==
  \E F \in Failing(1) :
    LET s == Update(Here(t), "executing", None, 1 \notin F)
    IN  /\ mem[t].known /\ mem[t].kept = None /\ mem[t].execution = "none"
        /\ Leave(t, IF s.threw THEN s ELSE [s EXCEPT !.m.execution = "running"], F)

\* execute: the submission looks at the row, the coordinator at memory.
Execute(t) ==
  \E F \in Failing(1) :
    LET s == Update(Here(t), "executing", None, 1 \notin F)
    IN  /\ mem[t].known /\ row[t].state \in {"prepared", "executing"}
        /\ mem[t].kept = None /\ mem[t].execution = "none"
        /\ Leave(t, IF s.threw THEN s ELSE [s EXCEPT !.m.execution = "running"], F)

\* A fact on the way, through consumeForRequest and consume.
Fact(t, kind) ==
  \E F \in Failing(1) :
    LET m == mem[t]
        dropped == m.finishing # None /\ ~AllowedWhileFinishing(kind)
        s == [Here(t) EXCEPT !.m.heard = TRUE]
    IN  /\ m.execution = "running" /\ m.version < MaxFacts
        /\ ~Over(m.status) /\ ~m.gap
        /\ Leave(t, IF dropped THEN s ELSE Consume(s, m.status, IsImmediate(kind), 1 \notin F), F)

\* The facts of a source that a replay has left behind are refused: it cannot report an outcome.
CanReport(m, o) == o = "recovered" \/ Over(m.status) \/ ~m.gap

SourceReturns(t, o) ==
  \E F \in Failing(5) :
    LET s == Fulfilled(Report(Here(t), o, 1 \notin F), o, 2 \notin F, 3 \notin F)
        caught == IF s.threw THEN Rejected(s, 4 \notin F, 5 \notin F) ELSE s
    IN  /\ mem[t].execution = "running"
        /\ CanReport(mem[t], o)
        /\ Leave(t, [caught EXCEPT !.m.execution = "settled"], F)

SourceRejects(t) ==
  \E F \in Failing(3) :
    LET s == Rejected(ReportFailure(Here(t), 1 \notin F), 2 \notin F, 3 \notin F)
    IN  /\ mem[t].execution = "running"
        /\ Leave(t, [s EXCEPT !.m.execution = "settled"], F)

\* cancel and timeout; a turn that is configuring is aborted as well.
Stop(t, o) ==
  \E F \in Failing(2) :
    LET s == [Here(t) EXCEPT !.m.configuring = FALSE]
    IN  /\ mem[t].known /\ ~Over(mem[t].status) /\ mem[t].finishing = None
        /\ Leave(t, IF mem[t].execution # "none" THEN [s EXCEPT !.m.finishing = o]
                    ELSE Finalize(s, o, 1 \notin F, 2 \notin F), F)

Cancel(t) == Stop(t, "cancelled")
Timeout(t) == Timeouts /\ Stop(t, "timed-out")

\* Mutated form of FinishWindow: it waits for the source.
FinishSettled(t) ==
  \E F \in Failing(2) :
    /\ mem[t].finishing # None /\ mem[t].execution = "settled"
    /\ Leave(t, Finalize(Here(t), mem[t].finishing, 1 \notin F, 2 \notin F), F)

\* The finishing window (5 s) has passed.
FinishWindow(t) ==
  \E F \in Failing(2) :
    /\ mem[t].finishing # None
    /\ Leave(t, Finalize(Here(t), mem[t].finishing, 1 \notin F, 2 \notin F), F)

\* The timer of the next checkpoint (2 s), or of the next attempt (100 ms).
CheckpointTimer(t) ==
  \E F \in Failing(1) :
    LET m == mem[t]
        s == [Here(t) EXCEPT !.m.timer = NoTimer]
    IN  /\ m.timer # NoTimer
        /\ Leave(t, IF m.timer.kind = "live" THEN Persist(s, m.version, m.status, 1 \notin F)
                    ELSE Persist(s, m.timer.version, m.timer.status, 1 \notin F), F)

-----------------------------------------------------------------------------
(* Recovery.                                                               *)

\* recoverPersistedTurn wants an active row whose message streams or failed.
Recoverable(t) ==
  Unfinished(row[t]) /\ ~mem[t].recovered /\ row[t].message \in {"streaming", "failed"}

\* Mutated form of RecoverRow: the message is left as it was.
RecoverRowOnly(r, o) == [r EXCEPT !.state = "terminal", !.outcome = o, !.version = @ + 1]

RecoverRow(r, o) ==
  [r EXCEPT !.state = "terminal", !.outcome = o, !.version = @ + 1, !.message = StatusOf(o)]

RecoverMemory(m, o) ==
  IF m.known THEN [m EXCEPT !.recovered = TRUE, !.status = StatusOf(o), !.version = @ + 1,
                            !.kept = o, !.terminal = o]
  ELSE [m EXCEPT !.recovered = TRUE]

\* The outcome that recovery writes: only a turn that was started has one in History.
Outcome(t) == IF row[t].state = "executing" THEN Canonical ELSE {"recovered"}

\* recover over the turns in S.
Recover(S) ==
  LET found == {t \in S : Recoverable(t)}
  IN  \E o \in [found -> Canonical \cup {"recovered"}] :
        /\ found # {} /\ \A t \in found : o[t] \in Outcome(t)
        /\ mem' = [t \in Turns |-> IF t \in found THEN RecoverMemory(mem[t], o[t]) ELSE mem[t]]
        /\ row' = [t \in Turns |-> IF t \in found THEN RecoverRow(row[t], o[t]) ELSE row[t]]
        /\ UNCHANGED <<faults, crashes, replays>>

OfSession(s) == {t \in Turns : SessionOf[t] = s}

\* A session is read: it is recovered if nothing of it is active or running.
RecoverOnAccess(s) ==
  /\ \A t \in OfSession(s) : /\ mem[t].known => Over(mem[t].status)
                             /\ mem[t].execution # "running"
  /\ Recover(OfSession(s))

\* An IM wake finds the prior turn of its session unfinished, and recovers without a scope.
RecoverOnWake(t) ==
  /\ WakeRecovers
  /\ Unfinished(row[t]) /\ mem[t].execution # "running"
  /\ Recover(Turns)

\* The process dies; the database stays.
Crash ==
  /\ crashes < MaxCrashes
  /\ crashes' = crashes + 1
  /\ mem' = [t \in Turns |-> Unknown]
  /\ UNCHANGED <<row, faults, replays>>

\* Every turn is over.
Rest == (\A t \in Turns : row[t].state = "terminal") /\ UNCHANGED vars

-----------------------------------------------------------------------------
Init ==
  /\ mem = [t \in Turns |-> Unknown]
  /\ row = [t \in Turns |-> NoRow]
  /\ faults = 0 /\ crashes = 0 /\ replays = 0

Next ==
  \/ \E t \in Turns :
       \/ \E state \in {"configuring", "prepared"} : Prepare(t, state)
       \/ Replay(t) \/ Configured(t) \/ ConfigurationFails(t) \/ Execute(t)
       \/ \E kind \in FactKinds : Fact(t, kind)
       \/ \E o \in Outcomes : SourceReturns(t, o)
       \/ SourceRejects(t) \/ Cancel(t) \/ Timeout(t)
       \/ FinishWindow(t) \/ CheckpointTimer(t)
       \/ RecoverOnWake(t)
  \/ \E s \in {SessionOf[t] : t \in Turns} : RecoverOnAccess(s)
  \/ Crash
  \/ Rest

Spec == Init /\ [][Next]_vars

\* setTimeout callbacks run; nothing else has to happen.
FairSpec == Spec /\ \A t \in Turns : WF_vars(FinishWindow(t)) /\ WF_vars(CheckpointTimer(t))

-----------------------------------------------------------------------------
Statuses == {None, "streaming", "sent", "completed", "failed", "cancelled"}
TimerType == [kind : {"none", "live", "snapshot"}, version : Nat, status : Statuses]
MemType ==
  [known : BOOLEAN, configuring : BOOLEAN, status : Statuses, version : Nat, kept : Endings \cup {None},
   execution : {"none", "running", "settled"}, finishing : {None, "cancelled", "timed-out"},
   terminal : Endings \cup {None}, timer : TimerType, retries : 0..3, committed : Nat \cup {-1},
   ckFailed : BOOLEAN, recovered : BOOLEAN, heard : BOOLEAN, gap : BOOLEAN]
RowType ==
  [state : {"absent", "configuring", "prepared", "executing", "terminal"}, version : Nat,
   outcome : Endings \cup {None}, message : Statuses, content : Nat]

TypeOK ==
  /\ mem \in [Turns -> MemType]
  /\ row \in [Turns -> RowType]
  /\ faults \in 0..MaxFaults /\ crashes \in 0..MaxCrashes /\ replays \in 0..MaxReplays

\* A session never has two unfinished turns: prepare refuses the second with
\* SESSION_TURN_BUSY, and no late handler of an ended turn reopens its row.
OneAtATime == \A t, u \in Turns :
  SessionOf[t] = SessionOf[u] /\ Unfinished(row[t]) /\ Unfinished(row[u]) => t = u

\* A turn is begun when its session has none open, ends once, and the outcome
\* written for it stands, whichever of the source, the finishing window,
\* the failure of configuration and recovery come to write one, and in
\* whatever order: updatePersistedTurnState itself overwrites without looking.
Promise == INSTANCE TurnPromise WITH
  phase <- [t \in Turns |-> IF row[t] = NoRow THEN "unknown" ELSE IF Unfinished(row[t]) THEN "open" ELSE "over"],
  ending <- [t \in Turns |-> row[t].outcome]
KeepsPromise == Promise!Spec

\* A cancel that was accepted stands while the process lives: the window it
\* opened ends in a cancelled message, and no late answer of the source, no
\* rejection and no recovery makes something else of it.
CancelStands == [][\A t \in Turns : mem'[t].known =>
  /\ mem[t].status = "cancelled" => mem'[t].status = "cancelled"
  /\ mem[t].finishing = "cancelled" => mem'[t].finishing = "cancelled" \/ mem'[t].status = "cancelled"]_vars

\* The outcome the coordinator tells of a turn (getTerminalEvent) is the one in
\* the database, and the message shows it, though the message is written by
\* checkpoints and the outcome by updateTurnState.
Agree == \A t \in Turns : row[t].state = "terminal" =>
  /\ mem[t].terminal # None => row[t].outcome = mem[t].terminal
  /\ row[t].message = StatusOf(row[t].outcome)

\* What is stored never goes back: no late checkpoint replaces a newer one, and
\* a message that was stored as completed or cancelled keeps that status, across
\* crashes, retries and recovery.
StoredGrows == [][\A t \in Turns :
  /\ row'[t].version >= row[t].version /\ row'[t].content >= row[t].content
  /\ row[t].message \in {"completed", "cancelled"} => row'[t].message = row[t].message]_vars

\* What getCheckpointStatus tells is so: a version counted as committed is in the
\* database, and a message that became final in memory is there with all its
\* facts, or is to be written again, or the failure shows.
NothingLost == \A t \in Turns :
  /\ mem[t].known => mem[t].committed <= row[t].content
  /\ Over(mem[t].status) /\ mem[t].timer = NoTimer /\ ~mem[t].ckFailed /\ mem[t].kept = None
       => row[t].content = mem[t].version

\* If no write fails, every fact taken into memory is stored at last, unless the
\* process dies, recovery ends the turn, or a replay has put the stored version
\* back: the next timer or the next flush brings
\* it, whatever is refused in between.
FactsStored == \A t \in Turns : \A v \in 1..MaxFacts + 1 :
  (mem[t].version = v) ~> (row[t].content >= v \/ ~mem[t].known \/ mem[t].kept # None \/ replays > 0)

\* A turn that was stopped ends: its row is terminal after the window, whatever
\* its source does or does not do, unless the process dies.
StoppedSettles == \A t \in Turns : (mem[t].finishing # None) ~> (~mem[t].known \/ ~Unfinished(row[t]))
=============================================================================
