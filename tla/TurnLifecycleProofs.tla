------------------------ MODULE TurnLifecycleProofs ------------------------
(***************************************************************************)
(* What holds of the turns of TurnLifecycle for any turns, sessions,       *)
(* facts, outcomes and bounds.                                             *)
(*                                                                         *)
(* A session has at most one unfinished turn: of all that happens to a     *)
(* turn only prepare makes a row unfinished, and prepare refuses a session *)
(* that has one. As handlers are compositions of steps, each step has a    *)
(* lemma that it keeps types and reopens no row.                           *)
(*                                                                         *)
(* The other properties rest on what a handler does to one turn, stated    *)
(* once as relations of the turn before and after (Moved, Begins), and on  *)
(* an invariant of one turn each: Sound, that a row holds what its numbers *)
(* say (StoredOnlyGrows, NothingIsLost); Whole and Stands, that an ended   *)
(* turn stays ended (PromiseIsKept); Even, that memory, row and message    *)
(* tell one end (AllAgree, CancelsStand).                                  *)
(***************************************************************************)
EXTENDS TurnLifecycle, FiniteSetTheorems, TLAPS

StateType == [m : MemType, r : RowType, threw : BOOLEAN]

\* s is a state of a handler that has reopened nothing of the row it began with.
Fine(s, began) == s \in StateType /\ (Unfinished(s.r) => Unfinished(began))

TurnInv == TypeOK /\ OneAtATime

\* Every outcome has a status.
LEMMA StatusOfType == \A o : StatusOf(o) \in {"completed", "sent", "cancelled", "failed"}
  BY DEF StatusOf

\* Timers are what Retry and Schedule set.
LEMMA TimerTypes == NoTimer \in TimerType /\ LiveTimer \in TimerType
  BY DEF NoTimer, LiveTimer, TimerType, Statuses, None

\* A retry keeps the type of the memory.
LEMMA RetryType ==
  ASSUME NEW m \in MemType
  PROVE  Retry(m) \in MemType
<1>1. CASE Over(m.status) /\ m.retries >= 3
  BY <1>1 DEF Retry, MemType
<1>2. CASE Over(m.status) /\ ~(m.retries >= 3)
  <2> DEFINE again == [kind |-> "snapshot", version |-> m.version, status |-> m.status]
  <2>1. again \in TimerType
    BY DEF MemType, TimerType
  <2>2. m.retries + 1 \in 0..3
    BY <1>2 DEF MemType
  <2>3. Retry(m) = [m EXCEPT !.retries = m.retries + 1, !.timer = again]
    BY <1>2 DEF Retry
  <2> HIDE DEF again
  <2> QED BY <2>1, <2>2, <2>3 DEF MemType
<1>3. CASE ~Over(m.status)
  <2>1. CASE m.retries >= 3 \/ m.timer # NoTimer
    BY <1>3, <2>1 DEF Retry
  <2>2. CASE ~(m.retries >= 3 \/ m.timer # NoTimer)
    <3>1. m.retries + 1 \in 0..3
      BY <2>2 DEF MemType
    <3> QED BY <1>3, <2>2, <3>1, TimerTypes DEF Retry, MemType
  <2> QED BY <2>1, <2>2
<1> QED BY <1>1, <1>2, <1>3

\* Persist keeps a state fine,
LEMMA PersistFine ==
  ASSUME NEW s, NEW began, Fine(s, began), NEW v \in Nat, NEW status \in Statuses, NEW ok
  PROVE  Fine(Persist(s, v, status, ok), began)
<1>1. CASE ok /\ Takes(s.r, v)
  <2> DEFINE c == IF v > s.m.committed THEN v ELSE s.m.committed
             m == [s.m EXCEPT !.committed = c, !.retries = 0, !.ckFailed = FALSE]
             r == [s.r EXCEPT !.version = v, !.content = v, !.message = status]
  <2>1. c \in Nat \cup {-1}
    BY DEF Fine, StateType, MemType
  <2>2. m \in MemType
    <3>1. s.m \in MemType
      BY DEF Fine, StateType
    <3>2. 0 \in 0..3 /\ FALSE \in BOOLEAN
      OBVIOUS
    <3> HIDE DEF c
    <3> QED BY <2>1, <3>1, <3>2 DEF MemType
  <2>3. r \in RowType /\ (Unfinished(r) => Unfinished(s.r))
    BY DEF Fine, StateType, RowType, Unfinished
  <2>4. Persist(s, v, status, ok) = [m |-> m, r |-> r, threw |-> s.threw]
    BY <1>1 DEF Persist, Fine, StateType
  <2> HIDE DEF m, r
  <2> QED BY <2>2, <2>3, <2>4 DEF Fine, StateType
<1>2. CASE ~(ok /\ Takes(s.r, v))
  <2>1. Retry(s.m) \in MemType
    BY RetryType DEF Fine, StateType
  <2>2. Persist(s, v, status, ok) = [s EXCEPT !.m = Retry(s.m)]
    BY <1>2 DEF Persist
  <2> QED BY <2>1, <2>2 DEF Fine, StateType
<1> QED BY <1>1, <1>2

\* A handler that changes memory alone.
LEMMA MemoryFine ==
  ASSUME NEW s, NEW began, Fine(s, began), NEW m \in MemType
  PROVE  Fine([s EXCEPT !.m = m], began)
  BY DEF Fine, StateType

\* flushCheckpoint does,
LEMMA FlushFine ==
  ASSUME NEW s, NEW began, Fine(s, began), NEW ok
  PROVE  Fine(Flush(s, ok), began)
<1> DEFINE m == [s.m EXCEPT !.timer = NoTimer]
           quiet == [s EXCEPT !.m = m]
<1>1. m \in MemType /\ s.m.version \in Nat /\ s.m.status \in Statuses
  BY TimerTypes DEF Fine, StateType, MemType
<1>2. Fine(quiet, began)
  BY <1>1, MemoryFine
<1>3. Flush(s, ok) = Persist(quiet, s.m.version, s.m.status, ok)
  BY DEF Flush, Fine, StateType
<1> QED BY <1>1, <1>2, <1>3, PersistFine

\* scheduling a checkpoint does,
LEMMA ScheduleFine ==
  ASSUME NEW s, NEW began, Fine(s, began)
  PROVE  Fine(Schedule(s), began)
<1>1. CASE s.m.timer = NoTimer
  <2>1. [s.m EXCEPT !.timer = LiveTimer] \in MemType
    BY TimerTypes DEF Fine, StateType, MemType
  <2>2. Schedule(s) = [s EXCEPT !.m = [s.m EXCEPT !.timer = LiveTimer]]
    BY <1>1 DEF Schedule, Fine, StateType
  <2> QED BY <2>1, <2>2, MemoryFine
<1>2. CASE s.m.timer # NoTimer
  BY <1>2 DEF Schedule
<1> QED BY <1>1, <1>2

\* taking an event in does,
LEMMA ConsumeFine ==
  ASSUME NEW s, NEW began, Fine(s, began), NEW status \in Statuses, NEW immediate, NEW ok
  PROVE  Fine(Consume(s, status, immediate, ok), began)
<1> DEFINE m == [s.m EXCEPT !.status = status, !.version = s.m.version + 1]
           next == [s EXCEPT !.m = m]
<1>1. m \in MemType
  <2>1. s.m \in MemType
    BY DEF Fine, StateType
  <2>2. s.m.version + 1 \in Nat
    BY <2>1 DEF MemType
  <2> QED BY <2>1, <2>2 DEF MemType
<1>2. Fine(next, began)
  BY <1>1, MemoryFine
<1>3. Consume(s, status, immediate, ok) =
        IF Over(s.m.status) THEN s ELSE IF immediate THEN Flush(next, ok) ELSE Schedule(next)
  BY DEF Consume, Fine, StateType
<1> QED BY <1>2, <1>3, FlushFine, ScheduleFine

\* updateTurnState with an outcome.
LEMMA UpdateFine ==
  ASSUME NEW s, NEW began, Fine(s, began), NEW o \in Endings, NEW ok
  PROVE  Fine(Update(s, "terminal", o, ok), began)
<1>1. CASE ok
  <2> DEFINE r == UpdateRow(s.r, "terminal", s.m.version, o)
  <2>1. r \in RowType
    BY StatusOfType DEF UpdateRow, Fine, StateType, MemType, RowType, Statuses, Endings, None
  <2>2. ~Unfinished(r)
    BY DEF UpdateRow, Fine, StateType, RowType, Unfinished
  <2>3. Update(s, "terminal", o, ok) = [s EXCEPT !.r = r]
    BY <1>1 DEF Update
  <2> HIDE DEF r
  <2> QED BY <2>1, <2>2, <2>3 DEF Fine, StateType
<1>2. CASE ~ok
  BY <1>2 DEF Update, Fine, StateType
<1> QED BY <1>1, <1>2

\* the end of a stop does,
LEMMA FinalizeFine ==
  ASSUME NEW s, NEW began, Fine(s, began), NEW o \in Endings, NEW ok1, NEW ok2
  PROVE  Fine(Finalize(s, o, ok1, ok2), began)
<1> DEFINE m == [s.m EXCEPT !.finishing = None]
           quiet == [s EXCEPT !.m = m]
           consumed == Consume(quiet, StatusOf(o), TRUE, ok1)
           done == Update(consumed, "terminal", o, ok2)
<1>1. m \in MemType
  BY DEF Fine, StateType, MemType
<1>2. Fine(quiet, began)
  BY <1>1, MemoryFine
<1>3. Fine(done, began)
  BY <1>2, StatusOfType, ConsumeFine, UpdateFine DEF Statuses
<1>4. [done.m EXCEPT !.terminal = o] \in MemType
  BY <1>3 DEF Fine, StateType, MemType
<1>5. Fine([done EXCEPT !.m = [done.m EXCEPT !.terminal = o]], began)
  BY <1>3, <1>4, MemoryFine
<1>6. Finalize(s, o, ok1, ok2) =
        IF Over(s.m.status) THEN quiet
        ELSE IF done.threw THEN done ELSE [done EXCEPT !.m = [done.m EXCEPT !.terminal = o]]
  BY DEF Finalize, Fine, StateType
<1> QED BY <1>2, <1>3, <1>5, <1>6

\* a report does,
LEMMA ReportFine ==
  ASSUME NEW s, NEW began, Fine(s, began), NEW o \in Endings, NEW ok
  PROVE  Fine(Report(s, o, ok), began)
<1> DEFINE m == [s.m EXCEPT !.heard = FALSE]
           unbound == [s EXCEPT !.m = m]
<1>1. m \in MemType
  BY DEF Fine, StateType, MemType
<1>2. Fine(unbound, began)
  BY <1>1, MemoryFine
<1>3. Fine(Consume(unbound, StatusOf(o), o # "parked", ok), began)
  BY <1>2, StatusOfType, ConsumeFine DEF Statuses
<1>4. Report(s, o, ok) = IF o = "recovered" THEN s ELSE IF s.m.finishing # None THEN unbound
                         ELSE Consume(unbound, StatusOf(o), o # "parked", ok)
  BY DEF Report, Fine, StateType
<1> QED BY <1>2, <1>3, <1>4

\* the end of a source that throws does,
LEMMA RejectedFine ==
  ASSUME NEW s, NEW began, Fine(s, began), NEW ok1, NEW ok2
  PROVE  Fine(Rejected(s, ok1, ok2), began)
<1> DEFINE o == IF s.m.status = "cancelled" THEN "cancelled" ELSE "failed"
           failed == [s EXCEPT !.m.status = o, !.threw = FALSE]
           flushed == Flush(failed, ok1)
           told == [flushed EXCEPT !.m.terminal = o]
<1>1. o \in Endings \cap Statuses
  BY DEF Endings, Statuses
<1>2. s.m.finishing \in Endings \cup {None}
  BY DEF Fine, StateType, MemType, Endings
<1>3. Fine(failed, began)
  <2>1. s.m \in MemType
    BY DEF Fine, StateType
  <2> HIDE DEF o
  <2>2. [s.m EXCEPT !.status = o] \in MemType
    BY <1>1, <2>1 DEF MemType
  <2> DEFINE renamed == [s EXCEPT !.m = [s.m EXCEPT !.status = o]]
  <2>3. Fine(renamed, began)
    BY <2>2, MemoryFine
  <2>4. failed = [renamed EXCEPT !.threw = FALSE]
    BY DEF Fine, StateType
  <2> HIDE DEF renamed
  <2>5. Fine([renamed EXCEPT !.threw = FALSE], began)
    BY <2>3 DEF Fine, StateType
  <2> QED BY <2>4, <2>5
<1>4. Fine(flushed, began)
  BY <1>3, FlushFine
<1>5. Fine(told, began)
  <2>1. [flushed.m EXCEPT !.terminal = o] \in MemType
    BY <1>1, <1>4 DEF Fine, StateType, MemType
  <2>2. told = [flushed EXCEPT !.m = [flushed.m EXCEPT !.terminal = o]]
    BY <1>4 DEF Fine, StateType
  <2> QED BY <1>4, <2>1, <2>2, MemoryFine
<1>6. Rejected(s, ok1, ok2) = IF s.m.finishing # None THEN Finalize(s, s.m.finishing, ok1, ok2)
                              ELSE Update(told, "terminal", o, ok2)
  BY DEF Rejected
<1> HIDE DEF told, o
<1> QED BY <1>1, <1>2, <1>5, <1>6, FinalizeFine, UpdateFine

\* that of a source that returns does,
LEMMA FulfilledFine ==
  ASSUME NEW s, NEW began, Fine(s, began), NEW o \in Endings, NEW ok1, NEW ok2
  PROVE  Fine(Fulfilled(s, o, ok1, ok2), began)
<1> DEFINE already == Over(s.m.status)
           final == [s EXCEPT !.m.status = StatusOf(o)]
           settled == IF already THEN s ELSE Flush(final, ok1)
           accepted == IF s.m.terminal # None THEN s.m.terminal
                       ELSE IF already /\ s.m.status = "completed" THEN "completed" ELSE o
           told == [settled EXCEPT !.m.terminal = accepted]
<1>1. accepted \in Endings
  BY DEF Fine, StateType, MemType, Endings
<1>2. s.m.finishing \in Endings \cup {None}
  BY DEF Fine, StateType, MemType, Endings
<1>3. Fine(final, began)
  <2>1. [s.m EXCEPT !.status = StatusOf(o)] \in MemType
    BY StatusOfType DEF Fine, StateType, MemType, Statuses
  <2>2. final = [s EXCEPT !.m = [s.m EXCEPT !.status = StatusOf(o)]]
    BY DEF Fine, StateType
  <2> QED BY <2>1, <2>2, MemoryFine
<1>4. Fine(settled, began)
  BY <1>3, FlushFine
<1>5. Fine(told, began)
  <2> HIDE DEF settled, accepted
  <2>1. [settled.m EXCEPT !.terminal = accepted] \in MemType
    BY <1>1, <1>4 DEF Fine, StateType, MemType
  <2>2. told = [settled EXCEPT !.m = [settled.m EXCEPT !.terminal = accepted]]
    BY <1>4 DEF Fine, StateType
  <2> QED BY <1>4, <2>1, <2>2, MemoryFine
<1>6. Fulfilled(s, o, ok1, ok2) =
        IF s.m.finishing # None THEN Finalize(s, s.m.finishing, ok1, ok2)
        ELSE IF s.m.terminal # None THEN told
        ELSE Update(told, "terminal", accepted, ok2)
  BY DEF Fulfilled
<1> HIDE DEF told, accepted
<1> QED BY <1>1, <1>2, <1>5, <1>6, FinalizeFine, UpdateFine

\* and the report of a failure does.
LEMMA ReportFailureFine ==
  ASSUME NEW s, NEW began, Fine(s, began), NEW ok
  PROVE  Fine(ReportFailure(s, ok), began)
  BY ConsumeFine DEF ReportFailure, Statuses

-----------------------------------------------------------------------------
\* No row becomes unfinished in the step.
ReopensNone == \A u \in Turns : Unfinished(row'[u]) => Unfinished(row[u])

\* A turn is fine before a step.
LEMMA HereFine ==
  ASSUME TypeOK, NEW t \in Turns
  PROVE  Fine(Here(t), row[t]) /\ Here(t).m = mem[t] /\ mem[t] \in MemType /\ row[t] \in RowType
  BY DEF TypeOK, Here, Fine, StateType

\* A turn left with a well-typed state keeps the types; the others are left alone.
LEMMA LeaveTypes ==
  ASSUME TypeOK, NEW t \in Turns, NEW n \in Nat, NEW F \in Failing(n),
         NEW s \in StateType, Leave(t, s, F)
  PROVE  TypeOK' /\ row'[t] = s.r /\ \A u \in Turns \ {t} : row'[u] = row[u]
<1>1. s.m \in MemType /\ s.r \in RowType
  BY DEF StateType
<1>2. mem' \in [Turns -> MemType] /\ row' \in [Turns -> RowType]
  BY <1>1 DEF Leave, TypeOK
<1>3. Cardinality(F) \in Nat
  <2>1. IsFiniteSet(1..n) /\ F \in SUBSET (1..n)
    BY FS_Interval DEF Failing
  <2>2. IsFiniteSet(F)
    BY <2>1, FS_Subset
  <2> QED BY <2>2, FS_CardinalityType
<1>4. faults' \in 0..MaxFaults
  BY <1>3, TurnAssumption DEF Leave, Failing, TypeOK
<1>5. row'[t] = s.r /\ \A u \in Turns \ {t} : row'[u] = row[u]
  BY DEF Leave, TypeOK
<1> QED BY <1>2, <1>4, <1>5 DEF Leave, TypeOK

\* A step that leaves its turn fine keeps the types and opens no row again.
LEMMA LeaveKeeps ==
  ASSUME TypeOK, NEW t \in Turns, NEW n \in Nat, NEW F \in Failing(n),
         NEW s, Fine(s, row[t]), Leave(t, s, F)
  PROVE  TypeOK' /\ ReopensNone
<1>1. s \in StateType /\ (Unfinished(s.r) => Unfinished(row[t]))
  BY DEF Fine
<1>2. TypeOK' /\ row'[t] = s.r /\ \A u \in Turns \ {t} : row'[u] = row[u]
  BY <1>1, LeaveTypes
<1> QED BY <1>1, <1>2 DEF ReopensNone

\* prepare opens a row in a session that has none open.
LEMMA PrepareKeeps ==
  ASSUME TurnInv, NEW t \in Turns, NEW state \in {"configuring", "prepared"}, Prepare(t, state)
  PROVE  TurnInv'
<1> DEFINE m == [mem[t] EXCEPT !.known = TRUE, !.status = "streaming", !.configuring = state = "configuring"]
           r == [NoRow EXCEPT !.state = state, !.message = "streaming"]
           s == [m |-> m, r |-> r, threw |-> FALSE]
<1>1. {} \in Failing(0)
  BY FS_EmptySet, TurnAssumption DEF Failing, TurnInv, TypeOK
<1>2. m \in MemType
  <2>1. mem[t] \in MemType /\ (state = "configuring") \in BOOLEAN
    BY DEF TurnInv, TypeOK
  <2> QED BY <2>1 DEF MemType, Statuses
<1>3. r \in RowType
  BY DEF NoRow, RowType, Statuses, None
<1>4. Leave(t, s, {})
  BY DEF Prepare, Leave
<1>5. s \in StateType
  BY <1>2, <1>3 DEF StateType
<1>6. TypeOK' /\ \A u \in Turns \ {t} : row'[u] = row[u]
  <2> HIDE DEF s
  <2> QED BY <1>1, <1>4, <1>5, LeaveTypes DEF TurnInv
<1>7. \A u \in Turns : SessionOf[u] = SessionOf[t] => ~Unfinished(row[u])
  BY DEF Prepare, Busy
<1> QED BY <1>6, <1>7 DEF TurnInv, OneAtATime

\* A replayed request keeps the types and opens no row again.
LEMMA ReplayKeeps ==
  ASSUME TypeOK, NEW t \in Turns, Replay(t)
  PROVE  TypeOK' /\ ReopensNone
<1>1. mem[t] \in MemType /\ row[t] \in RowType
  BY DEF TypeOK
<1>2. [mem[t] EXCEPT !.known = TRUE, !.status = row[t].message, !.version = row[t].version,
                     !.kept = row[t].outcome, !.gap = mem[t].heard] \in MemType
  BY <1>1 DEF MemType, RowType
<1>3. mem' \in [Turns -> MemType]
  BY <1>2 DEF Replay, TypeOK
<1>4. replays' \in 0..MaxReplays
  BY TurnAssumption DEF Replay, TypeOK
<1> QED BY <1>3, <1>4 DEF Replay, TypeOK, ReopensNone

\* A configuration that ends keeps the types and opens no row again.
LEMMA ConfiguredKeeps ==
  ASSUME TypeOK, NEW t \in Turns, Configured(t)
  PROVE  TypeOK' /\ ReopensNone
<1> DEFINE s == [m |-> [mem[t] EXCEPT !.configuring = FALSE], r |-> [row[t] EXCEPT !.state = "prepared"],
                 threw |-> FALSE]
<1>1. {} \in Failing(0)
  BY FS_EmptySet, TurnAssumption DEF Failing, TypeOK
<1>2. mem[t] \in MemType /\ row[t] \in RowType
  BY DEF TypeOK
<1>3. Fine(s, row[t])
  <2>1. s.m \in MemType
    BY <1>2 DEF MemType
  <2>2. s.r \in RowType
    BY <1>2 DEF RowType
  <2>3. Unfinished(row[t])
    BY DEF Configured, Unfinished
  <2> QED BY <2>1, <2>2, <2>3 DEF Fine, StateType
<1>4. Leave(t, s, {})
  BY DEF Configured, Leave
<1> HIDE DEF s
<1> QED BY <1>1, <1>3, <1>4, LeaveKeeps

\* One that fails keeps the types and opens no row again.
LEMMA ConfigurationFailsKeeps ==
  ASSUME TypeOK, NEW t \in Turns, ConfigurationFails(t)
  PROVE  TypeOK' /\ ReopensNone
<1>1. PICK F \in Failing(2) :
        LET s == Consume(Here(t), "failed", TRUE, 1 \notin F)
            failed == UpdateRow(s.r, "terminal", s.m.version, "failed")
        IN  Leave(t, [m |-> [s.m EXCEPT !.configuring = FALSE],
                      r |-> IF s.r.state = "configuring" /\ 2 \notin F THEN failed ELSE s.r], F)
  BY DEF ConfigurationFails
<1> DEFINE s == Consume(Here(t), "failed", TRUE, 1 \notin F)
           m == [s.m EXCEPT !.configuring = FALSE]
           quiet == [s EXCEPT !.m = m]
           over == Update(quiet, "terminal", "failed", s.r.state = "configuring" /\ 2 \notin F)
           left == [over EXCEPT !.threw = FALSE]
<1>2. Fine(s, row[t])
  BY HereFine, ConsumeFine DEF Statuses
<1>3. Fine(left, row[t])
  <2> HIDE DEF s
  <2>1. m \in MemType
    BY <1>2 DEF Fine, StateType, MemType
  <2>2. Fine(quiet, row[t])
    BY <1>2, <2>1, MemoryFine
  <2>3. Fine(over, row[t])
    BY <2>2, UpdateFine DEF Endings
  <2> QED BY <2>3 DEF Fine, StateType
<1>4. Leave(t, left, F)
  <2>1. left.m = m /\ left.r = IF s.r.state = "configuring" /\ 2 \notin F
                               THEN UpdateRow(s.r, "terminal", s.m.version, "failed") ELSE s.r
    <3> HIDE DEF s
    <3> QED BY <1>2 DEF Update, Fine, StateType, MemType
  <2> HIDE DEF left
  <2> QED BY <1>1, <2>1 DEF Leave
<1> HIDE DEF left
<1> QED BY <1>3, <1>4, LeaveKeeps

\* The start of the source keeps the types and opens no row again.
LEMMA ExecuteKeeps ==
  ASSUME TypeOK, NEW t \in Turns, Execute(t)
  PROVE  TypeOK' /\ ReopensNone
<1>1. PICK F \in Failing(1) :
        LET s == Update(Here(t), "executing", None, 1 \notin F)
        IN  /\ row[t].state \in {"prepared", "executing"}
            /\ Leave(t, IF s.threw THEN s ELSE [s EXCEPT !.m.execution = "running"], F)
  BY DEF Execute
<1> DEFINE s == Update(Here(t), "executing", None, 1 \notin F)
           left == IF s.threw THEN s ELSE [s EXCEPT !.m.execution = "running"]
<1>2. Fine(s, row[t])
  <2>1. CASE 1 \notin F
    <3>1. UpdateRow(row[t], "executing", mem[t].version, None) \in RowType
      <4>1. UpdateRow(row[t], "executing", mem[t].version, None)
              = [row[t] EXCEPT !.state = "executing", !.version = mem[t].version]
        BY HereFine DEF UpdateRow, RowType
      <4>2. mem[t].version \in Nat
        BY HereFine DEF MemType
      <4> QED BY <4>1, <4>2, HereFine DEF RowType
    <3>2. s = [m |-> mem[t], r |-> UpdateRow(row[t], "executing", mem[t].version, None), threw |-> FALSE]
      BY <2>1 DEF Update, Here
    <3>3. Unfinished(row[t])
      BY <1>1 DEF Unfinished
    <3>4. s \in StateType
      <4> HIDE DEF s
      <4>1. mem[t] \in MemType
        BY HereFine
      <4> QED BY <3>1, <3>2, <4>1 DEF StateType
    <3> QED BY <3>3, <3>4 DEF Fine
  <2>2. CASE ~(1 \notin F)
    BY <2>2, HereFine DEF Update, Fine, StateType
  <2> QED BY <2>1, <2>2
<1>3. Fine(left, row[t])
  <2> HIDE DEF s
  <2>1. [s.m EXCEPT !.execution = "running"] \in MemType
    BY <1>2 DEF Fine, StateType, MemType
  <2>2. [s EXCEPT !.m.execution = "running"] = [s EXCEPT !.m = [s.m EXCEPT !.execution = "running"]]
    BY <1>2 DEF Fine, StateType
  <2> QED BY <1>2, <2>1, <2>2, MemoryFine
<1> HIDE DEF left
<1> QED BY <1>1, <1>3, LeaveKeeps DEF left

\* A fact of the source keeps the types and opens no row again.
LEMMA FactKeeps ==
  ASSUME TypeOK, NEW t \in Turns, NEW kind \in FactKinds, Fact(t, kind)
  PROVE  TypeOK' /\ ReopensNone
<1> DEFINE dropped == mem[t].finishing # None /\ ~AllowedWhileFinishing(kind)
           s == [Here(t) EXCEPT !.m.heard = TRUE]
           left(F) == IF dropped THEN s ELSE Consume(s, mem[t].status, IsImmediate(kind), 1 \notin F)
<1>1. PICK F \in Failing(1) : Leave(t, left(F), F)
  BY DEF Fact
<1>2. Fine(s, row[t]) /\ mem[t].status \in Statuses
  <2>1. [mem[t] EXCEPT !.heard = TRUE] \in MemType /\ mem[t].status \in Statuses
    <3>1. mem[t] \in MemType
      BY HereFine
    <3> QED BY <3>1 DEF MemType
  <2>2. s = [Here(t) EXCEPT !.m = [mem[t] EXCEPT !.heard = TRUE]]
    BY DEF Here
  <2> QED BY <2>1, <2>2, HereFine, MemoryFine
<1>3. Fine(left(F), row[t])
  <2> HIDE DEF s
  <2> QED BY <1>2, ConsumeFine
<1> HIDE DEF left
<1> QED BY <1>1, <1>3, LeaveKeeps

\* A handler of the source leaves the turn settled.
LEMMA SettledFine ==
  ASSUME NEW s, NEW began, Fine(s, began)
  PROVE  Fine([s EXCEPT !.m.execution = "settled"], began)
<1>1. [s.m EXCEPT !.execution = "settled"] \in MemType
  BY DEF Fine, StateType, MemType
<1>2. [s EXCEPT !.m.execution = "settled"] = [s EXCEPT !.m = [s.m EXCEPT !.execution = "settled"]]
  BY DEF Fine, StateType
<1> QED BY <1>1, <1>2, MemoryFine

\* A source that returns keeps the types and opens no row again.
LEMMA SourceReturnsKeeps ==
  ASSUME TypeOK, NEW t \in Turns, NEW o \in Outcomes, SourceReturns(t, o)
  PROVE  TypeOK' /\ ReopensNone
<1> DEFINE s(F) == Fulfilled(Report(Here(t), o, 1 \notin F), o, 2 \notin F, 3 \notin F)
           caught(F) == IF s(F).threw THEN Rejected(s(F), 4 \notin F, 5 \notin F) ELSE s(F)
           left(F) == [caught(F) EXCEPT !.m.execution = "settled"]
<1>1. PICK F \in Failing(5) : Leave(t, left(F), F)
  BY DEF SourceReturns
<1>2. o \in Endings
  BY TurnAssumption
<1>3. Fine(s(F), row[t])
  BY <1>2, HereFine, ReportFine, FulfilledFine
<1>4. Fine(left(F), row[t])
  <2> HIDE DEF s
  <2> QED BY <1>3, RejectedFine, SettledFine
<1> HIDE DEF left
<1> QED BY <1>1, <1>4, LeaveKeeps

\* A source that throws keeps the types and opens no row again.
LEMMA SourceRejectsKeeps ==
  ASSUME TypeOK, NEW t \in Turns, SourceRejects(t)
  PROVE  TypeOK' /\ ReopensNone
<1> DEFINE left(F) == [Rejected(ReportFailure(Here(t), 1 \notin F), 2 \notin F, 3 \notin F)
                         EXCEPT !.m.execution = "settled"]
<1>1. PICK F \in Failing(3) : Leave(t, left(F), F)
  BY DEF SourceRejects
<1>2. Fine(left(F), row[t])
  BY HereFine, ReportFailureFine, RejectedFine, SettledFine
<1> HIDE DEF left
<1> QED BY <1>1, <1>2, LeaveKeeps

\* A cancel or a timeout keeps the types and opens no row again.
LEMMA StopKeeps ==
  ASSUME TypeOK, NEW t \in Turns, NEW o \in {"cancelled", "timed-out"}, Stop(t, o)
  PROVE  TypeOK' /\ ReopensNone
<1> DEFINE s == [Here(t) EXCEPT !.m.configuring = FALSE]
           left(F) == IF mem[t].execution # "none" THEN [s EXCEPT !.m.finishing = o]
                      ELSE Finalize(s, o, 1 \notin F, 2 \notin F)
<1>1. PICK F \in Failing(2) : Leave(t, left(F), F)
  BY DEF Stop
<1>2. Fine(s, row[t])
  <2>1. [mem[t] EXCEPT !.configuring = FALSE] \in MemType
    <3>1. mem[t] \in MemType
      BY HereFine
    <3> QED BY <3>1 DEF MemType
  <2>2. s = [Here(t) EXCEPT !.m = [mem[t] EXCEPT !.configuring = FALSE]]
    BY DEF Here
  <2> QED BY <2>1, <2>2, HereFine, MemoryFine
<1>3. Fine(left(F), row[t])
  <2> HIDE DEF s
  <2>1. [s.m EXCEPT !.finishing = o] \in MemType
    BY <1>2 DEF Fine, StateType, MemType
  <2>2. [s EXCEPT !.m.finishing = o] = [s EXCEPT !.m = [s.m EXCEPT !.finishing = o]]
    BY <1>2 DEF Fine, StateType
  <2>3. Fine([s EXCEPT !.m.finishing = o], row[t])
    BY <1>2, <2>1, <2>2, MemoryFine
  <2>4. Fine(Finalize(s, o, 1 \notin F, 2 \notin F), row[t])
    BY <1>2, FinalizeFine DEF Endings
  <2> QED BY <2>3, <2>4
<1> HIDE DEF left
<1> QED BY <1>1, <1>3, LeaveKeeps

\* The end of the window of a stop keeps the types and opens no row again.
LEMMA FinishWindowKeeps ==
  ASSUME TypeOK, NEW t \in Turns, FinishWindow(t)
  PROVE  TypeOK' /\ ReopensNone
<1>1. PICK F \in Failing(2) :
        /\ mem[t].finishing # None
        /\ Leave(t, Finalize(Here(t), mem[t].finishing, 1 \notin F, 2 \notin F), F)
  BY DEF FinishWindow
<1>2. mem[t].finishing \in Endings
  BY <1>1, HereFine DEF MemType, Endings
<1>3. Fine(Finalize(Here(t), mem[t].finishing, 1 \notin F, 2 \notin F), row[t])
  BY <1>2, HereFine, FinalizeFine
<1> QED BY <1>1, <1>3, LeaveKeeps

\* The checkpoint timer keeps the types and opens no row again.
LEMMA CheckpointTimerKeeps ==
  ASSUME TypeOK, NEW t \in Turns, CheckpointTimer(t)
  PROVE  TypeOK' /\ ReopensNone
<1> DEFINE m == mem[t]
           s == [Here(t) EXCEPT !.m.timer = NoTimer]
           left(F) == IF m.timer.kind = "live" THEN Persist(s, m.version, m.status, 1 \notin F)
                      ELSE Persist(s, m.timer.version, m.timer.status, 1 \notin F)
<1>1. PICK F \in Failing(1) : Leave(t, left(F), F)
  BY DEF CheckpointTimer
<1>2. Fine(s, row[t])
  <2>1. [mem[t] EXCEPT !.timer = NoTimer] \in MemType
    BY HereFine, TimerTypes DEF MemType
  <2>2. s = [Here(t) EXCEPT !.m = [mem[t] EXCEPT !.timer = NoTimer]]
    BY DEF Here
  <2> QED BY <2>1, <2>2, HereFine, MemoryFine
<1>3. m.version \in Nat /\ m.timer.version \in Nat /\ m.status \in Statuses /\ m.timer.status \in Statuses
  BY HereFine DEF MemType, TimerType
<1>4. Fine(left(F), row[t])
  <2> HIDE DEF s, m
  <2> QED BY <1>2, <1>3, PersistFine
<1> HIDE DEF left
<1> QED BY <1>1, <1>4, LeaveKeeps

\* A recovery keeps the types and opens no row again.
LEMMA RecoverKeeps ==
  ASSUME TypeOK, NEW S \in SUBSET Turns, Recover(S)
  PROVE  TypeOK' /\ ReopensNone
<1> DEFINE found == {t \in S : Recoverable(t)}
<1>1. PICK o \in [found -> Canonical \cup {"recovered"}] :
        /\ mem' = [t \in Turns |-> IF t \in found THEN RecoverMemory(mem[t], o[t]) ELSE mem[t]]
        /\ row' = [t \in Turns |-> IF t \in found THEN RecoverRow(row[t], o[t]) ELSE row[t]]
        /\ UNCHANGED <<faults, crashes, replays>>
  BY DEF Recover
<1> HIDE DEF found
<1>2. ASSUME NEW t \in Turns, t \in found
      PROVE  /\ RecoverMemory(mem[t], o[t]) \in MemType
             /\ RecoverRow(row[t], o[t]) \in RowType /\ ~Unfinished(RecoverRow(row[t], o[t]))
  <2>1. mem[t] \in MemType /\ row[t] \in RowType
    BY DEF TypeOK
  <2>2. o[t] \in Endings
    BY <1>2, TurnAssumption DEF Endings
  <2>3. StatusOf(o[t]) \in Statuses
    BY StatusOfType DEF Statuses
  <2>4. RecoverMemory(mem[t], o[t]) \in MemType
    <3> DEFINE e == o[t]
               status == StatusOf(o[t])
    <3>1. mem[t].version + 1 \in Nat
      BY <2>1 DEF MemType
    <3>2. RecoverMemory(mem[t], e) =
            IF mem[t].known THEN [mem[t] EXCEPT !.recovered = TRUE, !.status = status,
                                    !.version = mem[t].version + 1, !.kept = e, !.terminal = e]
            ELSE [mem[t] EXCEPT !.recovered = TRUE]
      BY DEF RecoverMemory
    <3>3. [mem[t] EXCEPT !.recovered = TRUE] \in MemType
      BY <2>1 DEF MemType
    <3> HIDE DEF e, status
    <3>4. [mem[t] EXCEPT !.recovered = TRUE, !.status = status,
              !.version = mem[t].version + 1, !.kept = e, !.terminal = e] \in MemType
      BY <2>1, <2>2, <2>3, <3>1 DEF MemType, e, status
    <3> QED BY <3>2, <3>3, <3>4 DEF e
  <2>5. RecoverRow(row[t], o[t]) \in RowType /\ ~Unfinished(RecoverRow(row[t], o[t]))
    <3> DEFINE e == o[t]
               status == StatusOf(o[t])
    <3>1. RecoverRow(row[t], e) = [row[t] EXCEPT !.state = "terminal", !.outcome = e,
                                                 !.version = row[t].version + 1, !.message = status]
      BY DEF RecoverRow
    <3>2. e \in Endings /\ status \in Statuses
      BY <2>2, <2>3
    <3> HIDE DEF e, status
    <3>3. row[t].version + 1 \in Nat
      BY <2>1 DEF RowType
    <3>4. RecoverRow(row[t], e) \in RowType
      BY <2>1, <3>1, <3>2, <3>3 DEF RowType
    <3>5. RecoverRow(row[t], e).state = "terminal"
      BY <2>1, <3>1 DEF RowType
    <3>6. ~Unfinished(RecoverRow(row[t], e))
      BY <3>5 DEF Unfinished
    <3> QED BY <3>4, <3>6 DEF e
  <2> QED BY <2>4, <2>5
<1>3. TypeOK'
  BY <1>1, <1>2 DEF TypeOK
<1>4. ReopensNone
  BY <1>1, <1>2 DEF ReopensNone
<1> QED BY <1>3, <1>4

\* A crash keeps the types and opens no row again.
LEMMA CrashKeeps ==
  ASSUME TypeOK, Crash
  PROVE  TypeOK' /\ ReopensNone
<1>1. Unknown \in MemType
  BY TimerTypes DEF Unknown, MemType, Statuses
<1>2. mem' \in [Turns -> MemType] /\ crashes' \in 0..MaxCrashes
  BY <1>1, TurnAssumption DEF Crash, TypeOK
<1> QED BY <1>2 DEF Crash, TypeOK, ReopensNone

-----------------------------------------------------------------------------
\* The invariant holds at the start.
LEMMA TurnInit == Init => TurnInv
<1> SUFFICES ASSUME Init PROVE TurnInv
  OBVIOUS
<1>1. Unknown \in MemType /\ NoRow \in RowType /\ ~Unfinished(NoRow)
  BY TimerTypes DEF Unknown, MemType, NoRow, RowType, Statuses, Unfinished
<1> QED BY <1>1, TurnAssumption DEF Init, TurnInv, TypeOK, OneAtATime

\* Every step keeps it.
LEMMA TurnStep == TurnInv /\ [Next]_vars => TurnInv'
<1> SUFFICES ASSUME TurnInv, [Next]_vars PROVE TurnInv'
  OBVIOUS
<1>1. TypeOK
  BY DEF TurnInv
<1>2. ASSUME TypeOK' /\ ReopensNone PROVE TurnInv'
  BY <1>2 DEF TurnInv, OneAtATime, ReopensNone
<1>3. ASSUME NEW t \in Turns, NEW state \in {"configuring", "prepared"}, Prepare(t, state) PROVE TurnInv'
  BY <1>3, PrepareKeeps
<1>4. ASSUME NEW t \in Turns, Replay(t) PROVE TurnInv'
  BY <1>1, <1>2, <1>4, ReplayKeeps
<1>5. ASSUME NEW t \in Turns, Configured(t) PROVE TurnInv'
  BY <1>1, <1>2, <1>5, ConfiguredKeeps
<1>6. ASSUME NEW t \in Turns, ConfigurationFails(t) PROVE TurnInv'
  BY <1>1, <1>2, <1>6, ConfigurationFailsKeeps
<1>7. ASSUME NEW t \in Turns, Execute(t) PROVE TurnInv'
  BY <1>1, <1>2, <1>7, ExecuteKeeps
<1>8. ASSUME NEW t \in Turns, NEW kind \in FactKinds, Fact(t, kind) PROVE TurnInv'
  BY <1>1, <1>2, <1>8, FactKeeps
<1>9. ASSUME NEW t \in Turns, NEW o \in Outcomes, SourceReturns(t, o) PROVE TurnInv'
  BY <1>1, <1>2, <1>9, SourceReturnsKeeps
<1>10. ASSUME NEW t \in Turns, SourceRejects(t) PROVE TurnInv'
  BY <1>1, <1>2, <1>10, SourceRejectsKeeps
<1>11. ASSUME NEW t \in Turns, Cancel(t) \/ Timeout(t) PROVE TurnInv'
  BY <1>1, <1>2, <1>11, StopKeeps DEF Cancel, Timeout
<1>12. ASSUME NEW t \in Turns, FinishWindow(t) PROVE TurnInv'
  BY <1>1, <1>2, <1>12, FinishWindowKeeps
<1>13. ASSUME NEW t \in Turns, CheckpointTimer(t) PROVE TurnInv'
  BY <1>1, <1>2, <1>13, CheckpointTimerKeeps
<1>14. ASSUME NEW t \in Turns, RecoverOnWake(t) PROVE TurnInv'
  <2>1. Turns \in SUBSET Turns /\ Recover(Turns)
    BY <1>14 DEF RecoverOnWake
  <2> QED BY <1>1, <1>2, <2>1, RecoverKeeps
<1>15. ASSUME NEW s \in {SessionOf[t] : t \in Turns}, RecoverOnAccess(s) PROVE TurnInv'
  <2>1. OfSession(s) \in SUBSET Turns /\ Recover(OfSession(s))
    BY <1>15 DEF RecoverOnAccess, OfSession
  <2> QED BY <1>1, <1>2, <2>1, RecoverKeeps
<1>16. CASE Crash
  BY <1>1, <1>2, <1>16, CrashKeeps
<1>17. CASE Rest \/ UNCHANGED vars
  BY <1>17 DEF Rest, vars, TurnInv, TypeOK, OneAtATime
<1> QED BY <1>3, <1>4, <1>5, <1>6, <1>7, <1>8, <1>9, <1>10, <1>11, <1>12, <1>13, <1>14,
           <1>15, <1>16, <1>17 DEF Next

\* It holds in every state of the program.
LEMMA TurnInvariant == Spec => []TurnInv
  BY TurnInit, TurnStep, PTL DEF Spec

\* What the process holds of a turn and what is stored keep to the states they
\* name, for any turns and bounds: retries end at three.
THEOREM Typing == Spec => []TypeOK
<1>1. TurnInv => TypeOK
  BY DEF TurnInv
<1> QED BY <1>1, TurnInvariant, PTL

\* A session never has two unfinished turns, for any turns, sessions, outcomes and
\* bounds, with writes that fail, crashes, replays and recoveries of all sessions.
THEOREM NeverTwoTurns == Spec => []OneAtATime
<1>1. TurnInv => OneAtATime
  BY DEF TurnInv
<1> QED BY <1>1, TurnInvariant, PTL

-----------------------------------------------------------------------------
(* What the steps of handlers do to the fields of memory and row, so that  *)
(* the invariants below need not look into them again.                     *)

\* The fields that no write and no fact touches, those that say where the turn stands.
Mode(m, n) ==
  /\ n.configuring = m.configuring /\ n.execution = m.execution
  /\ n.finishing = m.finishing /\ n.terminal = m.terminal
Same(m, n) == Mode(m, n) /\ n.known = m.known /\ n.kept = m.kept

\* The others that the invariants are about.
Core(m, n) ==
  /\ n.known = m.known /\ n.kept = m.kept /\ n.status = m.status /\ n.version = m.version
  /\ n.timer = m.timer /\ n.committed = m.committed /\ n.ckFailed = m.ckFailed

\* p is what an attempt to write version v of the message with this status makes of a
\* turn with row r and the committed version c; the timer was stopped before.
Written(r, c, p, v, status, ok) ==
  \/ /\ ok /\ Takes(r, v)
     /\ p.r.version = v /\ p.r.content = v /\ p.r.message = status
     /\ p.r.state = r.state /\ p.r.outcome = r.outcome
     /\ p.m.timer = NoTimer /\ ~p.m.ckFailed
     /\ p.m.committed = IF v > c THEN v ELSE c
  \/ /\ ~(ok /\ Takes(r, v))
     /\ p.r = r /\ p.m.committed = c
     /\ Over(p.m.status) => \/ p.m.timer = NoTimer /\ p.m.ckFailed
                            \/ p.m.timer = [kind |-> "snapshot", version |-> p.m.version, status |-> p.m.status]
     /\ ~Over(p.m.status) => p.m.timer \in {NoTimer, LiveTimer}

\* A step leaves a state of the type.
LEMMA FineTyped ==
  ASSUME NEW s
  PROVE  s \in StateType <=> Fine(s, s.r)
  BY DEF Fine

\* A retry sets the timer, or gives up, and touches nothing else.
LEMMA RetryDoes ==
  ASSUME NEW m \in MemType, m.timer = NoTimer
  PROVE  /\ Retry(m) \in MemType /\ Same(m, Retry(m))
         /\ Retry(m).status = m.status /\ Retry(m).version = m.version /\ Retry(m).committed = m.committed
         /\ Over(m.status) => \/ Retry(m).timer = NoTimer /\ Retry(m).ckFailed
                              \/ Retry(m).timer = [kind |-> "snapshot", version |-> m.version, status |-> m.status]
         /\ ~Over(m.status) => Retry(m).timer \in {NoTimer, LiveTimer}
<1>1. Retry(m) \in MemType
  BY RetryType
<1>2. CASE Over(m.status) /\ m.retries >= 3
  <2>1. Retry(m) = [m EXCEPT !.ckFailed = TRUE]
    BY <1>2 DEF Retry
  <2> QED BY <1>1, <1>2, <2>1 DEF MemType, Same, Mode
<1>3. CASE Over(m.status) /\ ~(m.retries >= 3)
  <2> DEFINE again == [kind |-> "snapshot", version |-> m.version, status |-> m.status]
  <2>1. Retry(m) = [m EXCEPT !.retries = m.retries + 1, !.timer = again]
    BY <1>3 DEF Retry
  <2> HIDE DEF again
  <2>2. Retry(m).timer = again /\ Same(m, Retry(m))
    BY <2>1 DEF MemType, Same, Mode
  <2>3. Retry(m).status = m.status /\ Retry(m).version = m.version /\ Retry(m).committed = m.committed
    BY <2>1 DEF MemType
  <2> QED BY <1>1, <1>3, <2>2, <2>3 DEF again
<1>4. CASE ~Over(m.status)
  <2>1. Retry(m) = m \/ Retry(m) = [m EXCEPT !.retries = m.retries + 1, !.timer = LiveTimer]
    BY <1>4 DEF Retry
  <2>2. Retry(m).timer \in {NoTimer, LiveTimer} /\ Same(m, Retry(m))
    BY <2>1 DEF MemType, Same, Mode
  <2>3. Retry(m).status = m.status /\ Retry(m).version = m.version /\ Retry(m).committed = m.committed
    BY <2>1 DEF MemType
  <2> QED BY <1>1, <1>4, <2>2, <2>3
<1> QED BY <1>2, <1>3, <1>4

\* Persist writes the row or asks for a retry.
LEMMA PersistDoes ==
  ASSUME NEW s \in StateType, s.m.timer = NoTimer, NEW v \in Nat, NEW status \in Statuses, NEW ok,
         NEW p, p = Persist(s, v, status, ok)
  PROVE  /\ p \in StateType /\ Same(s.m, p.m) /\ p.threw = s.threw
         /\ p.m.status = s.m.status /\ p.m.version = s.m.version
         /\ Written(s.r, s.m.committed, p, v, status, ok)
<1>1. p \in StateType
  BY PersistFine, FineTyped DEF Fine
<1>2. CASE ok /\ Takes(s.r, v)
  <2> DEFINE c == IF v > s.m.committed THEN v ELSE s.m.committed
             m == [s.m EXCEPT !.committed = c, !.retries = 0, !.ckFailed = FALSE]
             r == [s.r EXCEPT !.version = v, !.content = v, !.message = status]
  <2>1. p = [m |-> m, r |-> r, threw |-> s.threw]
    BY <1>2 DEF Persist, StateType
  <2>2. p.m = m /\ p.r = r /\ p.threw = s.threw
    <3> HIDE DEF m, r
    <3> QED BY <2>1
  <2>3. s.m \in MemType /\ s.r \in RowType
    BY DEF StateType
  <2> HIDE DEF c
  <2>4. /\ Same(s.m, m) /\ m.status = s.m.status /\ m.version = s.m.version
        /\ m.timer = NoTimer /\ ~m.ckFailed /\ m.committed = c
    BY <2>3 DEF MemType, Same, Mode
  <2>5. /\ r.version = v /\ r.content = v /\ r.message = status
        /\ r.state = s.r.state /\ r.outcome = s.r.outcome
    BY <2>3 DEF RowType
  <2> QED BY <1>1, <1>2, <2>2, <2>4, <2>5 DEF Written, c
<1>3. CASE ~(ok /\ Takes(s.r, v))
  <2>1. p = [s EXCEPT !.m = Retry(s.m)]
    BY <1>3 DEF Persist
  <2>2. p.m = Retry(s.m) /\ p.r = s.r /\ p.threw = s.threw /\ s.m \in MemType
    BY <2>1 DEF StateType
  <2> DEFINE n == Retry(s.m)
  <2>3. /\ Same(s.m, n) /\ n.status = s.m.status /\ n.version = s.m.version /\ n.committed = s.m.committed
        /\ Over(s.m.status) => \/ n.timer = NoTimer /\ n.ckFailed
                               \/ n.timer = [kind |-> "snapshot", version |-> s.m.version, status |-> s.m.status]
        /\ ~Over(s.m.status) => n.timer \in {NoTimer, LiveTimer}
    BY <2>2, RetryDoes
  <2> HIDE DEF n
  <2>4. p.m = n
    BY <2>2 DEF n
  <2>5. Written(s.r, s.m.committed, p, v, status, ok)
    BY <1>3, <2>2, <2>3, <2>4 DEF Written
  <2> QED BY <1>1, <2>2, <2>3, <2>4, <2>5
<1> QED BY <1>2, <1>3

\* flushCheckpoint writes the newest version.
LEMMA FlushDoes ==
  ASSUME NEW s \in StateType, NEW ok, NEW p, p = Flush(s, ok)
  PROVE  /\ p \in StateType /\ Same(s.m, p.m) /\ p.threw = s.threw
         /\ p.m.status = s.m.status /\ p.m.version = s.m.version
         /\ Written(s.r, s.m.committed, p, s.m.version, s.m.status, ok)
<1> DEFINE m == [s.m EXCEPT !.timer = NoTimer]
           quiet == [s EXCEPT !.m = m]
<1>1. s.m \in MemType /\ s.r \in RowType
  BY DEF StateType
<1>2. m \in MemType /\ s.m.version \in Nat /\ s.m.status \in Statuses
  BY <1>1, TimerTypes DEF MemType
<1>3. /\ Same(s.m, m) /\ m.timer = NoTimer
      /\ m.status = s.m.status /\ m.version = s.m.version /\ m.committed = s.m.committed
  BY <1>1 DEF MemType, Same, Mode
<1>4. p = Persist(quiet, s.m.version, s.m.status, ok)
  BY DEF Flush, StateType
<1> HIDE DEF m
<1>5. quiet \in StateType /\ quiet.m = m /\ quiet.r = s.r /\ quiet.threw = s.threw
  BY <1>1, <1>2 DEF StateType
<1> HIDE DEF quiet
<1>6. /\ p \in StateType /\ Same(quiet.m, p.m) /\ p.threw = quiet.threw
      /\ p.m.status = quiet.m.status /\ p.m.version = quiet.m.version
      /\ Written(quiet.r, quiet.m.committed, p, s.m.version, s.m.status, ok)
  BY <1>2, <1>3, <1>4, <1>5, PersistDoes
<1> QED BY <1>3, <1>5, <1>6 DEF Same, Mode

\* An event that comes before the end takes the next version; a later one is
\* ignored.
LEMMA ConsumeDoes ==
  ASSUME NEW s \in StateType, NEW status \in Statuses, NEW immediate, NEW ok,
         NEW p, p = Consume(s, status, immediate, ok)
  PROVE  /\ p \in StateType /\ Same(s.m, p.m) /\ p.threw = s.threw
         /\ Over(s.m.status) => p = s
         /\ ~Over(s.m.status) =>
              /\ p.m.status = status /\ p.m.version = s.m.version + 1
              /\ immediate => Written(s.r, s.m.committed, p, s.m.version + 1, status, ok)
              /\ ~immediate => /\ p.r = s.r /\ p.m.committed = s.m.committed /\ p.m.ckFailed = s.m.ckFailed
                               /\ p.m.timer = IF s.m.timer = NoTimer THEN LiveTimer ELSE s.m.timer
<1>0. p \in StateType
  BY ConsumeFine, FineTyped DEF Fine
<1> DEFINE m == [s.m EXCEPT !.status = status, !.version = s.m.version + 1]
           next == [s EXCEPT !.m = m]
<1>1. s.m \in MemType /\ s.r \in RowType
  BY DEF StateType
<1>2. s.m.version + 1 \in Nat
  BY <1>1 DEF MemType
<1>3. m \in MemType
  BY <1>1, <1>2 DEF MemType
<1>4. /\ Same(s.m, m) /\ m.status = status /\ m.version = s.m.version + 1
      /\ m.committed = s.m.committed /\ m.ckFailed = s.m.ckFailed /\ m.timer = s.m.timer
  BY <1>1 DEF MemType, Same, Mode
<1>5. p = IF Over(s.m.status) THEN s ELSE IF immediate THEN Flush(next, ok) ELSE Schedule(next)
  BY DEF Consume, StateType
<1> HIDE DEF m
<1>6. next \in StateType /\ next.m = m /\ next.r = s.r /\ next.threw = s.threw
  BY <1>1, <1>3 DEF StateType
<1> HIDE DEF next
<1>7. CASE Over(s.m.status)
  BY <1>0, <1>5, <1>7 DEF Same, Mode
<1>8. CASE ~Over(s.m.status) /\ immediate
  <2>1. /\ p \in StateType /\ Same(next.m, p.m) /\ p.threw = next.threw
        /\ p.m.status = next.m.status /\ p.m.version = next.m.version
        /\ Written(next.r, next.m.committed, p, next.m.version, next.m.status, ok)
    BY <1>5, <1>6, <1>8, FlushDoes
  <2> QED BY <1>4, <1>6, <1>8, <2>1 DEF Same, Mode
<1>9. CASE ~Over(s.m.status) /\ ~immediate
  <2>1. p = Schedule(next)
    BY <1>5, <1>9
  <2>2. CASE next.m.timer = NoTimer
    <3> DEFINE n == [next.m EXCEPT !.timer = LiveTimer]
    <3>1. p = [next EXCEPT !.m = n]
      BY <1>6, <2>1, <2>2 DEF Schedule, StateType
    <3>2. p.m = n /\ p.r = next.r /\ p.threw = next.threw
      <4> HIDE DEF n
      <4> QED BY <1>6, <3>1 DEF StateType
    <3>3. /\ Same(m, n) /\ n.timer = LiveTimer /\ n.status = m.status /\ n.version = m.version
          /\ n.committed = m.committed /\ n.ckFailed = m.ckFailed
      BY <1>3, <1>6 DEF MemType, Same, Mode
    <3> QED BY <1>0, <1>4, <1>6, <1>9, <2>2, <3>2, <3>3 DEF Same, Mode
  <2>3. CASE next.m.timer # NoTimer
    <3>1. p = next
      BY <2>1, <2>3 DEF Schedule
    <3> QED BY <1>0, <1>4, <1>6, <1>9, <2>3, <3>1 DEF Same, Mode
  <2> QED BY <2>2, <2>3
<1> QED BY <1>7, <1>8, <1>9

\* updateTurnState, which the code calls with an outcome when the state is terminal.
LEMMA UpdateDoes ==
  ASSUME NEW s \in StateType, NEW o \in Endings, NEW ok, NEW p, p = Update(s, "terminal", o, ok)
  PROVE  /\ p \in StateType /\ p.m = s.m
         /\ ok => /\ p.threw = s.threw
                  /\ p.r.state = "terminal" /\ p.r.version = s.m.version /\ p.r.outcome = o
                  /\ p.r.content = s.r.content
                  /\ p.r.message = IF s.r.message = "streaming" THEN StatusOf(o) ELSE s.r.message
         /\ ~ok => p.r = s.r /\ p.threw
<1>1. p \in StateType
  BY UpdateFine, FineTyped DEF Fine
<1>2. CASE ok
  <2> DEFINE r == UpdateRow(s.r, "terminal", s.m.version, o)
  <2>1. p = [s EXCEPT !.r = r]
    BY <1>2 DEF Update
  <2>2. p.m = s.m /\ p.r = r /\ p.threw = s.threw
    <3> HIDE DEF r
    <3> QED BY <2>1 DEF StateType
  <2>3. /\ r.state = "terminal" /\ r.version = s.m.version /\ r.outcome = o /\ r.content = s.r.content
        /\ r.message = IF s.r.message = "streaming" THEN StatusOf(o) ELSE s.r.message
    <3>1. s.r \in RowType /\ o # None
      BY DEF StateType, Endings, None
    <3> QED BY <3>1 DEF UpdateRow, RowType
  <2> QED BY <1>1, <1>2, <2>2, <2>3
<1>3. CASE ~ok
  BY <1>1, <1>3 DEF Update, StateType
<1> QED BY <1>2, <1>3

-----------------------------------------------------------------------------
(* What the handlers do, as steps of those kinds. b is the turn before, s  *)
(* after the handler, F the writes that fail.                              *)

\* c is s with the message written, or tried, at this version and with this status.
Wrote(s, c, status, v, ok) ==
  /\ c \in StateType /\ c.m.known = s.m.known /\ c.m.kept = s.m.kept
  /\ c.m.status = status /\ c.m.version = v
  /\ Written(s.r, s.m.committed, c, v, status, ok)

\* p is c with its outcome written, or tried.
Closes(c, p, o, ok) ==
  /\ p \in StateType /\ Core(c.m, p.m)
  /\ ok => /\ p.r.state = "terminal" /\ p.r.version = c.m.version /\ p.r.outcome = o
           /\ p.r.content = c.r.content
           /\ p.r.message = IF c.r.message = "streaming" THEN StatusOf(o) ELSE c.r.message
  /\ ~ok => p.r = c.r

\* A change of one field of memory that is no core field.
Unconfigured(s) == [s EXCEPT !.m.configuring = FALSE]
Hearing(s, h) == [s EXCEPT !.m.heard = h]
Executing(s, e) == [s EXCEPT !.m.execution = e]
Finishing(s, o) == [s EXCEPT !.m.finishing = o]
Telling(s, o) == [s EXCEPT !.m.terminal = o]

\* m to n is a change of one field of the mode.
Unset(m, n) ==
  /\ n.configuring = FALSE /\ n.execution = m.execution
  /\ n.finishing = m.finishing /\ n.terminal = m.terminal
Executed(m, n, e) ==
  /\ n.execution = e /\ n.configuring = m.configuring
  /\ n.finishing = m.finishing /\ n.terminal = m.terminal
Finishes(m, n, o) ==
  /\ n.finishing = o /\ n.configuring = m.configuring
  /\ n.execution = m.execution /\ n.terminal = m.terminal
Told(m, n, o) ==
  /\ n.terminal = o /\ n.configuring = m.configuring
  /\ n.execution = m.execution /\ n.finishing = m.finishing

\* The end of a configuration touches nothing else,
LEMMA UnsetDoes ==
  ASSUME NEW s \in StateType, NEW p, p = Unconfigured(s)
  PROVE  p \in StateType /\ p.r = s.r /\ p.threw = s.threw /\ Core(s.m, p.m) /\ Unset(s.m, p.m)
<1> DEFINE n == [s.m EXCEPT !.configuring = FALSE]
<1>1. s.m \in MemType
  BY DEF StateType
<1>2. n \in MemType
  BY <1>1 DEF MemType
<1>3. p = [s EXCEPT !.m = n]
  BY DEF StateType, Unconfigured
<1>4. Core(s.m, n) /\ Unset(s.m, n)
  BY <1>1 DEF MemType, Core, Mode, Executed, Finishes, Told, Unset
<1> HIDE DEF n
<1>5. p \in StateType /\ p.m = n /\ p.r = s.r /\ p.threw = s.threw
  BY <1>2, <1>3 DEF StateType
<1> QED BY <1>4, <1>5

\* a stop that is heard does not,
LEMMA HeardDoes ==
  ASSUME NEW s \in StateType, NEW h \in BOOLEAN, NEW p, p = Hearing(s, h)
  PROVE  p \in StateType /\ p.r = s.r /\ p.threw = s.threw /\ Core(s.m, p.m) /\ Mode(s.m, p.m)
<1> DEFINE n == [s.m EXCEPT !.heard = h]
<1>1. s.m \in MemType
  BY DEF StateType
<1>2. n \in MemType
  BY <1>1 DEF MemType
<1>3. p = [s EXCEPT !.m = n]
  BY DEF StateType, Hearing
<1>4. Core(s.m, n) /\ Mode(s.m, n)
  BY <1>1 DEF MemType, Core, Mode, Executed, Finishes, Told, Unset
<1> HIDE DEF n
<1>5. p \in StateType /\ p.m = n /\ p.r = s.r /\ p.threw = s.threw
  BY <1>2, <1>3 DEF StateType
<1> QED BY <1>4, <1>5

\* the end of the source does not,
LEMMA ExecutedDoes ==
  ASSUME NEW s \in StateType, NEW e \in {"running", "settled"}, NEW p, p = Executing(s, e)
  PROVE  p \in StateType /\ p.r = s.r /\ p.threw = s.threw /\ Core(s.m, p.m) /\ Executed(s.m, p.m, e)
<1> DEFINE n == [s.m EXCEPT !.execution = e]
<1>1. s.m \in MemType
  BY DEF StateType
<1>2. n \in MemType
  BY <1>1 DEF MemType
<1>3. p = [s EXCEPT !.m = n]
  BY DEF StateType, Executing
<1>4. Core(s.m, n) /\ Executed(s.m, n, e)
  BY <1>1 DEF MemType, Core, Mode, Executed, Finishes, Told, Unset
<1> HIDE DEF n
<1>5. p \in StateType /\ p.m = n /\ p.r = s.r /\ p.threw = s.threw
  BY <1>2, <1>3 DEF StateType
<1> QED BY <1>4, <1>5

\* the window of a stop does not,
LEMMA FinishesDoes ==
  ASSUME NEW s \in StateType, NEW o \in {None, "cancelled", "timed-out"}, NEW p, p = Finishing(s, o)
  PROVE  p \in StateType /\ p.r = s.r /\ p.threw = s.threw /\ Core(s.m, p.m) /\ Finishes(s.m, p.m, o)
<1> DEFINE n == [s.m EXCEPT !.finishing = o]
<1>1. s.m \in MemType
  BY DEF StateType
<1>2. n \in MemType
  BY <1>1 DEF MemType
<1>3. p = [s EXCEPT !.m = n]
  BY DEF StateType, Finishing
<1>4. Core(s.m, n) /\ Finishes(s.m, n, o)
  BY <1>1 DEF MemType, Core, Mode, Executed, Finishes, Told, Unset
<1> HIDE DEF n
<1>5. p \in StateType /\ p.m = n /\ p.r = s.r /\ p.threw = s.threw
  BY <1>2, <1>3 DEF StateType
<1> QED BY <1>4, <1>5

\* and the outcome that is told does not.
LEMMA ToldDoes ==
  ASSUME NEW s \in StateType, NEW o \in Endings, NEW p, p = Telling(s, o)
  PROVE  p \in StateType /\ p.r = s.r /\ p.threw = s.threw /\ Core(s.m, p.m) /\ Told(s.m, p.m, o)
<1> DEFINE n == [s.m EXCEPT !.terminal = o]
<1>1. s.m \in MemType
  BY DEF StateType
<1>2. n \in MemType
  BY <1>1 DEF MemType
<1>3. p = [s EXCEPT !.m = n]
  BY DEF StateType, Telling
<1>4. Core(s.m, n) /\ Told(s.m, n, o)
  BY <1>1 DEF MemType, Core, Mode, Executed, Finishes, Told, Unset
<1> HIDE DEF n
<1>5. p \in StateType /\ p.m = n /\ p.r = s.r /\ p.threw = s.threw
  BY <1>2, <1>3 DEF StateType
<1> QED BY <1>4, <1>5

\* A fact that is written at once.
LEMMA ConsumeNowDoes ==
  ASSUME NEW s \in StateType, NEW status \in Statuses, NEW ok, NEW p, p = Consume(s, status, TRUE, ok),
         ~Over(s.m.status)
  PROVE  /\ p \in StateType /\ Same(s.m, p.m) /\ p.threw = s.threw
         /\ Wrote(s, p, status, s.m.version + 1, ok)
<1>1. ASSUME NEW i, NEW q, q = Consume(s, status, i, ok)
      PROVE  /\ q \in StateType /\ Same(s.m, q.m) /\ q.threw = s.threw
             /\ q.m.status = status /\ q.m.version = s.m.version + 1
             /\ i => Written(s.r, s.m.committed, q, s.m.version + 1, status, ok)
  BY <1>1, ConsumeDoes
<1>2. /\ p \in StateType /\ Same(s.m, p.m) /\ p.threw = s.threw
      /\ p.m.status = status /\ p.m.version = s.m.version + 1
      /\ Written(s.r, s.m.committed, p, s.m.version + 1, status, ok)
  BY <1>1, Zenon
<1> QED BY <1>2 DEF Wrote, Same

\* finalizeFinishing: c is the turn with the message ended, p with its outcome.
LEMMA FinalizeDoes ==
  ASSUME NEW s \in StateType, ~s.threw, NEW o \in {"cancelled", "timed-out"}, NEW ok1, NEW ok2,
         NEW p, p = Finalize(s, o, ok1, ok2)
  PROVE  /\ p \in StateType
         /\ p.m.configuring = s.m.configuring /\ p.m.execution = s.m.execution
         /\ p.m.finishing = None /\ p.m.known = s.m.known /\ p.m.kept = s.m.kept
         /\ Over(s.m.status) => p.r = s.r /\ Core(s.m, p.m) /\ p.m.terminal = s.m.terminal /\ ~p.threw
         /\ ~Over(s.m.status) =>
              \E c \in StateType :
                /\ Wrote(s, c, StatusOf(o), s.m.version + 1, ok1)
                /\ Closes(c, p, o, ok2)
                /\ ok2 => ~p.threw /\ p.m.terminal = o
                /\ ~ok2 => p.threw /\ p.m.terminal = s.m.terminal
<1> DEFINE quiet == [s EXCEPT !.m.finishing = None]
           c == Consume(quiet, StatusOf(o), TRUE, ok1)
           done == Update(c, "terminal", o, ok2)
<1>1. /\ quiet \in StateType /\ quiet.r = s.r /\ quiet.threw = s.threw /\ Core(s.m, quiet.m)
      /\ quiet.m.finishing = None /\ quiet.m.configuring = s.m.configuring
      /\ quiet.m.execution = s.m.execution /\ quiet.m.terminal = s.m.terminal
  <2>1. None \in {None, "cancelled", "timed-out"}
    OBVIOUS
  <2>0. quiet = Finishing(s, None)
    BY DEF Finishing
  <2>2. /\ quiet \in StateType /\ quiet.r = s.r /\ quiet.threw = s.threw /\ Core(s.m, quiet.m)
        /\ Finishes(s.m, quiet.m, None)
    <3> HIDE DEF quiet
    <3> QED BY <2>1, <2>0, FinishesDoes
  <2> QED BY <2>2 DEF Finishes
<1>2. p = IF Over(s.m.status) THEN quiet
          ELSE IF done.threw THEN done ELSE [done EXCEPT !.m.terminal = o]
  BY DEF Finalize
<1>3. o \in Endings /\ StatusOf(o) \in Statuses
  BY StatusOfType DEF Endings, Statuses
<1> HIDE DEF quiet
<1>4. CASE Over(s.m.status)
  BY <1>1, <1>2, <1>4 DEF Core
<1>5. CASE ~Over(s.m.status)
  <2>1. ~Over(quiet.m.status)
    BY <1>1, <1>5 DEF Core
  <2>2. /\ c \in StateType /\ Same(quiet.m, c.m) /\ c.threw = quiet.threw
        /\ c.m.status = StatusOf(o) /\ c.m.version = quiet.m.version + 1
        /\ Written(quiet.r, quiet.m.committed, c, quiet.m.version + 1, StatusOf(o), ok1)
    <3> HIDE DEF c
    <3>1. c = Consume(quiet, StatusOf(o), TRUE, ok1)
      BY DEF c
    <3>2. /\ c \in StateType /\ Same(quiet.m, c.m) /\ c.threw = quiet.threw
          /\ Wrote(quiet, c, StatusOf(o), quiet.m.version + 1, ok1)
      BY <1>1, <1>3, <2>1, <3>1, ConsumeNowDoes
    <3> QED BY <3>2 DEF Wrote
  <2> HIDE DEF c
  <2>3. /\ done \in StateType /\ done.m = c.m
        /\ ok2 => /\ done.threw = c.threw
                  /\ done.r.state = "terminal" /\ done.r.version = c.m.version /\ done.r.outcome = o
                  /\ done.r.content = c.r.content
                  /\ done.r.message = IF c.r.message = "streaming" THEN StatusOf(o) ELSE c.r.message
        /\ ~ok2 => done.r = c.r /\ done.threw
    BY <1>3, <2>2, UpdateDoes
  <2> HIDE DEF done
  <2>4. /\ c.m.known = s.m.known /\ c.m.kept = s.m.kept /\ c.m.terminal = s.m.terminal
        /\ c.m.configuring = s.m.configuring /\ c.m.execution = s.m.execution /\ c.m.finishing = None
        /\ c.m.version = s.m.version + 1 /\ c.threw = FALSE
        /\ Written(s.r, s.m.committed, c, s.m.version + 1, StatusOf(o), ok1)
    BY <1>1, <2>2 DEF Core, Same, Mode
  <2>5. CASE ok2
    <3>1. p = Telling(done, o)
      BY <1>2, <1>5, <2>3, <2>4, <2>5 DEF Telling
    <3>2. /\ p \in StateType /\ p.r = done.r /\ p.threw = done.threw /\ Core(done.m, p.m)
          /\ p.m.terminal = o /\ p.m.configuring = done.m.configuring
          /\ p.m.execution = done.m.execution /\ p.m.finishing = done.m.finishing
      BY <1>3, <2>3, <3>1, ToldDoes DEF Told
    <3>3. p.m.known = s.m.known /\ p.m.kept = s.m.kept
      BY <2>3, <2>4, <3>2 DEF Core
    <3>4. Core(c.m, p.m) /\ ~p.threw
      BY <2>3, <2>4, <2>5, <3>2
    <3>5. Wrote(s, c, StatusOf(o), s.m.version + 1, ok1)
      BY <2>2, <2>4 DEF Wrote
    <3>6. Closes(c, p, o, ok2)
      BY <2>3, <2>5, <3>2, <3>4 DEF Closes
    <3> QED BY <1>5, <2>2, <2>3, <2>4, <2>5, <3>2, <3>3, <3>4, <3>5, <3>6
  <2>6. CASE ~ok2
    <3>1. p = done
      BY <1>2, <1>5, <2>3, <2>6
    <3>2. Core(c.m, p.m)
      BY <2>3, <3>1 DEF Core
    <3>3. Wrote(s, c, StatusOf(o), s.m.version + 1, ok1)
      BY <2>2, <2>4 DEF Wrote
    <3>4. Closes(c, p, o, ok2)
      BY <2>3, <2>6, <3>1, <3>2 DEF Closes
    <3> QED BY <1>5, <2>2, <2>3, <2>4, <2>6, <3>1, <3>2, <3>3, <3>4
  <2> QED BY <2>5, <2>6
<1> QED BY <1>4, <1>5

\* What the rejection handler of execute calls a turn it ends.
RejectedAs(m) == IF m.status = "cancelled" THEN "cancelled" ELSE "failed"

\* A source that throws: the message is written, then the outcome.
LEMMA RejectedDoes ==
  ASSUME NEW s \in StateType, s.m.finishing = None, NEW ok1, NEW ok2, NEW p, p = Rejected(s, ok1, ok2)
  PROVE  \E c \in StateType :
           /\ Wrote(s, c, RejectedAs(s.m), s.m.version, ok1)
           /\ c.m.terminal = RejectedAs(s.m) /\ c.m.configuring = s.m.configuring
           /\ c.m.execution = s.m.execution /\ c.m.finishing = None
           /\ Closes(c, p, RejectedAs(s.m), ok2) /\ p.m = c.m
<1> DEFINE o == RejectedAs(s.m)
           n == [s.m EXCEPT !.status = o]
           failed == [s EXCEPT !.m.status = o, !.threw = FALSE]
           flushed == Flush(failed, ok1)
           told == [flushed EXCEPT !.m.terminal = o]
<1>1. o \in Endings /\ o \in Statuses
  BY DEF Endings, Statuses, RejectedAs
<1>2. p = Update(told, "terminal", o, ok2)
  BY DEF Rejected, RejectedAs
<1> HIDE DEF o
<1>3. s.m \in MemType /\ s.r \in RowType
  BY DEF StateType
<1>4. n \in MemType
  BY <1>1, <1>3 DEF MemType
<1>5. Same(s.m, n) /\ n.status = o /\ n.version = s.m.version /\ n.committed = s.m.committed
  BY <1>3 DEF MemType, Same, Mode
<1>6. failed = [m |-> n, r |-> s.r, threw |-> FALSE]
  <2>1. failed = [[s EXCEPT !.m = n] EXCEPT !.threw = FALSE]
    BY DEF StateType
  <2> HIDE DEF n
  <2>2. s = [m |-> s.m, r |-> s.r, threw |-> s.threw]
    BY DEF StateType
  <2> HIDE DEF failed
  <2> QED BY <2>1, <2>2
<1> HIDE DEF n
<1>7. failed \in StateType /\ failed.m = n /\ failed.r = s.r
  BY <1>3, <1>4, <1>6 DEF StateType
<1> HIDE DEF failed
<1>8. /\ flushed \in StateType /\ Same(failed.m, flushed.m)
      /\ flushed.m.status = failed.m.status /\ flushed.m.version = failed.m.version
      /\ Written(failed.r, failed.m.committed, flushed, failed.m.version, failed.m.status, ok1)
  BY <1>7, FlushDoes
<1> HIDE DEF flushed
<1>9. /\ told \in StateType /\ told.r = flushed.r /\ Core(flushed.m, told.m)
      /\ told.m.terminal = o /\ told.m.configuring = flushed.m.configuring
      /\ told.m.execution = flushed.m.execution /\ told.m.finishing = flushed.m.finishing
  <2>0. told = Telling(flushed, o)
    BY DEF Telling
  <2>1. told \in StateType /\ told.r = flushed.r /\ Core(flushed.m, told.m) /\ Told(flushed.m, told.m, o)
    <3> HIDE DEF told
    <3> QED BY <1>1, <1>8, <2>0, ToldDoes
  <2> QED BY <2>1 DEF Told
<1> HIDE DEF told
<1>10. Written(s.r, s.m.committed, flushed, s.m.version, o, ok1)
  BY <1>5, <1>7, <1>8
<1>11. Written(s.r, s.m.committed, told, s.m.version, o, ok1)
  BY <1>9, <1>10 DEF Written, Core
<1>12. /\ told.m.status = o /\ told.m.version = s.m.version
       /\ told.m.known = s.m.known /\ told.m.kept = s.m.kept /\ told.m.configuring = s.m.configuring
       /\ told.m.execution = s.m.execution /\ told.m.finishing = None
  BY <1>5, <1>7, <1>8, <1>9 DEF Core, Same, Mode
<1>13. Wrote(s, told, o, s.m.version, ok1)
  BY <1>9, <1>11, <1>12 DEF Wrote
<1>14. Closes(told, p, o, ok2) /\ p.m = told.m
  BY <1>1, <1>2, <1>9, UpdateDoes DEF Closes, Core
<1> QED BY <1>9, <1>12, <1>13, <1>14 DEF o

\* What the fulfilment handler of execute takes for the outcome.
AcceptedAs(m, o) ==
  IF m.terminal # None THEN m.terminal
  ELSE IF Over(m.status) /\ m.status = "completed" THEN "completed" ELSE o

\* A source that returns: the message is written unless it was final, then the
\* outcome.
LEMMA FulfilledDoes ==
  ASSUME NEW s \in StateType, s.m.finishing = None, NEW o \in Endings, NEW ok1, NEW ok2,
         NEW p, p = Fulfilled(s, o, ok1, ok2)
  PROVE  \E c \in StateType :
           /\ c.threw = s.threw /\ c.m.terminal = AcceptedAs(s.m, o)
           /\ c.m.configuring = s.m.configuring /\ c.m.execution = s.m.execution /\ c.m.finishing = None
           /\ Over(s.m.status) => Core(s.m, c.m) /\ c.r = s.r
           /\ ~Over(s.m.status) => Wrote(s, c, StatusOf(o), s.m.version, ok1)
           /\ s.m.terminal # None => p = c
           /\ s.m.terminal = None => /\ Closes(c, p, AcceptedAs(s.m, o), ok2) /\ p.m = c.m
                                     /\ IF ok2 THEN p.threw = c.threw ELSE p.threw
<1> DEFINE a == AcceptedAs(s.m, o)
           n == [s.m EXCEPT !.status = StatusOf(o)]
           final == [s EXCEPT !.m.status = StatusOf(o)]
           flushed == Flush(final, ok1)
           settled == IF Over(s.m.status) THEN s ELSE flushed
           told == [settled EXCEPT !.m.terminal = a]
<1>1. s.m \in MemType /\ s.r \in RowType /\ s.threw \in BOOLEAN
  BY DEF StateType
<1>2. a \in Endings
  BY <1>1 DEF AcceptedAs, MemType, Endings
<1>3. p = IF s.m.terminal # None THEN told ELSE Update(told, "terminal", a, ok2)
  BY DEF Fulfilled, AcceptedAs
<1> HIDE DEF a
<1>4. StatusOf(o) \in Statuses
  BY StatusOfType DEF Statuses
<1>5. n \in MemType
  BY <1>1, <1>4 DEF MemType
<1>6. Same(s.m, n) /\ n.status = StatusOf(o) /\ n.version = s.m.version /\ n.committed = s.m.committed
  BY <1>1 DEF MemType, Same, Mode
<1>7. final = [m |-> n, r |-> s.r, threw |-> s.threw]
  BY DEF StateType
<1> HIDE DEF n
<1>8. final \in StateType /\ final.m = n /\ final.r = s.r /\ final.threw = s.threw
  BY <1>1, <1>5, <1>7 DEF StateType
<1> HIDE DEF final
<1>9. /\ flushed \in StateType /\ Same(final.m, flushed.m) /\ flushed.threw = final.threw
      /\ flushed.m.status = final.m.status /\ flushed.m.version = final.m.version
      /\ Written(final.r, final.m.committed, flushed, final.m.version, final.m.status, ok1)
  BY <1>8, FlushDoes
<1> HIDE DEF flushed
<1>10. /\ settled \in StateType /\ settled.threw = s.threw /\ Same(s.m, settled.m)
       /\ settled.m.version = s.m.version
       /\ Over(s.m.status) => settled = s
       /\ ~Over(s.m.status) => /\ settled.m.status = StatusOf(o)
                               /\ Written(s.r, s.m.committed, settled, s.m.version, StatusOf(o), ok1)
  BY <1>6, <1>8, <1>9 DEF Same, Mode
<1> HIDE DEF settled
<1>11. /\ told \in StateType /\ told.r = settled.r /\ told.threw = settled.threw /\ Core(settled.m, told.m)
       /\ told.m.terminal = a /\ told.m.configuring = settled.m.configuring
       /\ told.m.execution = settled.m.execution /\ told.m.finishing = settled.m.finishing
  <2>0. told = Telling(settled, a)
    BY DEF Telling
  <2>1. /\ told \in StateType /\ told.r = settled.r /\ told.threw = settled.threw
        /\ Core(settled.m, told.m) /\ Told(settled.m, told.m, a)
    <3> HIDE DEF told
    <3> QED BY <1>2, <1>10, <2>0, ToldDoes
  <2> QED BY <2>1 DEF Told
<1> HIDE DEF told
<1>12. ~Over(s.m.status) => /\ told.m.status = StatusOf(o)
                            /\ Written(s.r, s.m.committed, told, s.m.version, StatusOf(o), ok1)
  BY <1>10, <1>11 DEF Written, Core
<1>13. Over(s.m.status) => Core(s.m, told.m) /\ told.r = s.r
  BY <1>10, <1>11
<1>14. /\ told.threw = s.threw /\ told.m.version = s.m.version
       /\ told.m.known = s.m.known /\ told.m.kept = s.m.kept /\ told.m.configuring = s.m.configuring
       /\ told.m.execution = s.m.execution /\ told.m.finishing = None
  BY <1>10, <1>11 DEF Core, Same, Mode
<1>15. ~Over(s.m.status) => Wrote(s, told, StatusOf(o), s.m.version, ok1)
  BY <1>11, <1>12, <1>14 DEF Wrote
<1>16. s.m.terminal = None => /\ Closes(told, p, a, ok2) /\ p.m = told.m
                              /\ IF ok2 THEN p.threw = told.threw ELSE p.threw
  BY <1>2, <1>3, <1>11, UpdateDoes DEF Closes, Core
<1> QED BY <1>3, <1>11, <1>13, <1>14, <1>15, <1>16 DEF a

\* p is s with a fact taken in that is not written at once.
Scheduled(s, p, status) ==
  /\ p \in StateType /\ p.m.known = s.m.known /\ p.m.kept = s.m.kept /\ p.r = s.r
  /\ p.m.status = status /\ p.m.version = s.m.version + 1
  /\ p.m.committed = s.m.committed /\ p.m.ckFailed = s.m.ckFailed
  /\ p.m.timer = IF s.m.timer = NoTimer THEN LiveTimer ELSE s.m.timer

\* The terminal fact of a source that returns, or of one that rejects.
Reported(s, p, o, ok) ==
  /\ p \in StateType /\ Mode(s.m, p.m) /\ p.threw = s.threw
  /\ \/ Core(s.m, p.m) /\ p.r = s.r /\ (s.m.finishing # None \/ o = "recovered" \/ Over(s.m.status))
     \/ /\ s.m.finishing = None /\ o # "recovered" /\ ~Over(s.m.status)
        /\ IF o = "parked" THEN Scheduled(s, p, "sent") ELSE Wrote(s, p, StatusOf(o), s.m.version + 1, ok)

\* A report is an event, a checkpoint that waits, or nothing.
LEMMA ReportDoes ==
  ASSUME NEW s \in StateType, NEW o \in Endings, NEW ok, NEW p, p = Report(s, o, ok)
  PROVE  Reported(s, p, o, ok)
<1> DEFINE u == Hearing(s, FALSE)
           now == o # "parked"
<1>1. u \in StateType /\ u.r = s.r /\ u.threw = s.threw /\ Core(s.m, u.m) /\ Mode(s.m, u.m)
  <2> HIDE DEF u
  <2>1. u = Hearing(s, FALSE) /\ FALSE \in BOOLEAN
    BY DEF u
  <2> QED BY <2>1, HeardDoes, Zenon
<1>2. p = IF o = "recovered" THEN s ELSE IF s.m.finishing # None THEN u ELSE Consume(u, StatusOf(o), now, ok)
  BY DEF Report, Hearing
<1>3. StatusOf(o) \in Statuses /\ StatusOf("parked") = "sent"
  BY StatusOfType DEF Statuses, StatusOf
<1> HIDE DEF u, now
<1>4. CASE o = "recovered"
  BY <1>2, <1>4 DEF Reported, Core, Mode
<1>5. CASE o # "recovered" /\ s.m.finishing # None
  BY <1>1, <1>2, <1>5 DEF Reported
<1>6. CASE o # "recovered" /\ s.m.finishing = None
  <2>1. p = Consume(u, StatusOf(o), now, ok)
    BY <1>2, <1>6
  <2>2. /\ p \in StateType /\ Same(u.m, p.m) /\ p.threw = u.threw
        /\ Over(u.m.status) => p = u
        /\ ~Over(u.m.status) =>
             /\ p.m.status = StatusOf(o) /\ p.m.version = u.m.version + 1
             /\ now => Written(u.r, u.m.committed, p, u.m.version + 1, StatusOf(o), ok)
             /\ ~now => /\ p.r = u.r /\ p.m.committed = u.m.committed /\ p.m.ckFailed = u.m.ckFailed
                        /\ p.m.timer = IF u.m.timer = NoTimer THEN LiveTimer ELSE u.m.timer
    BY <1>1, <1>3, <2>1, ConsumeDoes
  <2>3. Mode(s.m, p.m) /\ p.m.known = s.m.known /\ p.m.kept = s.m.kept /\ p.threw = s.threw
    BY <1>1, <2>2 DEF Core, Same, Mode
  <2>4. u.m.status = s.m.status /\ u.m.version = s.m.version /\ u.m.committed = s.m.committed
        /\ u.m.ckFailed = s.m.ckFailed /\ u.m.timer = s.m.timer
    BY <1>1 DEF Core
  <2>5. CASE Over(s.m.status)
    BY <1>1, <2>2, <2>3, <2>4, <2>5 DEF Reported
  <2>6. CASE ~Over(s.m.status) /\ o = "parked"
    <3>1. Scheduled(s, p, "sent")
      BY <1>1, <1>3, <2>2, <2>3, <2>4, <2>6 DEF Scheduled, now
    <3> QED BY <1>6, <2>2, <2>3, <2>6, <3>1 DEF Reported
  <2>7. CASE ~Over(s.m.status) /\ o # "parked"
    <3>1. Wrote(s, p, StatusOf(o), s.m.version + 1, ok)
      BY <1>1, <2>2, <2>3, <2>4, <2>7 DEF Wrote, now
    <3> QED BY <1>6, <2>2, <2>3, <2>7, <3>1 DEF Reported
  <2> QED BY <2>5, <2>6, <2>7
<1> QED BY <1>4, <1>5, <1>6

\* A report of a failure is one of failed.
LEMMA ReportFailureDoes ==
  ASSUME NEW s \in StateType, NEW ok, NEW p, p = ReportFailure(s, ok)
  PROVE  Reported(s, p, "failed", ok)
<1>1. p = IF s.m.finishing # None THEN s ELSE Consume(s, "failed", TRUE, ok)
  BY DEF ReportFailure
<1>2. "failed" \in Statuses /\ StatusOf("failed") = "failed"
  BY DEF Statuses, StatusOf
<1>3. CASE s.m.finishing # None
  BY <1>1, <1>3 DEF Reported, Core, Mode
<1>4. CASE s.m.finishing = None /\ Over(s.m.status)
  <2>1. p = s
    BY <1>1, <1>4 DEF Consume
  <2> QED BY <1>4, <2>1 DEF Reported, Core, Mode
<1>5. CASE s.m.finishing = None /\ ~Over(s.m.status)
  <2>1. p = Consume(s, "failed", TRUE, ok)
    BY <1>1, <1>5
  <2>2. /\ p \in StateType /\ Same(s.m, p.m) /\ p.threw = s.threw
        /\ Wrote(s, p, "failed", s.m.version + 1, ok)
    BY <1>2, <1>5, <2>1, ConsumeNowDoes
  <2> QED BY <1>2, <1>5, <2>2 DEF Reported, Same
<1> QED BY <1>3, <1>4, <1>5

-----------------------------------------------------------------------------
(* What a step does to one turn: b is the turn before it and n after it, F *)
(* the writes of the step that fail.                                       *)

Still(b, n) == n.m = b.m /\ n.r = b.r
Dies(b, n) == n.m = Unknown /\ n.r = b.r

Begins(b, n) ==
  /\ b.r = NoRow /\ n.m.known
  /\ n.m.status = "streaming" /\ n.m.version = b.m.version /\ n.m.kept = b.m.kept
  /\ n.m.execution = b.m.execution /\ n.m.finishing = b.m.finishing /\ n.m.terminal = b.m.terminal
  /\ n.m.timer = b.m.timer /\ n.m.committed = b.m.committed /\ n.m.ckFailed = b.m.ckFailed
  /\ n.r.state \in {"configuring", "prepared"} /\ n.m.configuring = (n.r.state = "configuring")
  /\ n.r.version = 0 /\ n.r.content = 0 /\ n.r.outcome = None /\ n.r.message = "streaming"

Replays(b, n) ==
  /\ b.r # NoRow /\ MaxReplays # 0 /\ n.r = b.r /\ Mode(b.m, n.m)
  /\ n.m.known /\ n.m.status = b.r.message /\ n.m.version = b.r.version /\ n.m.kept = b.r.outcome
  /\ n.m.timer = b.m.timer /\ n.m.committed = b.m.committed /\ n.m.ckFailed = b.m.ckFailed

Configures(b, n) ==
  /\ b.m.configuring /\ b.r.state = "configuring"
  /\ Core(b.m, n.m) /\ Unset(b.m, n.m)
  /\ n.r.state = "prepared" /\ n.r.version = b.r.version /\ n.r.content = b.r.content
  /\ n.r.outcome = b.r.outcome /\ n.r.message = b.r.message

ConfigurationEnds(b, n, F) ==
  /\ b.m.configuring
  /\ \E c \in StateType :
       /\ IF Over(b.m.status) THEN c = b ELSE Wrote(b, c, "failed", b.m.version + 1, 1 \notin F)
       /\ Mode(b.m, c.m) /\ Core(c.m, n.m) /\ Unset(c.m, n.m)
       /\ IF c.r.state = "configuring" THEN Closes(c, n, "failed", 2 \notin F) ELSE n.r = c.r

Starts(b, n, F) ==
  /\ b.m.known /\ b.r.state \in {"prepared", "executing"} /\ b.m.kept = None /\ b.m.execution = "none"
  /\ IF 1 \in F THEN Still(b, n)
     ELSE /\ Core(b.m, n.m) /\ Executed(b.m, n.m, "running")
          /\ n.r.state = "executing" /\ n.r.version = b.m.version /\ n.r.content = b.r.content
          /\ n.r.outcome = b.r.outcome /\ n.r.message = b.r.message

Tells(b, n, F) ==
  /\ b.m.execution = "running" /\ ~Over(b.m.status) /\ Mode(b.m, n.m)
  /\ \/ Core(b.m, n.m) /\ n.r = b.r
     \/ Scheduled(b, n, b.m.status)
     \/ Wrote(b, n, b.m.status, b.m.version + 1, 1 \notin F)

\* The execution is settled, the turn otherwise as it is in x.
Settles(x, n) == Core(x.m, n.m) /\ Executed(x.m, n.m, "settled") /\ n.r = x.r

Returns(b, n, F) ==
  /\ b.m.execution = "running"
  /\ \E o \in Outcomes : \E a, f, x \in StateType :
       /\ Reported(b, a, o, 1 \notin F)
       /\ f = Fulfilled(a, o, 2 \notin F, 3 \notin F)
       /\ IF f.threw THEN x = Rejected(f, 4 \notin F, 5 \notin F) ELSE x = f
       /\ Settles(x, n)

Rejects(b, n, F) ==
  /\ b.m.execution = "running"
  /\ \E a, x \in StateType :
       /\ Reported(b, a, "failed", 1 \notin F)
       /\ x = Rejected(a, 2 \notin F, 3 \notin F)
       /\ Settles(x, n)

Stops(b, n, F) ==
  /\ b.m.known /\ ~Over(b.m.status) /\ b.m.finishing = None
  /\ \E o \in {"cancelled", "timed-out"} : \E u \in StateType :
       /\ o = "timed-out" => Timeouts
       /\ Core(b.m, u.m) /\ Unset(b.m, u.m) /\ u.r = b.r /\ u.threw = FALSE
       /\ IF b.m.execution # "none" THEN Core(u.m, n.m) /\ Finishes(u.m, n.m, o) /\ n.r = u.r
          ELSE \E p \in StateType : p = Finalize(u, o, 1 \notin F, 2 \notin F) /\ Still(p, n)

Closing(b, n, F) ==
  /\ b.m.finishing # None
  /\ \E p \in StateType : p = Finalize(b, b.m.finishing, 1 \notin F, 2 \notin F) /\ Still(p, n)

Ticks(b, n, F) ==
  /\ b.m.timer # NoTimer
  /\ Mode(b.m, n.m) /\ n.m.known = b.m.known /\ n.m.kept = b.m.kept
  /\ n.m.status = b.m.status /\ n.m.version = b.m.version
  /\ IF b.m.timer.kind = "live"
     THEN Written(b.r, b.m.committed, n, b.m.version, b.m.status, 1 \notin F)
     ELSE Written(b.r, b.m.committed, n, b.m.timer.version, b.m.timer.status, 1 \notin F)

Recovers(b, n) ==
  /\ Unfinished(b.r) /\ b.r.message \in {"streaming", "failed"}
  /\ WakeRecovers \/ ((b.m.known => Over(b.m.status)) /\ b.m.execution # "running")
  /\ \E o \in Canonical \cup {"recovered"} :
       /\ n.r.state = "terminal" /\ n.r.outcome = o /\ n.r.version = b.r.version + 1
       /\ n.r.content = b.r.content /\ n.r.message = StatusOf(o)
       /\ b.m.known =>
            /\ n.m.known /\ n.m.status = StatusOf(o) /\ n.m.version = b.m.version + 1
            /\ n.m.kept = o /\ n.m.terminal = o
            /\ n.m.configuring = b.m.configuring /\ n.m.execution = b.m.execution
            /\ n.m.finishing = b.m.finishing /\ n.m.timer = b.m.timer
            /\ n.m.committed = b.m.committed /\ n.m.ckFailed = b.m.ckFailed
       /\ ~b.m.known => n.m = [b.m EXCEPT !.recovered = TRUE]

\* The handlers that write and may fail.
Handled(b, n, F) ==
  \/ ConfigurationEnds(b, n, F) \/ Starts(b, n, F) \/ Tells(b, n, F)
  \/ Returns(b, n, F) \/ Rejects(b, n, F) \/ Stops(b, n, F) \/ Closing(b, n, F) \/ Ticks(b, n, F)

\* All that may happen to a turn but that it is begun.
Moved(b, n) ==
  \/ Still(b, n) \/ Dies(b, n) \/ Replays(b, n) \/ Configures(b, n) \/ Recovers(b, n)
  \/ \E F \in SUBSET (1..5) : (MaxFaults = 0 => F = {}) /\ Handled(b, n, F)

\* The failing writes of a handler, and the turns that it leaves alone.
LEMMA LeaveMoves ==
  ASSUME TypeOK, NEW t \in Turns, NEW n \in 0..5, NEW F \in Failing(n), NEW s, Leave(t, s, F)
  PROVE  /\ F \in SUBSET (1..5) /\ (MaxFaults = 0 => F = {})
         /\ Here(t)'.m = s.m /\ Here(t)'.r = s.r
         /\ \A u \in Turns \ {t} : Still(Here(u), Here(u)')
<1>1. F \in SUBSET (1..n) /\ F \in SUBSET (1..5) /\ IsFiniteSet(F)
  <2>1. F \in SUBSET (1..n) /\ F \in SUBSET (1..5)
    BY DEF Failing
  <2>2. IsFiniteSet(1..n)
    BY FS_Interval
  <2> QED BY <2>1, <2>2, FS_Subset
<1>2. MaxFaults = 0 => F = {}
  <2> SUFFICES ASSUME MaxFaults = 0 PROVE F = {}
    OBVIOUS
  <2>1. faults \in Nat /\ Cardinality(F) \in Nat
    BY <1>1, FS_CardinalityType DEF TypeOK
  <2>2. faults + Cardinality(F) <= 0
    BY DEF Failing
  <2>3. Cardinality(F) = 0
    BY <2>1, <2>2
  <2> QED BY <1>1, <2>3, FS_EmptySet
<1>3. mem' = [mem EXCEPT ![t] = s.m] /\ row' = [row EXCEPT ![t] = s.r]
  BY DEF Leave
<1>4. Here(t)'.m = s.m /\ Here(t)'.r = s.r
  BY <1>3 DEF Here, TypeOK
<1>5. \A u \in Turns \ {t} : Still(Here(u), Here(u)')
  BY <1>3 DEF Here, TypeOK, Still
<1> QED BY <1>1, <1>2, <1>4, <1>5

\* A handler of one turn moves that turn and no other.
LEMMA HandlerMoves ==
  ASSUME TypeOK, NEW t \in Turns, NEW n \in 0..5, NEW F \in Failing(n), NEW s, Leave(t, s, F),
         Handled(Here(t), Here(t)', F)
  PROVE  \A u \in Turns : Moved(Here(u), Here(u)')
<1>1. /\ F \in SUBSET (1..5) /\ (MaxFaults = 0 => F = {})
      /\ \A u \in Turns \ {t} : Still(Here(u), Here(u)')
  BY LeaveMoves
<1>2. Moved(Here(t), Here(t)')
  BY <1>1 DEF Moved
<1> QED BY <1>1, <1>2 DEF Moved

-----------------------------------------------------------------------------
(* Each action moves the turns in one of these ways.                       *)

AllMove == \A u \in Turns : Moved(Here(u), Here(u)')

\* A turn before a step has its type,
LEMMA HereIs ==
  ASSUME TypeOK, NEW t \in Turns
  PROVE  /\ Here(t) \in StateType /\ Here(t).m = mem[t] /\ Here(t).r = row[t] /\ Here(t).threw = FALSE
         /\ mem[t] \in MemType /\ row[t] \in RowType
  BY DEF Here, StateType, TypeOK

\* and so after it.
LEMMA HereNext ==
  ASSUME TypeOK', NEW t \in Turns
  PROVE  /\ Here(t)' \in StateType /\ Here(t)'.m = mem'[t] /\ Here(t)'.r = row'[t]
         /\ mem'[t] \in MemType /\ row'[t] \in RowType
  BY DEF Here, StateType, TypeOK

\* Prepare begins one turn, of a session that is not busy, and leaves the others
\* alone.
LEMMA PrepareBegins ==
  ASSUME TypeOK, NEW t \in Turns, NEW state \in {"configuring", "prepared"}, Prepare(t, state)
  PROVE  /\ Begins(Here(t), Here(t)') /\ ~Busy(SessionOf[t])
         /\ \A u \in Turns \ {t} : Still(Here(u), Here(u)')
<1> DEFINE m == [mem[t] EXCEPT !.known = TRUE, !.status = "streaming", !.configuring = state = "configuring"]
           r == [NoRow EXCEPT !.state = state, !.message = "streaming"]
           s == [m |-> m, r |-> r]
<1>1. {} \in Failing(0)
  BY FS_EmptySet, TurnAssumption DEF Failing, TypeOK
<1>2. Leave(t, s, {}) /\ row[t] = NoRow /\ ~Busy(SessionOf[t])
  BY DEF Prepare
<1>3. s.m = m /\ s.r = r
  OBVIOUS
<1>4. /\ m.known /\ m.status = "streaming" /\ m.version = mem[t].version /\ m.kept = mem[t].kept
      /\ m.execution = mem[t].execution /\ m.finishing = mem[t].finishing /\ m.terminal = mem[t].terminal
      /\ m.timer = mem[t].timer /\ m.committed = mem[t].committed /\ m.ckFailed = mem[t].ckFailed
      /\ m.configuring = (state = "configuring")
  <2>1. mem[t] \in MemType
    BY HereIs
  <2> QED BY <2>1 DEF MemType
<1>5. /\ r.state = state /\ r.version = 0 /\ r.content = 0 /\ r.outcome = None /\ r.message = "streaming"
  BY DEF NoRow
<1> HIDE DEF m, r, s
<1>6. Here(t)'.m = s.m /\ Here(t)'.r = s.r /\ \A u \in Turns \ {t} : Still(Here(u), Here(u)')
  BY <1>1, <1>2, LeaveMoves
<1> QED BY <1>2, <1>3, <1>4, <1>5, <1>6, HereIs DEF Begins

\* A replayed request moves the turns in one of these ways.
LEMMA ReplayMoves ==
  ASSUME TypeOK, NEW t \in Turns, Replay(t)
  PROVE  AllMove
<1> DEFINE m == [mem[t] EXCEPT !.known = TRUE, !.status = row[t].message, !.version = row[t].version,
                               !.kept = row[t].outcome, !.gap = mem[t].heard]
<1>1. /\ mem' = [mem EXCEPT ![t] = m] /\ row' = row
      /\ row[t] # NoRow /\ replays < MaxReplays /\ replays \in Nat
  <2>1. row' = row /\ row[t] # NoRow /\ replays < MaxReplays /\ replays \in Nat
    BY DEF Replay, TypeOK
  <2>2. mem' = [mem EXCEPT ![t] = m]
    BY HereIs DEF Replay, TypeOK
  <2> QED BY <2>1, <2>2
<1>2. /\ m.known /\ m.status = row[t].message /\ m.version = row[t].version /\ m.kept = row[t].outcome
      /\ m.timer = mem[t].timer /\ m.committed = mem[t].committed /\ m.ckFailed = mem[t].ckFailed
      /\ Mode(mem[t], m)
  <2>1. mem[t] \in MemType
    BY HereIs
  <2> QED BY <2>1 DEF MemType, Mode
<1> HIDE DEF m
<1>3. mem'[t] = m /\ \A u \in Turns \ {t} : mem'[u] = mem[u]
  BY <1>1 DEF TypeOK
<1>4. MaxReplays # 0
  BY <1>1, TurnAssumption
<1>5. Here(t)'.m = m /\ Here(t)'.r = row[t]
  BY <1>1, <1>3 DEF Here
<1>6. Replays(Here(t), Here(t)')
  BY <1>1, <1>2, <1>4, <1>5, HereIs DEF Replays
<1>7. \A u \in Turns \ {t} : Still(Here(u), Here(u)')
  BY <1>1, <1>3 DEF Here, Still
<1> QED BY <1>6, <1>7 DEF AllMove, Moved

\* A configuration that ends does.
LEMMA ConfiguredMoves ==
  ASSUME TypeOK, NEW t \in Turns, Configured(t)
  PROVE  AllMove
<1> DEFINE m == [mem[t] EXCEPT !.configuring = FALSE]
           r == [row[t] EXCEPT !.state = "prepared"]
           s == [m |-> m, r |-> r]
<1>1. {} \in Failing(0)
  BY FS_EmptySet, TurnAssumption DEF Failing, TypeOK
<1>2. Leave(t, s, {}) /\ mem[t].configuring /\ row[t].state = "configuring"
  BY DEF Configured
<1>3. s.m = m /\ s.r = r
  OBVIOUS
<1>4. Core(mem[t], m) /\ Unset(mem[t], m)
  BY HereIs DEF MemType, Core, Unset
<1>5. /\ r.state = "prepared" /\ r.version = row[t].version /\ r.content = row[t].content
      /\ r.outcome = row[t].outcome /\ r.message = row[t].message
  <2>1. row[t] \in RowType
    BY HereIs
  <2> QED BY <2>1 DEF RowType
<1> HIDE DEF m, r, s
<1>6. Here(t)'.m = s.m /\ Here(t)'.r = s.r /\ \A u \in Turns \ {t} : Still(Here(u), Here(u)')
  BY <1>1, <1>2, LeaveMoves
<1>7. Configures(Here(t), Here(t)')
  BY <1>2, <1>3, <1>4, <1>5, <1>6, HereIs DEF Configures
<1> QED BY <1>6, <1>7 DEF AllMove, Moved

\* One that fails does.
LEMMA ConfigurationFailsMoves ==
  ASSUME TypeOK, NEW t \in Turns, ConfigurationFails(t)
  PROVE  AllMove
<1> DEFINE c(F) == Consume(Here(t), "failed", TRUE, 1 \notin F)
           m(F) == [c(F).m EXCEPT !.configuring = FALSE]
           r(F) == IF c(F).r.state = "configuring" /\ 2 \notin F
                   THEN UpdateRow(c(F).r, "terminal", c(F).m.version, "failed") ELSE c(F).r
           s(F) == [m |-> m(F), r |-> r(F)]
<1>1. PICK F \in Failing(2) : mem[t].configuring /\ Leave(t, s(F), F)
  BY DEF ConfigurationFails
<1> DEFINE b == Here(t)
<1>2. b \in StateType /\ b.m = mem[t] /\ b.r = row[t] /\ "failed" \in Statuses
  BY HereIs DEF Statuses
<1> HIDE DEF b
<1>3. /\ c(F) \in StateType /\ Mode(b.m, c(F).m)
      /\ IF Over(b.m.status) THEN c(F) = b ELSE Wrote(b, c(F), "failed", b.m.version + 1, 1 \notin F)
  <2> DEFINE d == c(F)
  <2>1. d = Consume(b, "failed", TRUE, 1 \notin F)
    BY DEF b
  <2>2. CASE Over(b.m.status)
    <3>1. d = b
      BY <2>1, <2>2 DEF Consume
    <3> HIDE DEF c, d
    <3>2. d \in StateType /\ Mode(b.m, d.m)
      BY <1>2, <3>1 DEF Mode
    <3> QED BY <2>2, <3>1, <3>2 DEF d
  <2>3. CASE ~Over(b.m.status)
    <3> HIDE DEF d
    <3>1. d \in StateType /\ Same(b.m, d.m) /\ Wrote(b, d, "failed", b.m.version + 1, 1 \notin F)
      BY <1>2, <2>1, <2>3, ConsumeNowDoes
    <3> QED BY <2>3, <3>1 DEF Same, d
  <2> QED BY <2>2, <2>3
<1>4. s(F).m = m(F) /\ s(F).r = r(F)
  OBVIOUS
<1> HIDE DEF c
<1>5. Core(c(F).m, m(F)) /\ Unset(c(F).m, m(F)) /\ m(F).version = c(F).m.version /\ m(F) \in MemType
  <2>1. c(F).m \in MemType
    BY <1>3 DEF StateType
  <2> QED BY <2>1 DEF MemType, Core, Unset
<1> HIDE DEF m, s
<1>6. Here(t)'.m = m(F) /\ Here(t)'.r = r(F)
  <2> HIDE DEF r
  <2> QED BY <1>1, <1>4, LeaveMoves
<1>7. IF c(F).r.state = "configuring" THEN Closes(c(F), Here(t)', "failed", 2 \notin F)
      ELSE Here(t)'.r = c(F).r
  <2>1. CASE c(F).r.state = "configuring" /\ 2 \notin F
    <3> DEFINE w == UpdateRow(c(F).r, "terminal", c(F).m.version, "failed")
    <3>1. r(F) = w
      BY <2>1
    <3>2. c(F).r \in RowType /\ "failed" # None
      BY <1>3 DEF StateType, None
    <3>3. /\ w.state = "terminal" /\ w.version = c(F).m.version /\ w.outcome = "failed"
          /\ w.content = c(F).r.content
          /\ w.message = IF c(F).r.message = "streaming" THEN StatusOf("failed") ELSE c(F).r.message
      BY <3>2 DEF UpdateRow, RowType
    <3> HIDE DEF w, r
    <3>4. Here(t)' \in StateType
      BY ConfigurationFailsKeeps, HereNext
    <3> QED BY <1>5, <1>6, <2>1, <3>1, <3>3, <3>4 DEF Closes
  <2>2. CASE c(F).r.state = "configuring" /\ 2 \in F
    <3>1. r(F) = c(F).r /\ c(F).r \in RowType
      BY <1>3, <2>2 DEF StateType
    <3> HIDE DEF r
    <3>2. Here(t)' \in StateType
      BY ConfigurationFailsKeeps, HereNext
    <3> QED BY <1>5, <1>6, <2>2, <3>1, <3>2 DEF Closes
  <2>3. CASE c(F).r.state # "configuring"
    <3>1. r(F) = c(F).r
      BY <2>3
    <3> QED BY <1>6, <2>3, <3>1
  <2> QED BY <2>1, <2>2, <2>3
<1> HIDE DEF r
<1>8. ConfigurationEnds(b, Here(t)', F)
  <2> DEFINE d == c(F)
             n == Here(t)'
  <2>1. /\ d \in StateType /\ Mode(b.m, d.m)
        /\ IF Over(b.m.status) THEN d = b ELSE Wrote(b, d, "failed", b.m.version + 1, 1 \notin F)
    BY <1>3
  <2>2. Core(d.m, n.m) /\ Unset(d.m, n.m)
    BY <1>5, <1>6
  <2>3. IF d.r.state = "configuring" THEN Closes(d, n, "failed", 2 \notin F) ELSE n.r = d.r
    BY <1>7
  <2>4. b.m.configuring
    BY <1>1, <1>2
  <2> HIDE DEF d, n
  <2>5. ConfigurationEnds(b, n, F)
    BY <2>1, <2>2, <2>3, <2>4 DEF ConfigurationEnds
  <2> QED BY <2>5 DEF n
<1> QED BY <1>1, <1>8, HandlerMoves DEF AllMove, Handled, b

\* The start of the source does.
LEMMA ExecuteMoves ==
  ASSUME TypeOK, NEW t \in Turns, Execute(t)
  PROVE  AllMove
<1> DEFINE s(F) == Update(Here(t), "executing", None, 1 \notin F)
           left(F) == IF s(F).threw THEN s(F) ELSE [s(F) EXCEPT !.m.execution = "running"]
<1>1. PICK F \in Failing(1) :
        /\ mem[t].known /\ row[t].state \in {"prepared", "executing"}
        /\ mem[t].kept = None /\ mem[t].execution = "none"
        /\ Leave(t, left(F), F)
  BY DEF Execute
<1> DEFINE b == Here(t)
           n == Here(t)'
           l == left(F)
<1>2. b \in StateType /\ b.m = mem[t] /\ b.r = row[t] /\ b.threw = FALSE
  BY HereIs
<1>5. Starts(b, n, F)
  <2>3. CASE 1 \in F
    <3>1. s(F) = [b EXCEPT !.threw = TRUE]
      BY <2>3 DEF Update
    <3> HIDE DEF b, s
    <3>2. s(F).threw /\ s(F).m = b.m /\ s(F).r = b.r
      BY <1>2, <3>1 DEF StateType
    <3>3. l.m = b.m /\ l.r = b.r
      BY <3>2
    <3> HIDE DEF l, left
    <3>4. n.m = b.m /\ n.r = b.r
      BY <1>1, <3>3, LeaveMoves DEF l
    <3> HIDE DEF n
    <3> QED BY <1>1, <1>2, <2>3, <3>4 DEF Starts, Still
  <2>4. CASE 1 \notin F
    <3> DEFINE r == UpdateRow(b.r, "executing", b.m.version, None)
               u == [b EXCEPT !.r = r]
    <3>1. s(F) = u
      BY <2>4 DEF Update
    <3>2. r = [b.r EXCEPT !.state = "executing", !.version = b.m.version]
      BY <1>2 DEF UpdateRow, StateType, RowType
    <3>3. b.r \in RowType /\ b.m \in MemType /\ b.m.version \in Nat
      BY <1>2 DEF StateType, MemType
    <3> HIDE DEF b
    <3>4. /\ r.state = "executing" /\ r.version = b.m.version /\ r.content = b.r.content
          /\ r.outcome = b.r.outcome /\ r.message = b.r.message
      BY <3>2, <3>3 DEF RowType
    <3>5. r \in RowType
      BY <3>2, <3>3 DEF RowType
    <3> HIDE DEF r
    <3>6. u \in StateType /\ u.m = b.m /\ u.r = r /\ u.threw = FALSE
      BY <1>2, <3>5 DEF StateType
    <3> HIDE DEF u
    <3>7. l = Executing(u, "running")
      <4>1. l = [s(F) EXCEPT !.m.execution = "running"]
        BY <3>1, <3>6
      <4> HIDE DEF l, s
      <4> QED BY <3>1, <4>1 DEF Executing
    <3> HIDE DEF l, s, left
    <3>8. /\ l.r = u.r /\ Core(u.m, l.m) /\ Executed(u.m, l.m, "running")
      <4>1. "running" \in {"running", "settled"}
        OBVIOUS
      <4> QED BY <3>6, <3>7, <4>1, ExecutedDoes
    <3>9. n.m = l.m /\ n.r = l.r
      BY <1>1, LeaveMoves DEF l
    <3> HIDE DEF n
    <3> QED BY <1>1, <1>2, <2>4, <3>4, <3>6, <3>8, <3>9 DEF Starts
  <2> QED BY <2>3, <2>4
<1> HIDE DEF left
<1> QED BY <1>1, <1>5, HandlerMoves DEF AllMove, Handled

\* A fact of the source does.
LEMMA FactMoves ==
  ASSUME TypeOK, NEW t \in Turns, NEW kind \in FactKinds, Fact(t, kind)
  PROVE  AllMove
<1> DEFINE b == Here(t)
           n == Here(t)'
           s == Hearing(b, TRUE)
           now == IsImmediate(kind)
           dropped == b.m.finishing # None /\ ~AllowedWhileFinishing(kind)
           left(F) == IF dropped THEN s ELSE Consume(s, b.m.status, now, 1 \notin F)
<1>1. b \in StateType /\ b.m = mem[t] /\ b.r = row[t] /\ b.threw = FALSE
  BY HereIs
<1>2. PICK F \in Failing(1) :
        mem[t].execution = "running" /\ ~Over(mem[t].status) /\ Leave(t, left(F), F)
  <2>1. s = [Here(t) EXCEPT !.m.heard = TRUE] /\ b.m = mem[t]
    BY <1>1 DEF Hearing
  <2> QED BY <2>1 DEF Fact
<1> DEFINE l == left(F)
<1>3. l = s \/ l = Consume(s, b.m.status, now, 1 \notin F)
  <2> HIDE DEF s, b, now
  <2> QED OBVIOUS
<1>4. s \in StateType /\ s.r = b.r /\ Core(b.m, s.m) /\ Mode(b.m, s.m)
  <2>1. s = Hearing(b, TRUE) /\ TRUE \in BOOLEAN
    OBVIOUS
  <2> HIDE DEF s, b
  <2> QED BY <1>1, <2>1, HeardDoes, Zenon
<1>5. n.m = l.m /\ n.r = l.r
  <2> HIDE DEF left
  <2> QED BY <1>2, LeaveMoves
<1>6. n \in StateType
  BY FactKeeps, HereNext
<1>7. b.m.status \in Statuses /\ ~Over(b.m.status) /\ b.m.execution = "running"
  BY <1>1, <1>2, HereIs DEF MemType
<1> HIDE DEF s, l, n, b, now
<1>10. Tells(b, n, F)
  <2>8. CASE l = s
    BY <1>4, <1>5, <1>7, <2>8 DEF Tells
  <2>9. CASE l = Consume(s, b.m.status, now, 1 \notin F)
    <3>1. s.m.status = b.m.status /\ s.m.version = b.m.version /\ s.m.committed = b.m.committed
          /\ s.m.ckFailed = b.m.ckFailed /\ s.m.timer = b.m.timer /\ s.m.known = b.m.known /\ s.m.kept = b.m.kept
      BY <1>4 DEF Core
    <3>2. /\ l \in StateType /\ Same(s.m, l.m)
          /\ l.m.status = b.m.status /\ l.m.version = s.m.version + 1
          /\ now => Written(s.r, s.m.committed, l, s.m.version + 1, b.m.status, 1 \notin F)
          /\ ~now => /\ l.r = s.r /\ l.m.committed = s.m.committed /\ l.m.ckFailed = s.m.ckFailed
                     /\ l.m.timer = IF s.m.timer = NoTimer THEN LiveTimer ELSE s.m.timer
      BY <1>4, <1>7, <2>9, <3>1, ConsumeDoes
    <3>3. Mode(b.m, n.m)
      BY <1>4, <1>5, <3>2 DEF Same, Mode
    <3>4. CASE now
      <4>1. Wrote(b, n, b.m.status, b.m.version + 1, 1 \notin F)
        BY <1>4, <1>5, <1>6, <3>1, <3>2, <3>4 DEF Wrote, Same, Written
      <4> QED BY <1>7, <3>3, <4>1 DEF Tells
    <3>5. CASE ~now
      <4>1. Scheduled(b, n, b.m.status)
        BY <1>4, <1>5, <1>6, <3>1, <3>2, <3>5 DEF Scheduled, Same
      <4> QED BY <1>7, <3>3, <4>1 DEF Tells
    <3> QED BY <3>4, <3>5
  <2> QED BY <1>3, <2>8, <2>9
<1> HIDE DEF left
<1> QED BY <1>2, <1>10, HandlerMoves DEF AllMove, Handled, b, n

\* The composite steps keep types.
LEMMA StepsTyped ==
  ASSUME NEW s \in StateType, NEW o \in Endings, NEW ok1, NEW ok2
  PROVE  /\ Finalize(s, o, ok1, ok2) \in StateType /\ Rejected(s, ok1, ok2) \in StateType
         /\ Fulfilled(s, o, ok1, ok2) \in StateType
  BY FinalizeFine, RejectedFine, FulfilledFine, FineTyped DEF Fine

\* The end of the source is noted and nothing else.
LEMMA SettlesDoes ==
  ASSUME NEW x \in StateType, NEW l, l = Executing(x, "settled"), NEW n, n.m = l.m, n.r = l.r
  PROVE  Settles(x, n)
<1>1. "settled" \in {"running", "settled"}
  OBVIOUS
<1>2. l.r = x.r /\ Core(x.m, l.m) /\ Executed(x.m, l.m, "settled")
  BY <1>1, ExecutedDoes
<1> QED BY <1>2 DEF Settles

\* A source that returns moves the turns in one of these ways.
LEMMA SourceReturnsMoves ==
  ASSUME TypeOK, NEW t \in Turns, NEW o \in Outcomes, SourceReturns(t, o)
  PROVE  AllMove
<1> DEFINE b == Here(t)
           n == Here(t)'
           a(F) == Report(b, o, 1 \notin F)
           f(F) == Fulfilled(a(F), o, 2 \notin F, 3 \notin F)
           x(F) == IF f(F).threw THEN Rejected(f(F), 4 \notin F, 5 \notin F) ELSE f(F)
           l(F) == [x(F) EXCEPT !.m.execution = "settled"]
<1>1. PICK F \in Failing(5) : mem[t].execution = "running" /\ Leave(t, l(F), F)
  BY DEF SourceReturns
<1>2. b \in StateType /\ b.m.execution = "running" /\ o \in Endings
  BY <1>1, HereIs, TurnAssumption
<1>3. Reported(b, a(F), o, 1 \notin F)
  <2> HIDE DEF b
  <2> QED BY <1>2, ReportDoes
<1>4. l(F) = Executing(x(F), "settled") /\ f(F) = Fulfilled(a(F), o, 2 \notin F, 3 \notin F)
      /\ IF f(F).threw THEN x(F) = Rejected(f(F), 4 \notin F, 5 \notin F) ELSE x(F) = f(F)
  <2> HIDE DEF f
  <2>1. IF f(F).threw THEN x(F) = Rejected(f(F), 4 \notin F, 5 \notin F) ELSE x(F) = f(F)
    OBVIOUS
  <2>2. l(F) = Executing(x(F), "settled")
    BY DEF Executing
  <2>3. f(F) = Fulfilled(a(F), o, 2 \notin F, 3 \notin F)
    BY DEF f
  <2> QED BY <2>1, <2>2, <2>3
<1>5. n.m = l(F).m /\ n.r = l(F).r
  <2> HIDE DEF l
  <2> QED BY <1>1, LeaveMoves
<1> HIDE DEF b, n, a, f, x, l
<1>6. a(F) \in StateType
  BY <1>3 DEF Reported
<1>7. f(F) \in StateType
  BY <1>2, <1>4, <1>6, StepsTyped
<1>8. x(F) \in StateType
  BY <1>2, <1>4, <1>7, StepsTyped
<1>9. Settles(x(F), n)
  BY <1>4, <1>5, <1>8, SettlesDoes
<1>10. Returns(b, n, F)
  BY <1>2, <1>3, <1>4, <1>6, <1>7, <1>8, <1>9 DEF Returns
<1> QED BY <1>1, <1>10, HandlerMoves DEF AllMove, Handled, b, n

\* One that throws does.
LEMMA SourceRejectsMoves ==
  ASSUME TypeOK, NEW t \in Turns, SourceRejects(t)
  PROVE  AllMove
<1> DEFINE b == Here(t)
           n == Here(t)'
           a(F) == ReportFailure(b, 1 \notin F)
           x(F) == Rejected(a(F), 2 \notin F, 3 \notin F)
           l(F) == [x(F) EXCEPT !.m.execution = "settled"]
<1>1. PICK F \in Failing(3) : mem[t].execution = "running" /\ Leave(t, l(F), F)
  BY DEF SourceRejects
<1>2. b \in StateType /\ b.m.execution = "running"
  BY <1>1, HereIs
<1>3. Reported(b, a(F), "failed", 1 \notin F)
  <2> HIDE DEF b
  <2> QED BY <1>2, ReportFailureDoes
<1>4. l(F) = Executing(x(F), "settled") /\ x(F) = Rejected(a(F), 2 \notin F, 3 \notin F)
  BY DEF Executing
<1>5. n.m = l(F).m /\ n.r = l(F).r
  <2> HIDE DEF l
  <2> QED BY <1>1, LeaveMoves
<1> HIDE DEF b, n, a, x, l
<1>6. a(F) \in StateType
  BY <1>3 DEF Reported
<1>7. x(F) \in StateType
  BY <1>4, <1>6, RejectedFine, FineTyped DEF Fine
<1>8. Settles(x(F), n)
  BY <1>4, <1>5, <1>7, SettlesDoes
<1>9. Rejects(b, n, F)
  BY <1>2, <1>3, <1>4, <1>6, <1>7, <1>8 DEF Rejects
<1> QED BY <1>1, <1>9, HandlerMoves DEF AllMove, Handled, b, n

\* A cancel or a timeout does.
LEMMA StopMoves ==
  ASSUME TypeOK, NEW t \in Turns, NEW o \in {"cancelled", "timed-out"}, o = "timed-out" => Timeouts, Stop(t, o)
  PROVE  AllMove
<1> DEFINE b == Here(t)
           n == Here(t)'
           u == Unconfigured(b)
           l(F) == IF mem[t].execution # "none" THEN Finishing(u, o) ELSE Finalize(u, o, 1 \notin F, 2 \notin F)
<1>1. PICK F \in Failing(2) :
        mem[t].known /\ ~Over(mem[t].status) /\ mem[t].finishing = None /\ Leave(t, l(F), F)
  BY DEF Stop, Unconfigured, Finishing
<1>2. b \in StateType /\ b.m = mem[t] /\ b.threw = FALSE
  BY HereIs
<1>3. n.m = l(F).m /\ n.r = l(F).r
  <2> HIDE DEF l
  <2> QED BY <1>1, LeaveMoves
<1>4. u \in StateType /\ u.r = b.r /\ u.threw = FALSE /\ Core(b.m, u.m) /\ Unset(b.m, u.m)
  <2> HIDE DEF b, u
  <2>1. u = Unconfigured(b)
    BY DEF u
  <2> QED BY <1>2, <2>1, UnsetDoes
<1> HIDE DEF b, n, u
<1>5. Stops(b, n, F)
  <2>1. CASE mem[t].execution # "none"
    <3>1. l(F) = Finishing(u, o) /\ o \in {None, "cancelled", "timed-out"}
      BY <2>1
    <3> HIDE DEF l
    <3>2. l(F).r = u.r /\ Core(u.m, l(F).m) /\ Finishes(u.m, l(F).m, o)
      BY <1>4, <3>1, FinishesDoes
    <3>3. Core(u.m, n.m) /\ Finishes(u.m, n.m, o) /\ n.r = u.r
      BY <1>3, <3>2
    <3> QED BY <1>1, <1>2, <1>4, <2>1, <3>3 DEF Stops
  <2>2. CASE mem[t].execution = "none"
    <3>1. l(F) = Finalize(u, o, 1 \notin F, 2 \notin F) /\ o \in Endings
      BY <2>2 DEF Endings
    <3> HIDE DEF l
    <3>2. l(F) \in StateType
      BY <1>4, <3>1, StepsTyped
    <3>3. Still(l(F), n)
      BY <1>3 DEF Still
    <3> QED BY <1>1, <1>2, <1>4, <2>2, <3>1, <3>2, <3>3 DEF Stops
  <2> QED BY <2>1, <2>2
<1> HIDE DEF l
<1> QED BY <1>1, <1>5, HandlerMoves DEF AllMove, Handled, b, n

\* The end of the window of a stop does.
LEMMA FinishWindowMoves ==
  ASSUME TypeOK, NEW t \in Turns, FinishWindow(t)
  PROVE  AllMove
<1> DEFINE b == Here(t)
           n == Here(t)'
           l(F) == Finalize(b, b.m.finishing, 1 \notin F, 2 \notin F)
<1>1. b \in StateType /\ b.m = mem[t]
  BY HereIs
<1>2. PICK F \in Failing(2) : b.m.finishing # None /\ Leave(t, l(F), F)
  BY <1>1 DEF FinishWindow
<1>3. n.m = l(F).m /\ n.r = l(F).r
  <2> HIDE DEF l
  <2> QED BY <1>2, LeaveMoves
<1> HIDE DEF b, n
<1>4. b.m.finishing \in Endings
  BY <1>1, <1>2 DEF StateType, MemType, Endings
<1>5. l(F) \in StateType
  BY <1>1, <1>4, StepsTyped
<1>6. Closing(b, n, F)
  BY <1>2, <1>3, <1>5 DEF Closing, Still
<1> HIDE DEF l
<1> QED BY <1>2, <1>6, HandlerMoves DEF AllMove, Handled, b, n

\* The checkpoint timer does.
LEMMA CheckpointTimerMoves ==
  ASSUME TypeOK, NEW t \in Turns, CheckpointTimer(t)
  PROVE  AllMove
<1> DEFINE b == Here(t)
           n == Here(t)'
           m == [b.m EXCEPT !.timer = NoTimer]
           s == [b EXCEPT !.m = m]
           v == IF b.m.timer.kind = "live" THEN b.m.version ELSE b.m.timer.version
           status == IF b.m.timer.kind = "live" THEN b.m.status ELSE b.m.timer.status
           l(F) == Persist(s, v, status, 1 \notin F)
<1>1. b \in StateType /\ b.m = mem[t] /\ b.m \in MemType /\ b.r \in RowType
  BY HereIs
<1>2. s = [Here(t) EXCEPT !.m.timer = NoTimer]
  OBVIOUS
<1>3. PICK F \in Failing(1) : b.m.timer # NoTimer /\ Leave(t, l(F), F)
  <2>1. PICK F \in Failing(1) :
          /\ b.m.timer # NoTimer
          /\ Leave(t, IF b.m.timer.kind = "live" THEN Persist(s, b.m.version, b.m.status, 1 \notin F)
                      ELSE Persist(s, b.m.timer.version, b.m.timer.status, 1 \notin F), F)
    <3> HIDE DEF s
    <3> QED BY <1>1, <1>2 DEF CheckpointTimer
  <2> HIDE DEF s, b
  <2>2. (IF b.m.timer.kind = "live" THEN Persist(s, b.m.version, b.m.status, 1 \notin F)
         ELSE Persist(s, b.m.timer.version, b.m.timer.status, 1 \notin F)) = l(F)
    OBVIOUS
  <2> QED BY <2>1, <2>2
<1>4. n.m = l(F).m /\ n.r = l(F).r
  <2> HIDE DEF l
  <2> QED BY <1>3, LeaveMoves
<1> HIDE DEF b, n
<1>5. v \in Nat /\ status \in Statuses
  BY <1>1 DEF MemType, TimerType
<1>6. /\ m \in MemType /\ m.timer = NoTimer /\ Mode(b.m, m) /\ m.known = b.m.known /\ m.kept = b.m.kept
      /\ m.status = b.m.status /\ m.version = b.m.version /\ m.committed = b.m.committed
  BY <1>1, TimerTypes DEF MemType, Mode
<1> HIDE DEF m, v, status
<1>7. s \in StateType /\ s.m = m /\ s.r = b.r
  BY <1>1, <1>6 DEF StateType
<1> HIDE DEF s
<1>8. /\ l(F) \in StateType /\ Same(s.m, l(F).m)
      /\ l(F).m.status = s.m.status /\ l(F).m.version = s.m.version
      /\ Written(s.r, s.m.committed, l(F), v, status, 1 \notin F)
  <2>1. l(F) = Persist(s, v, status, 1 \notin F) /\ s.m.timer = NoTimer
    BY <1>6, <1>7
  <2> HIDE DEF l
  <2> QED BY <1>5, <1>7, <2>1, PersistDoes
<1> HIDE DEF l
<1>9. Written(b.r, b.m.committed, n, v, status, 1 \notin F)
  BY <1>4, <1>6, <1>7, <1>8 DEF Written
<1>10. Mode(b.m, n.m) /\ n.m.known = b.m.known /\ n.m.kept = b.m.kept
       /\ n.m.status = b.m.status /\ n.m.version = b.m.version
  BY <1>4, <1>6, <1>7, <1>8 DEF Same, Mode
<1>11. Ticks(b, n, F)
  BY <1>3, <1>9, <1>10 DEF Ticks, v, status
<1> QED BY <1>3, <1>11, HandlerMoves DEF AllMove, Handled, b, n

\* A recovery does, if it finds no turn that runs.
LEMMA RecoverMoves ==
  ASSUME TypeOK, NEW S \in SUBSET Turns, Recover(S),
         WakeRecovers \/ \A t \in S : (mem[t].known => Over(mem[t].status)) /\ mem[t].execution # "running"
  PROVE  AllMove
<1> DEFINE found == {t \in S : Recoverable(t)}
<1>1. PICK o \in [found -> Canonical \cup {"recovered"}] :
        /\ mem' = [t \in Turns |-> IF t \in found THEN RecoverMemory(mem[t], o[t]) ELSE mem[t]]
        /\ row' = [t \in Turns |-> IF t \in found THEN RecoverRow(row[t], o[t]) ELSE row[t]]
  BY DEF Recover
<1>2. ASSUME NEW t \in Turns, t \notin found
      PROVE  Moved(Here(t), Here(t)')
  <2> HIDE DEF found
  <2>1. mem'[t] = mem[t] /\ row'[t] = row[t]
    BY <1>1, <1>2
  <2> QED BY <2>1 DEF Here, Moved, Still
<1>3. ASSUME NEW t \in Turns, t \in found
      PROVE  Moved(Here(t), Here(t)')
  <2> DEFINE b == Here(t)
             n == Here(t)'
             e == o[t]
             m == [b.m EXCEPT !.recovered = TRUE, !.status = StatusOf(e), !.version = b.m.version + 1,
                              !.kept = e, !.terminal = e]
             r == [b.r EXCEPT !.state = "terminal", !.outcome = e, !.version = b.r.version + 1,
                              !.message = StatusOf(e)]
  <2>1. b.m = mem[t] /\ b.r = row[t] /\ b.m \in MemType /\ b.r \in RowType
    BY HereIs
  <2>2. Recoverable(t) /\ e \in Canonical \cup {"recovered"} /\ t \in S
    BY <1>3
  <2>3. /\ Unfinished(b.r) /\ b.r.message \in {"streaming", "failed"}
        /\ WakeRecovers \/ ((b.m.known => Over(b.m.status)) /\ b.m.execution # "running")
    BY <2>1, <2>2 DEF Recoverable
  <2>4. n.m = RecoverMemory(mem[t], e) /\ n.r = RecoverRow(row[t], e)
    <3>1. Here(t)'.m = mem'[t] /\ Here(t)'.r = row'[t]
      BY DEF Here
    <3> HIDE DEF found
    <3> QED BY <1>1, <1>3, <3>1
  <2> HIDE DEF b, e, n
  <2>5. n.r = r
    BY <2>1, <2>4 DEF RecoverRow
  <2>6. n.m = IF b.m.known THEN m ELSE [b.m EXCEPT !.recovered = TRUE]
    BY <2>1, <2>4 DEF RecoverMemory
  <2>7. /\ r.state = "terminal" /\ r.outcome = e /\ r.version = b.r.version + 1
        /\ r.content = b.r.content /\ r.message = StatusOf(e)
    BY <2>1 DEF RowType
  <2>8. b.m.known =>
          /\ m.known /\ m.status = StatusOf(e) /\ m.version = b.m.version + 1
          /\ m.kept = e /\ m.terminal = e
          /\ m.configuring = b.m.configuring /\ m.execution = b.m.execution
          /\ m.finishing = b.m.finishing /\ m.timer = b.m.timer
          /\ m.committed = b.m.committed /\ m.ckFailed = b.m.ckFailed
    BY <2>1 DEF MemType
  <2> HIDE DEF m, r
  <2>9. Recovers(b, n)
    BY <2>2, <2>3, <2>5, <2>6, <2>7, <2>8 DEF Recovers
  <2> QED BY <2>9 DEF Moved, b, n
<1> QED BY <1>2, <1>3 DEF AllMove

\* A step begins one turn, in a session that has none open, or moves them all.
BeginsOne == \E t \in Turns :
  /\ Begins(Here(t), Here(t)') /\ ~Busy(SessionOf[t])
  /\ \A u \in Turns \ {t} : Still(Here(u), Here(u)')

\* So does every step that begins no turn.
LEMMA EachTurn ==
  ASSUME TypeOK, [Next]_vars
  PROVE  BeginsOne \/ AllMove
<1>1. ASSUME NEW t \in Turns, NEW state \in {"configuring", "prepared"}, Prepare(t, state) PROVE BeginsOne
  BY <1>1, PrepareBegins DEF BeginsOne
<1>2. ASSUME NEW t \in Turns, Replay(t) \/ Configured(t) \/ ConfigurationFails(t) \/ Execute(t) PROVE AllMove
  BY <1>2, ReplayMoves, ConfiguredMoves, ConfigurationFailsMoves, ExecuteMoves
<1>3. ASSUME NEW t \in Turns, NEW kind \in FactKinds, Fact(t, kind) PROVE AllMove
  BY <1>3, FactMoves
<1>4. ASSUME NEW t \in Turns, NEW o \in Outcomes, SourceReturns(t, o) PROVE AllMove
  BY <1>4, SourceReturnsMoves
<1>5. ASSUME NEW t \in Turns, SourceRejects(t) \/ FinishWindow(t) \/ CheckpointTimer(t) PROVE AllMove
  BY <1>5, SourceRejectsMoves, FinishWindowMoves, CheckpointTimerMoves
<1>6. ASSUME NEW t \in Turns, Cancel(t) \/ Timeout(t) PROVE AllMove
  <2>1. CASE Cancel(t)
    BY <2>1, StopMoves DEF Cancel
  <2>2. CASE Timeout(t)
    BY <2>2, StopMoves DEF Timeout
  <2> QED BY <1>6, <2>1, <2>2
<1>7. ASSUME NEW t \in Turns, RecoverOnWake(t) PROVE AllMove
  <2>1. WakeRecovers /\ Recover(Turns) /\ Turns \in SUBSET Turns
    BY <1>7 DEF RecoverOnWake
  <2> QED BY <2>1, RecoverMoves
<1>8. ASSUME NEW s \in {SessionOf[t] : t \in Turns}, RecoverOnAccess(s) PROVE AllMove
  <2>1. /\ OfSession(s) \in SUBSET Turns /\ Recover(OfSession(s))
        /\ \A t \in OfSession(s) : (mem[t].known => Over(mem[t].status)) /\ mem[t].execution # "running"
    BY <1>8 DEF RecoverOnAccess, OfSession
  <2> QED BY <2>1, RecoverMoves
<1>9. CASE Crash
  <2>1. ASSUME NEW u \in Turns PROVE Moved(Here(u), Here(u)')
    <3>1. mem'[u] = Unknown /\ row'[u] = row[u]
      BY <1>9 DEF Crash
    <3>2. Dies(Here(u), Here(u)')
      BY <3>1 DEF Here, Dies
    <3> QED BY <3>2 DEF Moved
  <2> QED BY <2>1 DEF AllMove
<1>10. CASE Rest \/ UNCHANGED vars
  <2>1. ASSUME NEW u \in Turns PROVE Moved(Here(u), Here(u)')
    <3>1. mem' = mem /\ row' = row
      BY <1>10 DEF Rest, vars
    <3>2. Still(Here(u), Here(u)')
      BY <3>1 DEF Here, Still
    <3> QED BY <3>2 DEF Moved
  <2> QED BY <2>1 DEF AllMove
<1> QED BY <1>1, <1>2, <1>3, <1>4, <1>5, <1>6, <1>7, <1>8, <1>9, <1>10 DEF Next

-----------------------------------------------------------------------------
(* What is stored grows, and nothing that was told as stored is lost.      *)

\* Memory without the turn.
Blank(m) == m \in {Unknown, [Unknown EXCEPT !.recovered = TRUE]}

\* The row keeps behind memory, and what counts as committed behind the row.
Base(m, r) ==
  /\ m.known \/ Blank(m)
  /\ r.content <= r.version
  /\ m.known => r.version <= m.version /\ m.committed <= r.content /\ r # NoRow

\* The timer of another attempt to write a message that is final.
Again(m) == m.timer # NoTimer /\ m.timer.kind # "live"

\* A final message is stored, or is tried again, or its failure shows; and what
\* would be tried is no newer than memory.
Timed(m, r) ==
  /\ Again(m) /\ Takes(r, m.timer.version) => m.timer.version <= m.version
  /\ Again(m) /\ Over(m.status) /\ m.kept = None => m.timer.version = m.version
  /\ Over(m.status) /\ m.timer = NoTimer /\ ~m.ckFailed /\ m.kept = None => r.content = m.version

Sound(m, r) == Base(m, r) /\ Timed(m, r)

\* What StoredGrows says of one row.
Grows(r, q) ==
  /\ q.version >= r.version /\ q.content >= r.content
  /\ r.message \in {"completed", "cancelled"} => q.message = r.message

\* p is a sound successor of s.
Keeps(s, p) == p \in StateType /\ Sound(p.m, p.r) /\ p.m.known /\ Grows(s.r, p.r)

\* What is kept by two parts of a handler is kept by both in turn.
LEMMA KeepsOn ==
  ASSUME NEW s \in StateType, NEW c \in StateType, NEW p, Keeps(s, c), Keeps(c, p)
  PROVE  Keeps(s, p)
<1>1. p \in StateType /\ s.r \in RowType /\ c.r \in RowType /\ p.r \in RowType
  BY DEF Keeps, StateType
<1>2. Grows(s.r, p.r)
  BY <1>1 DEF Keeps, Grows, RowType
<1> QED BY <1>1, <1>2 DEF Keeps

\* Of a turn that is blank memory says nothing.
LEMMA BlankIs ==
  ASSUME NEW m, Blank(m)
  PROVE  /\ ~m.known /\ ~m.configuring /\ m.status = None /\ m.version = 0 /\ m.kept = None
         /\ m.execution = "none" /\ m.finishing = None /\ m.terminal = None
         /\ m.timer = NoTimer /\ m.committed = -1 /\ ~m.ckFailed
  BY DEF Blank, Unknown

\* Versions are numbers.
LEMMA NumbersOf ==
  ASSUME NEW s \in StateType
  PROVE  /\ s.m \in MemType /\ s.r \in RowType
         /\ s.m.version \in Nat /\ s.m.committed \in Int /\ s.r.version \in Nat /\ s.r.content \in Nat
         /\ s.m.timer.version \in Nat
<1>1. s.m \in MemType /\ s.r \in RowType
  BY DEF StateType
<1> QED BY <1>1 DEF MemType, RowType, TimerType

\* A write of the newest version keeps what is stored sound, if it fails as
\* well.
LEMMA WroteKeeps ==
  ASSUME NEW s \in StateType, Base(s.m, s.r), s.m.known, NEW c, NEW status, NEW ok,
         NEW v \in {s.m.version, s.m.version + 1}, Wrote(s, c, status, v, ok)
  PROVE  Keeps(s, c)
<1>1. c \in StateType /\ c.m.known /\ c.m.status = status /\ c.m.version = v
  BY DEF Wrote
<1>2. /\ s.m.version \in Nat /\ s.m.committed \in Int /\ s.r.version \in Nat /\ s.r.content \in Nat
      /\ c.m.version \in Nat /\ c.r.version \in Nat /\ c.r.content \in Nat /\ v \in Nat
  BY <1>1, NumbersOf
<1>3. s.r.content <= s.r.version /\ s.r.version <= s.m.version /\ s.m.committed <= s.r.content /\ s.r # NoRow
  BY DEF Base
<1>4. CASE ok /\ Takes(s.r, v)
  <2>1. /\ c.r.version = v /\ c.r.content = v /\ c.m.timer = NoTimer
        /\ c.m.committed = IF v > s.m.committed THEN v ELSE s.m.committed
    BY <1>4 DEF Wrote, Written
  <2>2. s.r.version < v /\ s.r.message = "streaming"
    BY <1>4 DEF Takes
  <2>3. c.r # NoRow
    BY <1>2, <2>1, <2>2 DEF NoRow
  <2>4. Base(c.m, c.r)
    BY <1>1, <1>2, <1>3, <2>1, <2>2, <2>3 DEF Base
  <2>5. Timed(c.m, c.r)
    BY <1>1, <2>1 DEF Timed, Again
  <2>6. Grows(s.r, c.r)
    BY <1>2, <1>3, <2>1, <2>2 DEF Grows
  <2> QED BY <1>1, <2>4, <2>5, <2>6 DEF Keeps, Sound
<1>5. CASE ~(ok /\ Takes(s.r, v))
  <2>1. /\ c.r = s.r /\ c.m.committed = s.m.committed
        /\ Over(status) => \/ c.m.timer = NoTimer /\ c.m.ckFailed
                           \/ c.m.timer = [kind |-> "snapshot", version |-> v, status |-> status]
        /\ ~Over(status) => c.m.timer \in {NoTimer, LiveTimer}
    BY <1>1, <1>5 DEF Wrote, Written
  <2>2. Base(c.m, c.r)
    BY <1>1, <1>2, <1>3, <2>1 DEF Base
  <2>3. Timed(c.m, c.r)
    <3>1. CASE Over(status)
      <4> DEFINE again == [kind |-> "snapshot", version |-> v, status |-> status]
      <4>1. again.version = v /\ again # NoTimer
        BY DEF NoTimer
      <4>2. (c.m.timer = NoTimer /\ c.m.ckFailed) \/ c.m.timer = again
        BY <2>1, <3>1
      <4> HIDE DEF again
      <4> QED BY <1>1, <1>2, <4>1, <4>2 DEF Timed, Again
    <3>2. CASE ~Over(status)
      <4>1. ~Again(c.m)
        BY <2>1, <3>2 DEF Again, LiveTimer, NoTimer
      <4> QED BY <1>1, <3>2, <4>1 DEF Timed
    <3> QED BY <3>1, <3>2
  <2>4. Grows(s.r, c.r)
    BY <1>2, <2>1 DEF Grows
  <2> QED BY <1>1, <2>2, <2>3, <2>4 DEF Keeps, Sound
<1> QED BY <1>4, <1>5

\* A step that writes nothing keeps it sound.
LEMMA SameKeeps ==
  ASSUME NEW s \in StateType, Sound(s.m, s.r), s.m.known, NEW p \in StateType, Core(s.m, p.m), p.r = s.r
  PROVE  Keeps(s, p)
<1>1. s.r.version \in Nat /\ s.r.content \in Nat
  BY NumbersOf
<1>2. Sound(p.m, p.r) /\ p.m.known
  BY DEF Sound, Base, Timed, Again, Core
<1> QED BY <1>1, <1>2 DEF Keeps, Grows

\* The write of the outcome keeps it sound.
LEMMA ClosesKeeps ==
  ASSUME NEW c \in StateType, Sound(c.m, c.r), c.m.known, NEW p, NEW o, NEW ok, Closes(c, p, o, ok)
  PROVE  Keeps(c, p)
<1>1. p \in StateType /\ Core(c.m, p.m)
  BY DEF Closes
<1>2. CASE ~ok
  BY <1>1, <1>2, SameKeeps DEF Closes
<1>3. CASE ok
  <2>1. /\ p.r.state = "terminal" /\ p.r.version = c.m.version /\ p.r.content = c.r.content
        /\ p.r.message = IF c.r.message = "streaming" THEN StatusOf(o) ELSE c.r.message
    BY <1>3 DEF Closes
  <2>2. /\ c.m.version \in Nat /\ c.m.committed \in Int /\ c.r.version \in Nat /\ c.r.content \in Nat
    BY NumbersOf
  <2>3. p.r # NoRow /\ p.r.message # "streaming"
    BY <2>1, StatusOfType DEF NoRow
  <2>4. ~Takes(p.r, p.m.timer.version)
    BY <2>3 DEF Takes
  <2>5. Sound(p.m, p.r) /\ p.m.known
    <3>1. Base(p.m, p.r) /\ p.m.known
      BY <1>1, <2>1, <2>2, <2>3 DEF Sound, Base, Core
    <3>2. Timed(p.m, p.r)
      BY <1>1, <2>1, <2>4 DEF Sound, Timed, Again, Core
    <3> QED BY <3>1, <3>2 DEF Sound
  <2>6. Grows(c.r, p.r)
    BY <2>1, <2>2 DEF Sound, Base, Grows
  <2> QED BY <1>1, <2>5, <2>6 DEF Keeps
<1> QED BY <1>2, <1>3

\* A checkpoint that is put off keeps it sound.
LEMMA ScheduledKeeps ==
  ASSUME NEW s \in StateType, Sound(s.m, s.r), s.m.known, NEW p, NEW status, ~Over(status), Scheduled(s, p, status)
  PROVE  Keeps(s, p)
<1>1. /\ p \in StateType /\ p.m.known /\ p.r = s.r /\ p.m.status = status /\ p.m.version = s.m.version + 1
      /\ p.m.committed = s.m.committed /\ p.m.timer = IF s.m.timer = NoTimer THEN LiveTimer ELSE s.m.timer
  BY DEF Scheduled
<1>2. /\ s.m.version \in Nat /\ s.m.committed \in Int /\ s.r.version \in Nat /\ s.r.content \in Nat
      /\ s.m.timer.version \in Nat
  BY NumbersOf
<1>3. Base(p.m, p.r)
  BY <1>1, <1>2 DEF Sound, Base
<1>4. Again(p.m) => Again(s.m) /\ p.m.timer = s.m.timer
  BY <1>1 DEF Again, LiveTimer, NoTimer
<1>5. Timed(p.m, p.r)
  BY <1>1, <1>2, <1>4 DEF Sound, Timed
<1>6. Grows(s.r, p.r)
  BY <1>1, <1>2 DEF Grows
<1> QED BY <1>1, <1>3, <1>5, <1>6 DEF Keeps, Sound

\* A report keeps it sound.
LEMMA ReportedKeeps ==
  ASSUME NEW s \in StateType, Sound(s.m, s.r), s.m.known, NEW p, NEW o \in Endings, NEW ok, Reported(s, p, o, ok)
  PROVE  Keeps(s, p)
<1>1. p \in StateType
  BY DEF Reported
<1>2. CASE Core(s.m, p.m) /\ p.r = s.r
  BY <1>1, <1>2, SameKeeps
<1>3. CASE Scheduled(s, p, "sent")
  BY <1>3, ScheduledKeeps DEF Over
<1>4. CASE Wrote(s, p, StatusOf(o), s.m.version + 1, ok)
  BY <1>4, WroteKeeps DEF Sound
<1> QED BY <1>2, <1>3, <1>4 DEF Reported

\* The end of a stop keeps it sound.
LEMMA FinalizeKeeps ==
  ASSUME NEW s \in StateType, Sound(s.m, s.r), s.m.known, ~s.threw,
         NEW o \in {"cancelled", "timed-out"}, NEW ok1, NEW ok2, NEW p, p = Finalize(s, o, ok1, ok2)
  PROVE  Keeps(s, p)
<1>1. CASE Over(s.m.status)
  BY <1>1, FinalizeDoes, SameKeeps
<1>2. CASE ~Over(s.m.status)
  <2>1. PICK c \in StateType : Wrote(s, c, StatusOf(o), s.m.version + 1, ok1) /\ Closes(c, p, o, ok2)
    BY <1>2, FinalizeDoes
  <2>2. Keeps(s, c)
    BY <2>1, WroteKeeps DEF Sound
  <2>3. Keeps(c, p)
    BY <2>1, <2>2, ClosesKeeps DEF Keeps
  <2> QED BY <2>2, <2>3, KeepsOn
<1> QED BY <1>1, <1>2

\* Only a cancel and a timeout open a window.
LEMMA FinishingIs ==
  ASSUME NEW s \in StateType, s.m.finishing # None
  PROVE  s.m.finishing \in {"cancelled", "timed-out"}
  BY DEF StateType, MemType

\* The end of a source that throws keeps it sound.
LEMMA RejectedKeeps ==
  ASSUME NEW s \in StateType, Sound(s.m, s.r), s.m.known, s.m.finishing = None \/ ~s.threw,
         NEW ok1, NEW ok2, NEW p, p = Rejected(s, ok1, ok2)
  PROVE  Keeps(s, p)
<1>1. CASE s.m.finishing # None
  <2>1. p = Finalize(s, s.m.finishing, ok1, ok2)
    BY <1>1 DEF Rejected
  <2> QED BY <1>1, <2>1, FinalizeKeeps, FinishingIs
<1>2. CASE s.m.finishing = None
  <2>1. PICK c \in StateType : /\ Wrote(s, c, RejectedAs(s.m), s.m.version, ok1)
                               /\ Closes(c, p, RejectedAs(s.m), ok2)
    BY <1>2, RejectedDoes
  <2>2. Keeps(s, c)
    BY <2>1, WroteKeeps DEF Sound
  <2>3. Keeps(c, p)
    BY <2>1, <2>2, ClosesKeeps DEF Keeps
  <2> QED BY <2>2, <2>3, KeepsOn
<1> QED BY <1>1, <1>2

\* The end of a source that returns keeps it sound.
LEMMA FulfilledKeeps ==
  ASSUME NEW s \in StateType, Sound(s.m, s.r), s.m.known, ~s.threw,
         NEW o \in Endings, NEW ok1, NEW ok2, NEW p, p = Fulfilled(s, o, ok1, ok2)
  PROVE  Keeps(s, p) /\ p.m.finishing = None
<1>1. CASE s.m.finishing # None
  <2>1. p = Finalize(s, s.m.finishing, ok1, ok2)
    BY <1>1 DEF Fulfilled
  <2>2. Keeps(s, p)
    BY <1>1, <2>1, FinalizeKeeps, FinishingIs
  <2>3. p.m.finishing = None
    BY <1>1, <2>1, FinalizeDoes, FinishingIs
  <2> QED BY <2>2, <2>3
<1>2. CASE s.m.finishing = None
  <2>1. PICK c \in StateType :
          /\ c.m.finishing = None
          /\ Over(s.m.status) => Core(s.m, c.m) /\ c.r = s.r
          /\ ~Over(s.m.status) => Wrote(s, c, StatusOf(o), s.m.version, ok1)
          /\ s.m.terminal # None => p = c
          /\ s.m.terminal = None => Closes(c, p, AcceptedAs(s.m, o), ok2) /\ p.m = c.m
    BY <1>2, FulfilledDoes
  <2>2. Keeps(s, c)
    <3>1. CASE Over(s.m.status)
      BY <2>1, <3>1, SameKeeps
    <3>2. CASE ~Over(s.m.status)
      BY <2>1, <3>2, WroteKeeps DEF Sound
    <3> QED BY <3>1, <3>2
  <2>3. CASE s.m.terminal # None
    BY <2>1, <2>2, <2>3
  <2>4. CASE s.m.terminal = None
    <3>1. Keeps(c, p)
      BY <2>1, <2>2, <2>4, ClosesKeeps DEF Keeps
    <3> QED BY <2>1, <2>2, <2>4, <3>1, KeepsOn
  <2> QED BY <2>3, <2>4
<1> QED BY <1>1, <1>2

\* What the handlers need to know of memory to know the turn.
LEMMA KnownIs ==
  ASSUME NEW s \in StateType, Base(s.m, s.r),
         s.m.configuring \/ s.m.execution # "none" \/ s.m.finishing # None \/ s.m.timer # NoTimer
  PROVE  s.m.known
  BY BlankIs DEF Base

\* Every handler keeps it sound, and what is stored grows.
LEMMA HandledKeeps ==
  ASSUME NEW b \in StateType, NEW n \in StateType, Sound(b.m, b.r), ~b.threw,
         NEW F, Handled(b, n, F)
  PROVE  Sound(n.m, n.r) /\ Grows(b.r, n.r)
<1>0. /\ b.m.configuring \/ b.m.execution # "none" \/ b.m.finishing # None \/ b.m.timer # NoTimer => b.m.known
      /\ Base(b.m, b.r) /\ (b.m.known => Keeps(b, b))
  <2>1. Base(b.m, b.r)
    BY DEF Sound
  <2>2. b.m.known => Keeps(b, b)
    BY SameKeeps DEF Core
  <2> QED BY <2>1, <2>2, KnownIs
<1>1. CASE ConfigurationEnds(b, n, F)
  <2>1. PICK c \in StateType :
          /\ IF Over(b.m.status) THEN c = b ELSE Wrote(b, c, "failed", b.m.version + 1, 1 \notin F)
          /\ Core(c.m, n.m)
          /\ IF c.r.state = "configuring" THEN Closes(c, n, "failed", 2 \notin F) ELSE n.r = c.r
    BY <1>1 DEF ConfigurationEnds
  <2>2. b.m.known
    BY <1>0, <1>1 DEF ConfigurationEnds
  <2>3. Keeps(b, c)
    <3>1. CASE Over(b.m.status)
      BY <1>0, <2>1, <2>2, <3>1
    <3>2. CASE ~Over(b.m.status)
      BY <1>0, <2>1, <2>2, <3>2, WroteKeeps
    <3> QED BY <3>1, <3>2
  <2>4. Keeps(c, n)
    <3>1. CASE c.r.state = "configuring"
      BY <2>1, <2>3, <3>1, ClosesKeeps DEF Keeps
    <3>2. CASE c.r.state # "configuring"
      BY <2>1, <2>3, <3>2, SameKeeps DEF Keeps
    <3> QED BY <3>1, <3>2
  <2> QED BY <2>3, <2>4, KeepsOn DEF Keeps
<1>2. CASE Starts(b, n, F)
  <2>1. CASE 1 \in F
    BY <1>0, <1>2, <2>1, SameKeeps DEF Starts, Still, Keeps
  <2>2. CASE 1 \notin F
    <3>1. /\ b.m.known /\ Core(b.m, n.m)
          /\ n.r.state = "executing" /\ n.r.version = b.m.version /\ n.r.content = b.r.content
          /\ n.r.message = b.r.message
      BY <1>2, <2>2 DEF Starts
    <3>2. /\ b.m.version \in Nat /\ b.m.committed \in Int /\ b.r.version \in Nat /\ b.r.content \in Nat
          /\ b.m.timer.version \in Nat
      BY NumbersOf
    <3>3. Base(n.m, n.r)
      BY <1>0, <3>1, <3>2 DEF Base, Core, NoRow
    <3>4. Takes(n.r, n.m.timer.version) => Takes(b.r, b.m.timer.version)
      BY <1>0, <3>1, <3>2 DEF Takes, Base, Core
    <3>5. Timed(n.m, n.r)
      BY <3>1, <3>4 DEF Sound, Timed, Again, Core
    <3>6. Grows(b.r, n.r)
      BY <1>0, <3>1, <3>2 DEF Grows, Base
    <3> QED BY <3>3, <3>5, <3>6 DEF Sound
  <2> QED BY <2>1, <2>2
<1>3. CASE Tells(b, n, F)
  <2>1. b.m.known /\ ~Over(b.m.status)
    BY <1>0, <1>3 DEF Tells
  <2>2. CASE Core(b.m, n.m) /\ n.r = b.r
    BY <2>1, <2>2, SameKeeps DEF Keeps
  <2>3. CASE Scheduled(b, n, b.m.status)
    BY <2>1, <2>3, ScheduledKeeps DEF Keeps
  <2>4. CASE Wrote(b, n, b.m.status, b.m.version + 1, 1 \notin F)
    BY <1>0, <2>1, <2>4, WroteKeeps DEF Keeps
  <2> QED BY <1>3, <2>2, <2>3, <2>4 DEF Tells
<1>4. CASE Returns(b, n, F)
  <2>1. PICK o \in Outcomes, a \in StateType, f \in StateType, x \in StateType :
          /\ Reported(b, a, o, 1 \notin F)
          /\ f = Fulfilled(a, o, 2 \notin F, 3 \notin F)
          /\ IF f.threw THEN x = Rejected(f, 4 \notin F, 5 \notin F) ELSE x = f
          /\ Settles(x, n)
    BY <1>4 DEF Returns
  <2>2. b.m.known /\ o \in Endings
    BY <1>0, <1>4, TurnAssumption DEF Returns
  <2>3. Keeps(b, a)
    BY <2>1, <2>2, ReportedKeeps
  <2>4. ~a.threw
    BY <2>1 DEF Reported
  <2>5. Keeps(a, f) /\ f.m.finishing = None
    BY <2>1, <2>2, <2>3, <2>4, FulfilledKeeps DEF Keeps
  <2>6. Keeps(f, x)
    <3>1. CASE f.threw
      BY <2>1, <2>5, <3>1, RejectedKeeps DEF Keeps
    <3>2. CASE ~f.threw
      BY <2>1, <2>5, <3>2, SameKeeps DEF Keeps, Core
    <3> QED BY <3>1, <3>2
  <2>7. Keeps(x, n)
    BY <2>1, <2>6, SameKeeps DEF Keeps, Settles
  <2> QED BY <2>3, <2>5, <2>6, <2>7, KeepsOn DEF Keeps
<1>5. CASE Rejects(b, n, F)
  <2>1. PICK a \in StateType, x \in StateType :
          /\ Reported(b, a, "failed", 1 \notin F)
          /\ x = Rejected(a, 2 \notin F, 3 \notin F)
          /\ Settles(x, n)
    BY <1>5 DEF Rejects
  <2>2. b.m.known /\ "failed" \in Endings
    BY <1>0, <1>5 DEF Rejects, Endings
  <2>3. Keeps(b, a)
    BY <2>1, <2>2, ReportedKeeps
  <2>4. ~a.threw
    BY <2>1 DEF Reported
  <2>5. Keeps(a, x)
    BY <2>1, <2>3, <2>4, RejectedKeeps DEF Keeps
  <2>6. Keeps(x, n)
    BY <2>1, <2>5, SameKeeps DEF Keeps, Settles
  <2> QED BY <2>3, <2>5, <2>6, KeepsOn DEF Keeps
<1>6. CASE Stops(b, n, F)
  <2>1. PICK o \in {"cancelled", "timed-out"}, u \in StateType :
          /\ Core(b.m, u.m) /\ u.r = b.r /\ u.threw = FALSE
          /\ IF b.m.execution # "none" THEN Core(u.m, n.m) /\ n.r = u.r
             ELSE \E p \in StateType : p = Finalize(u, o, 1 \notin F, 2 \notin F) /\ Still(p, n)
    BY <1>6 DEF Stops
  <2>2. Keeps(b, u)
    BY <1>6, <2>1, SameKeeps DEF Stops
  <2>3. Keeps(u, n)
    <3>1. CASE b.m.execution # "none"
      BY <2>1, <2>2, <3>1, SameKeeps DEF Keeps
    <3>2. CASE b.m.execution = "none"
      <4>1. PICK p \in StateType : p = Finalize(u, o, 1 \notin F, 2 \notin F) /\ Still(p, n)
        BY <2>1, <3>2
      <4>2. Keeps(u, p)
        BY <2>1, <2>2, <4>1, FinalizeKeeps DEF Keeps
      <4> QED BY <4>1, <4>2 DEF Keeps, Still
    <3> QED BY <3>1, <3>2
  <2> QED BY <2>2, <2>3, KeepsOn DEF Keeps
<1>7. CASE Closing(b, n, F)
  <2>1. PICK p \in StateType : p = Finalize(b, b.m.finishing, 1 \notin F, 2 \notin F) /\ Still(p, n)
    BY <1>7 DEF Closing
  <2>2. b.m.known /\ b.m.finishing \in {"cancelled", "timed-out"}
    BY <1>0, <1>7, FinishingIs DEF Closing
  <2>3. Keeps(b, p)
    BY <2>1, <2>2, FinalizeKeeps
  <2> QED BY <2>1, <2>3 DEF Keeps, Still
<1>8. CASE Ticks(b, n, F)
  <2>1. /\ b.m.known /\ b.m.timer # NoTimer
        /\ n.m.known = b.m.known /\ n.m.kept = b.m.kept
        /\ n.m.status = b.m.status /\ n.m.version = b.m.version
    BY <1>0, <1>8 DEF Ticks
  <2>2. CASE b.m.timer.kind = "live"
    <3>1. Wrote(b, n, b.m.status, b.m.version, 1 \notin F)
      BY <1>8, <2>1, <2>2 DEF Ticks, Wrote
    <3> QED BY <1>0, <2>1, <3>1, WroteKeeps DEF Keeps
  <2>3. CASE b.m.timer.kind # "live"
    <3> DEFINE v == b.m.timer.version
               status == b.m.timer.status
    <3>1. Written(b.r, b.m.committed, n, v, status, 1 \notin F)
      BY <1>8, <2>3 DEF Ticks
    <3>2. /\ Takes(b.r, v) => v <= b.m.version
          /\ Over(b.m.status) /\ b.m.kept = None => v = b.m.version
      BY <2>1, <2>3 DEF Sound, Timed, Again
    <3>3. /\ b.m.version \in Nat /\ b.m.committed \in Int /\ b.r.version \in Nat /\ b.r.content \in Nat
          /\ v \in Nat
      BY NumbersOf
    <3> HIDE DEF v, status
    <3>4. CASE 1 \notin F /\ Takes(b.r, v)
      <4>1. /\ n.r.version = v /\ n.r.content = v /\ n.m.timer = NoTimer
            /\ n.m.committed = IF v > b.m.committed THEN v ELSE b.m.committed
        BY <3>1, <3>4 DEF Written
      <4>2. b.r.version < v /\ b.r.message = "streaming"
        BY <3>4 DEF Takes
      <4>3. Base(n.m, n.r)
        BY <1>0, <2>1, <3>2, <3>3, <3>4, <4>1, <4>2 DEF Base, NoRow
      <4>4. Timed(n.m, n.r)
        BY <2>1, <3>2, <4>1 DEF Timed, Again
      <4>5. Grows(b.r, n.r)
        BY <1>0, <3>3, <4>1, <4>2 DEF Grows, Base
      <4> QED BY <4>3, <4>4, <4>5 DEF Sound
    <3>5. CASE ~(1 \notin F /\ Takes(b.r, v))
      <4>1. Wrote(b, n, b.m.status, b.m.version, FALSE)
        BY <2>1, <3>1, <3>5 DEF Wrote, Written
      <4> QED BY <1>0, <2>1, <4>1, WroteKeeps DEF Keeps
    <3> QED BY <3>4, <3>5
  <2> QED BY <2>2, <2>3
<1> QED BY <1>1, <1>2, <1>3, <1>4, <1>5, <1>6, <1>7, <1>8 DEF Handled

\* If no write fails a turn is open, and nothing of it is final, or it is closed, with
\* its outcome and its message; a turn that is configured still is not past it.
Closed(r) == r.outcome # None /\ r.message # "streaming"
Open(m, r) ==
  /\ r = NoRow \/ r.message = "streaming"
  /\ m.status = IF m.known THEN "streaming" ELSE None
  /\ r.outcome = None /\ m.terminal = None /\ ~Again(m)
Calm(m, r) ==
  /\ Closed(r) \/ Open(m, r)
  /\ m.configuring => r.state = "configuring" \/ Closed(r)

\* A turn whose end is stored stays so.
LEMMA ClosedStays ==
  ASSUME NEW s \in StateType, NEW c \in StateType
  PROVE  /\ \A status, v, ok : Closed(s.r) /\ Wrote(s, c, status, v, ok) => Closed(c.r)
         /\ \A o \in Endings : \A ok : Closes(s, c, o, ok) /\ (ok \/ Closed(s.r)) => Closed(c.r)
<1>1. ASSUME NEW status, NEW v, NEW ok, Closed(s.r), Wrote(s, c, status, v, ok)
      PROVE  Closed(c.r)
  BY <1>1 DEF Wrote, Written, Takes, Closed
<1>2. ASSUME NEW o \in Endings, NEW ok, Closes(s, c, o, ok), ok \/ Closed(s.r)
      PROVE  Closed(c.r)
  <2>1. CASE ok
    <3>1. c.r.outcome = o /\ c.r.message = IF s.r.message = "streaming" THEN StatusOf(o) ELSE s.r.message
      BY <1>2, <2>1 DEF Closes
    <3>2. o # None /\ StatusOf(o) # "streaming"
      BY StatusOfType DEF Endings, None
    <3> QED BY <3>1, <3>2 DEF Closed
  <2>2. CASE ~ok
    BY <1>2, <2>2 DEF Closes
  <2> QED BY <2>1, <2>2
<1> QED BY <1>1, <1>2

\* After a stop the end is stored, unless its write failed.
LEMMA FinalizeCloses ==
  ASSUME NEW s \in StateType, ~s.threw, NEW o \in {"cancelled", "timed-out"}, NEW ok1, NEW ok2,
         NEW p, p = Finalize(s, o, ok1, ok2), Closed(s.r) \/ ~Over(s.m.status)
  PROVE  ok2 => Closed(p.r)
<1>1. CASE Over(s.m.status)
  <2>1. p.r = s.r
    BY <1>1, FinalizeDoes
  <2> QED BY <1>1, <2>1
<1>2. CASE ~Over(s.m.status)
  <2>1. PICK c \in StateType : Closes(c, p, o, ok2)
    BY <1>2, FinalizeDoes
  <2>2. p \in StateType /\ o \in Endings
    BY <2>1 DEF Closes, Endings
  <2> QED BY <2>1, <2>2, ClosedStays
<1> QED BY <1>1, <1>2

\* So it is after a source that throws,
LEMMA RejectedCloses ==
  ASSUME NEW s \in StateType, s.m.finishing = None \/ (~s.threw /\ (Closed(s.r) \/ ~Over(s.m.status))),
         NEW ok1, NEW ok2, NEW p, p = Rejected(s, ok1, ok2)
  PROVE  ok2 => Closed(p.r)
<1>1. CASE s.m.finishing # None
  <2>1. p = Finalize(s, s.m.finishing, ok1, ok2)
    BY <1>1 DEF Rejected
  <2> QED BY <1>1, <2>1, FinalizeCloses, FinishingIs
<1>2. CASE s.m.finishing = None
  <2>1. PICK c \in StateType : Closes(c, p, RejectedAs(s.m), ok2)
    BY <1>2, RejectedDoes
  <2>2. p \in StateType /\ RejectedAs(s.m) \in Endings
    BY <2>1 DEF Closes, Endings, RejectedAs
  <2> QED BY <2>1, <2>2, ClosedStays
<1> QED BY <1>1, <1>2

\* and after one that returns.
LEMMA FulfilledCloses ==
  ASSUME NEW s \in StateType, ~s.threw, NEW o \in Endings, NEW ok1, NEW ok2,
         NEW p, p = Fulfilled(s, o, ok1, ok2),
         Closed(s.r) \/ (IF s.m.finishing # None THEN ~Over(s.m.status) ELSE s.m.terminal = None)
  PROVE  (ok2 => Closed(p.r)) /\ p.m.finishing = None
<1>1. CASE s.m.finishing # None
  <2>1. p = Finalize(s, s.m.finishing, ok1, ok2)
    BY <1>1 DEF Fulfilled
  <2>2. ok2 => Closed(p.r)
    BY <1>1, <2>1, FinalizeCloses, FinishingIs
  <2>3. p.m.finishing = None
    BY <1>1, <2>1, FinalizeDoes, FinishingIs
  <2> QED BY <2>2, <2>3
<1>2. CASE s.m.finishing = None
  <2>1. PICK c \in StateType :
          /\ c.m.finishing = None
          /\ Over(s.m.status) => c.r = s.r
          /\ ~Over(s.m.status) => Wrote(s, c, StatusOf(o), s.m.version, ok1)
          /\ s.m.terminal # None => p = c
          /\ s.m.terminal = None => Closes(c, p, AcceptedAs(s.m, o), ok2) /\ p.m = c.m
    BY <1>2, FulfilledDoes
  <2>2. CASE s.m.terminal # None
    <3>1. Closed(s.r) /\ p = c
      BY <1>2, <2>1, <2>2
    <3>2. Closed(c.r)
      BY <2>1, <3>1, ClosedStays
    <3> QED BY <2>1, <3>1, <3>2
  <2>3. CASE s.m.terminal = None
    <3>1. p \in StateType /\ Closes(c, p, AcceptedAs(s.m, o), ok2) /\ p.m = c.m
      BY <2>1, <2>3 DEF Closes
    <3>2. AcceptedAs(s.m, o) \in Endings
      BY <2>3 DEF AcceptedAs, Endings
    <3>3. ok2 => Closed(p.r)
      BY <3>1, <3>2, ClosedStays
    <3> QED BY <2>1, <3>1, <3>3
  <2> QED BY <2>2, <2>3
<1> QED BY <1>1, <1>2

\* An open turn has a row that takes the next version.
LEMMA OpenIs ==
  ASSUME NEW s \in StateType, Base(s.m, s.r), s.m.known, Open(s.m, s.r)
  PROVE  /\ s.r.message = "streaming" /\ ~Over(s.m.status) /\ s.m.terminal = None
         /\ Takes(s.r, s.m.version + 1)
<1>1. s.r.version <= s.m.version /\ s.r # NoRow /\ s.m.version \in Nat /\ s.r.version \in Nat
  BY NumbersOf DEF Base
<1> QED BY <1>1 DEF Open, Over, Takes, None

\* A handler whose writes succeed leaves a turn open or closed.
LEMMA HandledCalm ==
  ASSUME NEW b \in StateType, NEW n \in StateType, Sound(b.m, b.r), Calm(b.m, b.r), ~b.threw,
         Handled(b, n, {})
  PROVE  Calm(n.m, n.r)
<1>0. /\ b.m.configuring \/ b.m.execution # "none" \/ b.m.finishing # None \/ b.m.timer # NoTimer => b.m.known
      /\ Base(b.m, b.r)
      /\ b.m.known => \/ Closed(b.r)
                      \/ /\ Open(b.m, b.r) /\ b.r.message = "streaming" /\ ~Over(b.m.status)
                         /\ b.m.terminal = None /\ Takes(b.r, b.m.version + 1)
  BY KnownIs, OpenIs DEF Sound, Calm
<1>1. Closed(n.r) => Calm(n.m, n.r)
  BY DEF Calm
<1>2. CASE ConfigurationEnds(b, n, {})
  <2>1. PICK c \in StateType :
          /\ IF Over(b.m.status) THEN c = b ELSE Wrote(b, c, "failed", b.m.version + 1, TRUE)
          /\ Core(c.m, n.m)
          /\ IF c.r.state = "configuring" THEN Closes(c, n, "failed", TRUE) ELSE n.r = c.r
    BY <1>2 DEF ConfigurationEnds
  <2>2. b.m.known /\ b.m.configuring /\ "failed" \in Endings
    BY <1>0, <1>2 DEF ConfigurationEnds, Endings
  <2>3. CASE c.r.state = "configuring"
    BY <1>1, <2>1, <2>2, <2>3, ClosedStays
  <2>4. CASE c.r.state # "configuring"
    <3>1. Closed(b.r)
      <4>1. c.r.state = b.r.state
        BY <2>1 DEF Wrote, Written
      <4> QED BY <2>2, <2>4, <4>1 DEF Calm
    <3>2. Closed(c.r)
      BY <2>1, <3>1, ClosedStays
    <3> QED BY <1>1, <2>1, <2>4, <3>2
  <2> QED BY <2>3, <2>4
<1>3. CASE Starts(b, n, {})
  <2>1. /\ Core(b.m, n.m) /\ Executed(b.m, n.m, "running")
        /\ n.r.state = "executing" /\ n.r.outcome = b.r.outcome /\ n.r.message = b.r.message
        /\ b.m.known /\ b.r.state \in {"prepared", "executing"}
    BY <1>3 DEF Starts
  <2>2. CASE Closed(b.r)
    BY <1>1, <2>1, <2>2 DEF Closed
  <2>3. CASE ~Closed(b.r)
    <3>1. Open(b.m, b.r) /\ b.r.message = "streaming" /\ ~b.m.configuring
      BY <1>0, <2>1, <2>3 DEF Calm
    <3>2. Open(n.m, n.r)
      BY <2>1, <3>1 DEF Open, Again, Core, Executed
    <3> QED BY <2>1, <3>1, <3>2 DEF Calm, Executed
  <2> QED BY <2>2, <2>3
<1>4. CASE Tells(b, n, {})
  <2>1. b.m.known /\ Mode(b.m, n.m)
    BY <1>0, <1>4 DEF Tells
  <2>2. \/ (Core(b.m, n.m) /\ n.r = b.r) \/ Scheduled(b, n, b.m.status)
        \/ Wrote(b, n, b.m.status, b.m.version + 1, TRUE)
    BY <1>4 DEF Tells
  <2>3. CASE Closed(b.r)
    <3>1. Closed(n.r)
      BY <2>2, <2>3, ClosedStays DEF Scheduled
    <3> QED BY <1>1, <3>1
  <2>4. CASE ~Closed(b.r)
    <3>1. /\ Open(b.m, b.r) /\ b.r.message = "streaming" /\ ~Over(b.m.status)
          /\ b.m.terminal = None /\ Takes(b.r, b.m.version + 1)
      BY <1>0, <2>1, <2>4
    <3>2. b.m.configuring => b.r.state = "configuring"
      BY <2>4 DEF Calm
    <3>3. CASE Core(b.m, n.m) /\ n.r = b.r
      BY <2>1, <3>1, <3>2, <3>3 DEF Calm, Open, Again, Core, Mode
    <3>4. CASE Scheduled(b, n, b.m.status)
      <4>1. ~Again(n.m)
        BY <3>1, <3>4 DEF Scheduled, Open, Again, LiveTimer, NoTimer
      <4> QED BY <2>1, <3>1, <3>2, <3>4, <4>1 DEF Calm, Open, Scheduled, Mode
    <3>5. CASE Wrote(b, n, b.m.status, b.m.version + 1, TRUE)
      <4>1. /\ n.r.message = b.m.status /\ n.r.state = b.r.state /\ n.r.outcome = b.r.outcome
            /\ n.m.timer = NoTimer /\ n.m.status = b.m.status /\ n.m.known
        BY <2>1, <3>1, <3>5 DEF Wrote, Written
      <4>2. b.m.status = "streaming"
        BY <2>1, <3>1 DEF Open
      <4> QED BY <2>1, <3>1, <3>2, <4>1, <4>2 DEF Calm, Open, Again, Mode
    <3> QED BY <2>2, <3>3, <3>4, <3>5
  <2> QED BY <2>3, <2>4
<1>5. CASE Returns(b, n, {})
  <2>1. PICK o \in Outcomes, a \in StateType, f \in StateType, x \in StateType :
          /\ Reported(b, a, o, TRUE)
          /\ f = Fulfilled(a, o, TRUE, TRUE)
          /\ IF f.threw THEN x = Rejected(f, TRUE, TRUE) ELSE x = f
          /\ Settles(x, n)
    BY <1>5 DEF Returns
  <2>2. b.m.known /\ o \in Endings
    BY <1>0, <1>5, TurnAssumption DEF Returns
  <2>3. Closed(a.r) \/ (IF a.m.finishing # None THEN ~Over(a.m.status) ELSE a.m.terminal = None)
    <3>1. CASE Closed(b.r)
      BY <2>1, <3>1, ClosedStays DEF Reported, Scheduled
    <3>2. CASE ~Closed(b.r)
      BY <1>0, <2>1, <2>2, <3>2 DEF Reported, Mode, Core
    <3> QED BY <3>1, <3>2
  <2>4. ~a.threw
    BY <2>1 DEF Reported
  <2>5. Closed(f.r) /\ f.m.finishing = None
    BY <2>1, <2>2, <2>3, <2>4, FulfilledCloses
  <2>6. Closed(x.r)
    BY <2>1, <2>5, RejectedCloses
  <2> QED BY <1>1, <2>1, <2>6 DEF Settles
<1>6. CASE Rejects(b, n, {})
  <2>1. PICK a \in StateType, x \in StateType :
          /\ Reported(b, a, "failed", TRUE) /\ x = Rejected(a, TRUE, TRUE) /\ Settles(x, n)
    BY <1>6 DEF Rejects
  <2>2. b.m.known
    BY <1>0, <1>6 DEF Rejects
  <2>3. Closed(a.r) \/ (a.m.finishing # None => ~Over(a.m.status))
    <3>1. CASE Closed(b.r)
      BY <2>1, <3>1, ClosedStays DEF Reported, Scheduled
    <3>2. CASE ~Closed(b.r)
      BY <1>0, <2>1, <2>2, <3>2 DEF Reported, Mode, Core
    <3> QED BY <3>1, <3>2
  <2>4. ~a.threw
    BY <2>1 DEF Reported
  <2>5. Closed(x.r)
    BY <2>1, <2>3, <2>4, RejectedCloses
  <2> QED BY <1>1, <2>1, <2>5 DEF Settles
<1>7. CASE Stops(b, n, {})
  <2>1. PICK o \in {"cancelled", "timed-out"}, u \in StateType :
          /\ Core(b.m, u.m) /\ Unset(b.m, u.m) /\ u.r = b.r /\ ~u.threw
          /\ IF b.m.execution # "none" THEN Core(u.m, n.m) /\ Finishes(u.m, n.m, o) /\ n.r = u.r
             ELSE \E p \in StateType : p = Finalize(u, o, TRUE, TRUE) /\ Still(p, n)
    BY <1>7 DEF Stops
  <2>2. b.m.known /\ ~Over(u.m.status)
    BY <1>7, <2>1 DEF Stops, Core
  <2>3. CASE b.m.execution # "none"
    <3>1. Closed(n.r) \/ Open(n.m, n.r)
      BY <1>0, <2>1, <2>2, <2>3 DEF Open, Again, Core, Unset, Finishes
    <3>2. n.m.configuring = FALSE
      BY <2>1, <2>3 DEF Unset, Finishes
    <3> QED BY <3>1, <3>2 DEF Calm
  <2>4. CASE b.m.execution = "none"
    <3>1. PICK p \in StateType : p = Finalize(u, o, TRUE, TRUE) /\ Still(p, n)
      BY <2>1, <2>4
    <3>2. Closed(p.r)
      BY <2>1, <2>2, <3>1, FinalizeCloses
    <3> QED BY <1>1, <3>1, <3>2 DEF Still
  <2> QED BY <2>3, <2>4
<1>8. CASE Closing(b, n, {})
  <2>1. PICK p \in StateType : p = Finalize(b, b.m.finishing, TRUE, TRUE) /\ Still(p, n)
    BY <1>8 DEF Closing
  <2>2. b.m.known /\ b.m.finishing \in {"cancelled", "timed-out"}
    BY <1>0, <1>8, FinishingIs DEF Closing
  <2>3. Closed(b.r) \/ ~Over(b.m.status)
    BY <1>0, <2>2
  <2>4. Closed(p.r)
    <3> DEFINE o == b.m.finishing
    <3>1. o \in {"cancelled", "timed-out"} /\ p = Finalize(b, o, TRUE, TRUE)
      BY <2>1, <2>2
    <3> HIDE DEF o
    <3>2. ASSUME NEW ok1, NEW ok2, p = Finalize(b, o, ok1, ok2)
          PROVE  ok2 => Closed(p.r)
      BY <2>3, <3>1, <3>2, FinalizeCloses
    <3> QED BY <3>1, <3>2, Zenon
  <2> QED BY <1>1, <2>1, <2>4 DEF Still
<1>9. CASE Ticks(b, n, {})
  <2>1. /\ b.m.known /\ b.m.timer # NoTimer /\ Mode(b.m, n.m) /\ n.m.status = b.m.status
        /\ n.m.known = b.m.known /\ n.m.kept = b.m.kept /\ n.m.version = b.m.version
    BY <1>0, <1>9 DEF Ticks
  <2>2. CASE Closed(b.r)
    <3>1. n.r = b.r
      BY <1>9, <2>2 DEF Ticks, Written, Takes, Closed
    <3> QED BY <1>1, <2>2, <3>1
  <2>3. CASE ~Closed(b.r)
    <3>1. /\ Open(b.m, b.r) /\ b.r.message = "streaming" /\ ~Over(b.m.status) /\ b.m.terminal = None
          /\ b.m.configuring => b.r.state = "configuring"
      BY <1>0, <2>1, <2>3 DEF Calm
    <3>2. Written(b.r, b.m.committed, n, b.m.version, b.m.status, TRUE)
      BY <1>9, <2>1, <3>1 DEF Ticks, Open, Again
    <3>3. b.m.status = "streaming"
      BY <2>1, <3>1 DEF Open
    <3>4. /\ n.r.message = "streaming" /\ n.r.state = b.r.state /\ n.r.outcome = b.r.outcome
          /\ n.m.timer \in {NoTimer, LiveTimer}
      BY <2>1, <3>1, <3>2, <3>3 DEF Written
    <3>5. ~Again(n.m)
      BY <3>4 DEF Again, LiveTimer, NoTimer
    <3> QED BY <2>1, <3>1, <3>3, <3>4, <3>5 DEF Calm, Open, Mode
  <2> QED BY <2>2, <2>3
<1> QED BY <1>2, <1>3, <1>4, <1>5, <1>6, <1>7, <1>8, <1>9 DEF Handled

\* A turn of which memory says nothing is sound.
LEMMA BlankSound ==
  ASSUME NEW m, Blank(m), NEW r, r.content <= r.version
  PROVE  Sound(m, r)
<1>1. Base(m, r)
  BY BlankIs DEF Base
<1>2. ~Again(m) /\ ~Over(m.status)
  BY BlankIs DEF Again, Over, None
<1> QED BY <1>1, <1>2 DEF Sound, Timed

\* A turn that begins is sound.
LEMMA BeginsSound ==
  ASSUME NEW b \in StateType, NEW n \in StateType, Sound(b.m, b.r), Begins(b, n)
  PROVE  Sound(n.m, n.r) /\ Grows(b.r, n.r) /\ Calm(n.m, n.r)
<1>1. b.r = NoRow /\ Blank(b.m)
  BY DEF Sound, Base, Begins
<1>2. b.r.version = 0 /\ b.r.content = 0 /\ b.r.message = None
  BY <1>1 DEF NoRow
<1>3. /\ n.m.known /\ n.m.status = "streaming" /\ n.m.version = 0 /\ n.m.kept = None /\ n.m.terminal = None
      /\ n.m.timer = NoTimer /\ n.m.committed = -1 /\ ~n.m.ckFailed
      /\ n.r.state \in {"configuring", "prepared"} /\ n.m.configuring = (n.r.state = "configuring")
      /\ n.r.version = 0 /\ n.r.content = 0 /\ n.r.outcome = None /\ n.r.message = "streaming"
  BY <1>1, BlankIs DEF Begins
<1>4. n.r # NoRow /\ ~Again(n.m) /\ ~Over(n.m.status)
  BY <1>3 DEF NoRow, Again, Over
<1>5. Sound(n.m, n.r)
  BY <1>3, <1>4 DEF Sound, Base, Timed
<1>6. Grows(b.r, n.r)
  BY <1>2, <1>3 DEF Grows, None
<1>7. Calm(n.m, n.r)
  BY <1>3, <1>4 DEF Calm, Open
<1> QED BY <1>5, <1>6, <1>7

\* Every step of a turn keeps it sound; if no write fails, open or closed.
LEMMA MovedSound ==
  ASSUME NEW b \in StateType, NEW n \in StateType, ~b.threw, Sound(b.m, b.r), Moved(b, n),
         MaxReplays = 0 \/ MaxFaults = 0, MaxFaults = 0 => Calm(b.m, b.r)
  PROVE  Sound(n.m, n.r) /\ Grows(b.r, n.r) /\ (MaxFaults = 0 => Calm(n.m, n.r))
<1>0. /\ b.m.version \in Nat /\ b.m.committed \in Int /\ b.r.version \in Nat /\ b.r.content \in Nat
      /\ b.r.content <= b.r.version
      /\ b.m.known => b.r.version <= b.m.version /\ b.m.committed <= b.r.content /\ b.r # NoRow
  BY NumbersOf DEF Sound, Base
<1>1. CASE Still(b, n)
  BY <1>0, <1>1 DEF Still, Grows
<1>2. CASE Dies(b, n)
  <2>1. n.m = Unknown /\ n.r = b.r /\ Blank(n.m)
    BY <1>2 DEF Dies, Blank
  <2>2. Sound(n.m, n.r) /\ Grows(b.r, n.r)
    BY <1>0, <2>1, BlankSound DEF Grows
  <2>3. ASSUME Calm(b.m, b.r) PROVE Calm(n.m, n.r)
    <3>1. ~n.m.configuring /\ n.m.terminal = None /\ n.m.status = None /\ n.m.timer = NoTimer /\ ~n.m.known
      BY <2>1, BlankIs
    <3> QED BY <2>1, <2>3, <3>1 DEF Calm, Open, Again
  <2> QED BY <2>2, <2>3
<1>3. CASE Replays(b, n)
  <2>1. MaxFaults = 0 /\ Calm(b.m, b.r)
    BY <1>3 DEF Replays
  <2>2. /\ b.r # NoRow /\ n.r = b.r /\ Mode(b.m, n.m)
        /\ n.m.known /\ n.m.status = b.r.message /\ n.m.version = b.r.version /\ n.m.kept = b.r.outcome
        /\ n.m.timer = b.m.timer /\ n.m.committed = b.m.committed
    BY <1>3 DEF Replays
  <2>3. n.m.committed <= n.r.content
    <3>1. CASE b.m.known
      BY <1>0, <2>2, <3>1
    <3>2. CASE ~b.m.known
      <4>1. b.m.committed = -1
        BY <3>2, BlankIs DEF Sound, Base
      <4> QED BY <1>0, <2>2, <4>1
    <3> QED BY <3>1, <3>2
  <2>4. Base(n.m, n.r)
    BY <1>0, <2>2, <2>3 DEF Base
  <2>5. CASE Closed(b.r)
    <3>1. n.m.kept # None /\ ~Takes(n.r, n.m.timer.version)
      BY <2>2, <2>5 DEF Closed, Takes
    <3>2. Timed(n.m, n.r)
      BY <3>1 DEF Timed
    <3> QED BY <1>0, <2>2, <2>4, <2>5, <3>2 DEF Sound, Grows, Calm
  <2>6. CASE ~Closed(b.r)
    <3>1. Open(b.m, b.r) /\ b.r.message = "streaming"
      BY <2>1, <2>2, <2>6 DEF Calm, Open
    <3>2. ~Again(n.m) /\ ~Over(n.m.status)
      BY <2>2, <3>1 DEF Open, Again, Over
    <3>3. Timed(n.m, n.r)
      BY <3>2 DEF Timed
    <3>4. Calm(n.m, n.r)
      BY <2>1, <2>2, <2>6, <3>1, <3>2 DEF Calm, Open, Mode
    <3> QED BY <1>0, <2>2, <2>4, <3>3, <3>4 DEF Sound, Grows
  <2> QED BY <2>5, <2>6
<1>4. CASE Configures(b, n)
  <2>1. /\ b.m.known /\ b.m.configuring /\ b.r.state = "configuring" /\ Core(b.m, n.m) /\ Unset(b.m, n.m)
        /\ n.r.state = "prepared" /\ n.r.version = b.r.version /\ n.r.content = b.r.content
        /\ n.r.outcome = b.r.outcome /\ n.r.message = b.r.message
    BY <1>4, KnownIs DEF Configures, Sound
  <2>2. n.r # NoRow
    BY <2>1 DEF NoRow
  <2>3. Base(n.m, n.r)
    BY <1>0, <2>1, <2>2 DEF Base, Core
  <2>4. Timed(n.m, n.r)
    BY <2>1 DEF Sound, Timed, Again, Takes, Core
  <2>5. ASSUME Calm(b.m, b.r) PROVE Calm(n.m, n.r)
    <3>1. CASE Closed(b.r)
      BY <2>1, <3>1 DEF Calm, Closed
    <3>2. CASE ~Closed(b.r)
      <4>1. Open(b.m, b.r) /\ b.r.message = "streaming"
        BY <1>0, <2>1, <2>5, <3>2 DEF Calm, Open
      <4> QED BY <2>1, <4>1 DEF Calm, Open, Again, Core, Unset
    <3> QED BY <3>1, <3>2
  <2> QED BY <1>0, <2>1, <2>3, <2>4, <2>5 DEF Sound, Grows
<1>5. CASE Recovers(b, n)
  <2>1. PICK o \in Canonical \cup {"recovered"} :
          /\ n.r.state = "terminal" /\ n.r.outcome = o /\ n.r.version = b.r.version + 1
          /\ n.r.content = b.r.content /\ n.r.message = StatusOf(o)
          /\ b.m.known =>
               /\ n.m.known /\ n.m.version = b.m.version + 1 /\ n.m.kept = o
               /\ n.m.committed = b.m.committed
          /\ ~b.m.known => n.m = [b.m EXCEPT !.recovered = TRUE]
    BY <1>5 DEF Recovers
  <2>2. o # None /\ StatusOf(o) # "streaming"
    BY TurnAssumption, StatusOfType DEF Endings, None
  <2>3. n.r # NoRow /\ Closed(n.r) /\ ~Takes(n.r, n.m.timer.version)
    BY <2>1, <2>2 DEF NoRow, Closed, Takes
  <2>4. Sound(n.m, n.r)
    <3>1. CASE b.m.known
      <4>1. Base(n.m, n.r)
        BY <1>0, <2>1, <2>3, <3>1 DEF Base
      <4>2. Timed(n.m, n.r)
        BY <2>1, <2>2, <2>3, <3>1 DEF Timed
      <4> QED BY <4>1, <4>2 DEF Sound
    <3>2. CASE ~b.m.known
      <4>1. Blank(n.m)
        <5>1. Blank(b.m) /\ n.m = [b.m EXCEPT !.recovered = TRUE]
          BY <2>1, <3>2 DEF Sound, Base
        <5> QED BY <5>1 DEF Blank, Unknown
      <4>2. n.r.content <= n.r.version
        BY <1>0, <2>1
      <4> QED BY <4>1, <4>2, BlankSound
    <3> QED BY <3>1, <3>2
  <2>5. Grows(b.r, n.r)
    BY <1>0, <1>5, <2>1 DEF Recovers, Grows
  <2> QED BY <2>3, <2>4, <2>5 DEF Calm
<1>6. CASE \E F \in SUBSET (1..5) : (MaxFaults = 0 => F = {}) /\ Handled(b, n, F)
  <2>1. PICK F : (MaxFaults = 0 => F = {}) /\ Handled(b, n, F)
    BY <1>6
  <2>2. Sound(n.m, n.r) /\ Grows(b.r, n.r)
    BY <2>1, HandledKeeps
  <2>3. MaxFaults = 0 => Calm(n.m, n.r)
    BY <2>1, HandledCalm
  <2> QED BY <2>2, <2>3
<1> QED BY <1>1, <1>2, <1>3, <1>4, <1>5, <1>6 DEF Moved

SoundInv ==
  /\ TypeOK
  /\ \A t \in Turns : Sound(mem[t], row[t]) /\ (MaxFaults = 0 => Calm(mem[t], row[t]))

\* The invariant holds at the start.
LEMMA SoundInit == Init => SoundInv
<1> SUFFICES ASSUME Init PROVE SoundInv
  OBVIOUS
<1>1. TypeOK
  BY TurnInit DEF TurnInv
<1>2. Blank(Unknown) /\ NoRow.content <= NoRow.version
  BY DEF Blank, NoRow
<1>3. Sound(Unknown, NoRow)
  BY <1>2, BlankSound
<1>4. Calm(Unknown, NoRow)
  BY <1>2, BlankIs DEF Calm, Open, Again, NoRow
<1> QED BY <1>1, <1>3, <1>4 DEF Init, SoundInv

\* Every step keeps it, and what is stored grows.
LEMMA SoundStep ==
  ASSUME MaxReplays = 0 \/ MaxFaults = 0, SoundInv, TypeOK', [Next]_vars
  PROVE  SoundInv' /\ \A t \in Turns : Grows(row[t], row'[t])
<1>1. ASSUME NEW t \in Turns
      PROVE  /\ Here(t) \in StateType /\ Here(t).m = mem[t] /\ Here(t).r = row[t] /\ ~Here(t).threw
             /\ Here(t)' \in StateType /\ Here(t)'.m = mem'[t] /\ Here(t)'.r = row'[t]
             /\ Sound(Here(t).m, Here(t).r) /\ (MaxFaults = 0 => Calm(Here(t).m, Here(t).r))
  BY HereIs, HereNext DEF SoundInv
<1>2. ASSUME NEW t \in Turns, Moved(Here(t), Here(t)') \/ Begins(Here(t), Here(t)')
      PROVE  /\ Sound(mem'[t], row'[t]) /\ (MaxFaults = 0 => Calm(mem'[t], row'[t]))
             /\ Grows(row[t], row'[t])
  <2> DEFINE b == Here(t)
             n == Here(t)'
  <2>1. b \in StateType /\ n \in StateType /\ ~b.threw /\ Sound(b.m, b.r) /\ (MaxFaults = 0 => Calm(b.m, b.r))
    BY <1>1
  <2>2. b.r = row[t] /\ n.m = mem'[t] /\ n.r = row'[t] /\ (Moved(b, n) \/ Begins(b, n))
    BY <1>1, <1>2
  <2> HIDE DEF b, n
  <2>3. Sound(n.m, n.r) /\ Grows(b.r, n.r) /\ (MaxFaults = 0 => Calm(n.m, n.r))
    BY <2>1, <2>2, MovedSound, BeginsSound
  <2> QED BY <2>2, <2>3
<1>3. \A t \in Turns : Moved(Here(t), Here(t)') \/ Begins(Here(t), Here(t)')
  BY EachTurn DEF SoundInv, BeginsOne, AllMove, Moved
<1> QED BY <1>2, <1>3 DEF SoundInv

\* It holds in every state of the program, without replays or without failing
\* writes.
LEMMA SoundAlways == ASSUME MaxReplays = 0 \/ MaxFaults = 0 PROVE Spec => []SoundInv
<1>1. SoundInv /\ TypeOK' /\ [Next]_vars => SoundInv'
  BY SoundStep
<1> QED BY <1>1, SoundInit, Typing, PTL DEF Spec

\* Unless a request is replayed after a write has failed, what is stored never goes
\* back: no late checkpoint replaces a newer one, and a completed or cancelled message
\* keeps its status, for any turns, facts, outcomes, crashes and recoveries.
THEOREM StoredOnlyGrows == ASSUME MaxReplays = 0 \/ MaxFaults = 0 PROVE Spec => StoredGrows
<1>1. SoundInv /\ TypeOK' /\ [Next]_vars => [\A t \in Turns : Grows(row[t], row'[t])]_vars
  BY SoundStep
<1>2. (\A t \in Turns : Grows(row[t], row'[t])) <=> \A t \in Turns :
        /\ row'[t].version >= row[t].version /\ row'[t].content >= row[t].content
        /\ row[t].message \in {"completed", "cancelled"} => row'[t].message = row[t].message
  BY DEF Grows
<1>3. SoundInv /\ TypeOK' /\ [Next]_vars => [\A t \in Turns :
        /\ row'[t].version >= row[t].version /\ row'[t].content >= row[t].content
        /\ row[t].message \in {"completed", "cancelled"} => row'[t].message = row[t].message]_vars
  BY <1>1, <1>2
<1> QED BY <1>3, SoundAlways, Typing, PTL DEF Spec, StoredGrows

\* Unless a request is replayed after a write has failed, a version that is told to be
\* committed is stored, and a final message is stored whole, or is to be written again,
\* or its failure shows.
THEOREM NothingIsLost == ASSUME MaxReplays = 0 \/ MaxFaults = 0 PROVE Spec => []NothingLost
<1>1. SoundInv => NothingLost
  BY DEF SoundInv, Sound, Base, Timed, NothingLost
<1> QED BY <1>1, SoundAlways, PTL

-----------------------------------------------------------------------------
(* A turn ends once, and its outcome stands.                               *)

Final == {"completed", "failed", "cancelled"}

\* The row is terminal.
Done(r) == r.state = "terminal"

\* A terminal row has its outcome, and its message is final, as memory has it if it
\* knows the turn.
Whole(m, r) ==
  /\ m.known \/ Blank(m)
  /\ m.known => m.status \in Final \cup {"streaming"} /\ r # NoRow
  /\ r # NoRow => r.message \in Final \cup {"streaming"}
  /\ r.state = "absent" => r = NoRow
  /\ Done(r) <=> r.outcome # None
  /\ Done(r) => Over(r.message) /\ (m.known => Over(m.status))
  /\ Again(m) => m.timer.status \in Final

\* The source may still end the turn.
Early(m, r) == m.known /\ m.execution \in {"none", "running"} /\ r.state \in {"prepared", "executing"}

\* Until the source has settled only a cancel makes the message final, and a row that is
\* terminal before is that of a cancelled turn.
Stands(m, r) ==
  /\ m.finishing \in {None, "cancelled"}
  /\ m.execution = "running" => r.state \in {"executing", "terminal"}
  /\ m.configuring => r.state \in {"configuring", "terminal"}
  /\ m.configuring /\ r.state = "configuring" =>
       /\ m.status = "streaming" /\ r.message = "streaming"
       /\ m.timer = NoTimer /\ m.execution = "none" /\ m.finishing = None
  /\ Early(m, r) =>
       \/ /\ m.status \in {"streaming", "cancelled"} /\ r.message \in {"streaming", "cancelled"}
          /\ Again(m) => m.timer.status = "cancelled"
       \/ m.status = r.message /\ Over(m.status) /\ m.timer = NoTimer
  /\ Done(r) /\ m.execution = "running" =>
       /\ m.status = "cancelled" /\ m.terminal = "cancelled"
       /\ r.message = "cancelled" /\ r.outcome = "cancelled"

\* A terminal row stays, with its outcome.
Stays(r, q) == Done(r) => Done(q) /\ q.outcome = r.outcome

\* The statuses that are final are those of outcomes.
LEMMA FinalIs ==
  /\ \A x : x \in Final <=> Over(x)
  /\ \A o \in Endings \ {"parked"} : StatusOf(o) \in Final
  /\ StatusOf("cancelled") = "cancelled" /\ StatusOf("failed") = "failed"
  BY DEF Final, Over, Endings, StatusOf

\* A write of the message keeps a turn whole.
LEMMA WroteWhole ==
  ASSUME NEW s \in StateType, Whole(s.m, s.r), s.m.known, NEW c, NEW status \in Final \cup {"streaming"},
         NEW v, NEW ok, Wrote(s, c, status, v, ok), Done(s.r) => Over(status)
  PROVE  /\ c \in StateType /\ Whole(c.m, c.r) /\ c.m.known /\ c.m.status = status
         /\ c.r.state = s.r.state /\ c.r.outcome = s.r.outcome
         /\ c.r.message = s.r.message \/ (s.r.message = "streaming" /\ c.r.message = status)
         /\ Done(s.r) => c.r = s.r
         /\ Again(c.m) => c.m.timer.status = status
<1>1. c \in StateType /\ c.m.known /\ c.m.status = status
  BY DEF Wrote
<1>2. /\ c.r.state = s.r.state /\ c.r.outcome = s.r.outcome
      /\ c.r = s.r \/ (s.r.message = "streaming" /\ c.r.message = status)
  BY DEF Wrote, Written, Takes
<1>3. c.r.message = s.r.message \/ (s.r.message = "streaming" /\ c.r.message = status)
  BY <1>2
<1>4. Done(s.r) => c.r = s.r
  BY <1>2 DEF Whole, Over
<1>5. Again(c.m) => Over(status) /\ c.m.timer.status = status
  <2>1. CASE Over(status)
    <3> DEFINE again == [kind |-> "snapshot", version |-> c.m.version, status |-> c.m.status]
    <3>1. again.status = c.m.status
      OBVIOUS
    <3>2. c.m.timer = NoTimer \/ c.m.timer = again
      BY <1>1, <2>1 DEF Wrote, Written
    <3> HIDE DEF again
    <3> QED BY <1>1, <2>1, <3>1, <3>2 DEF Again
  <2>2. CASE ~Over(status)
    <3>1. c.m.timer \in {NoTimer, LiveTimer}
      BY <1>1, <2>2 DEF Wrote, Written
    <3> QED BY <3>1 DEF Again, LiveTimer, NoTimer
  <2> QED BY <2>1, <2>2
<1>6. c.r # NoRow
  <2>1. s.r.state # "absent"
    BY DEF Whole
  <2> QED BY <1>2, <2>1 DEF NoRow
<1>7. Whole(c.m, c.r)
  <2>1. s.r.message \in Final \cup {"streaming"}
    BY DEF Whole
  <2>2. c.r.message \in Final \cup {"streaming"}
    BY <1>3, <2>1
  <2>3. (Done(c.r) <=> c.r.outcome # None) /\ c.r.state # "absent"
    BY <1>2, <1>6 DEF Whole, Done
  <2>4. Done(c.r) => Over(c.r.message) /\ Over(c.m.status)
    BY <1>1, <1>2, <1>4 DEF Whole, Done
  <2> QED BY <1>1, <1>5, <1>6, <2>2, <2>3, <2>4, FinalIs DEF Whole
<1> QED BY <1>1, <1>2, <1>3, <1>4, <1>5, <1>7

\* A step that writes nothing does.
LEMMA SameWhole ==
  ASSUME NEW s \in StateType, Whole(s.m, s.r), s.m.known, NEW p \in StateType, Core(s.m, p.m), p.r = s.r
  PROVE  Whole(p.m, p.r) /\ p.m.known /\ p.m.status = s.m.status
  BY DEF Whole, Core, Again

\* The write of the outcome does.
LEMMA ClosesWhole ==
  ASSUME NEW c \in StateType, Whole(c.m, c.r), c.m.known, Over(c.m.status), NEW p,
         NEW o \in Endings \ {"parked"}, NEW ok, Closes(c, p, o, ok)
  PROVE  p \in StateType /\ Whole(p.m, p.r) /\ p.m.known /\ p.m.status = c.m.status
<1>1. p \in StateType /\ Core(c.m, p.m)
  BY DEF Closes
<1>2. CASE ~ok
  BY <1>1, <1>2, SameWhole DEF Closes
<1>3. CASE ok
  <2>1. /\ p.r.state = "terminal" /\ p.r.outcome = o
        /\ p.r.message = IF c.r.message = "streaming" THEN StatusOf(o) ELSE c.r.message
    BY <1>3 DEF Closes
  <2>2. o # None /\ StatusOf(o) \in Final /\ c.r.message \in Final \cup {"streaming"}
    BY FinalIs DEF Whole, Endings, None
  <2>3. p.r # NoRow /\ p.r.message \in Final
    BY <2>1, <2>2 DEF NoRow
  <2> QED BY <1>1, <2>1, <2>2, <2>3, FinalIs DEF Whole, Done, Core, Again
<1> QED BY <1>2, <1>3

\* The end of a stop does, and does nothing after the end.
LEMMA FinalizeWhole ==
  ASSUME NEW s \in StateType, Whole(s.m, s.r), s.m.known, ~s.threw,
         NEW o \in {"cancelled", "timed-out"}, NEW ok1, NEW ok2, NEW p, p = Finalize(s, o, ok1, ok2)
  PROVE  /\ p \in StateType /\ Whole(p.m, p.r) /\ p.m.known
         /\ p.m.finishing = None /\ p.m.configuring = s.m.configuring /\ p.m.execution = s.m.execution
         /\ Over(s.m.status) => p.r = s.r /\ p.m.status = s.m.status /\ p.m.terminal = s.m.terminal
                                /\ p.m.timer = s.m.timer
         /\ ~Over(s.m.status) =>
              \E c \in StateType : /\ Wrote(s, c, StatusOf(o), s.m.version + 1, ok1)
                                   /\ Closes(c, p, o, ok2)
                                   /\ ok2 => p.m.terminal = o
<1>1. /\ p \in StateType /\ p.m.finishing = None
      /\ p.m.configuring = s.m.configuring /\ p.m.execution = s.m.execution
  BY FinalizeDoes
<1>2. CASE Over(s.m.status)
  <2>1. p.r = s.r /\ Core(s.m, p.m) /\ p.m.terminal = s.m.terminal
    BY <1>2, FinalizeDoes
  <2>2. Whole(p.m, p.r) /\ p.m.known /\ p.m.status = s.m.status
    BY <1>1, <2>1, SameWhole
  <2> QED BY <1>1, <1>2, <2>1, <2>2 DEF Core
<1>3. CASE ~Over(s.m.status)
  <2>1. PICK c \in StateType : /\ Wrote(s, c, StatusOf(o), s.m.version + 1, ok1)
                               /\ Closes(c, p, o, ok2)
                               /\ ok2 => p.m.terminal = o
    BY <1>3, FinalizeDoes
  <2>2. o \in Endings \ {"parked"} /\ StatusOf(o) \in Final /\ Over(StatusOf(o))
    BY FinalIs DEF Endings
  <2>3. Whole(c.m, c.r) /\ c.m.known /\ c.m.status = StatusOf(o)
    BY <2>1, <2>2, WroteWhole
  <2>4. Whole(p.m, p.r) /\ p.m.known
    BY <2>1, <2>2, <2>3, ClosesWhole
  <2> QED BY <1>1, <1>3, <2>1, <2>4
<1> QED BY <1>2, <1>3

\* The end of a source that throws does.
LEMMA RejectedWhole ==
  ASSUME NEW s \in StateType, Whole(s.m, s.r), s.m.known, s.m.finishing = None,
         NEW ok1, NEW ok2, NEW p, p = Rejected(s, ok1, ok2)
  PROVE  /\ p \in StateType /\ Whole(p.m, p.r) /\ p.m.known
         /\ p.m.finishing = None /\ p.m.configuring = s.m.configuring
         /\ Done(s.r) => Done(p.r) /\ p.r.outcome \in {s.r.outcome, RejectedAs(s.m)}
<1>1. PICK c \in StateType : /\ Wrote(s, c, RejectedAs(s.m), s.m.version, ok1)
                             /\ c.m.configuring = s.m.configuring /\ c.m.finishing = None
                             /\ Closes(c, p, RejectedAs(s.m), ok2) /\ p.m = c.m
  BY RejectedDoes
<1>2. RejectedAs(s.m) \in Final /\ RejectedAs(s.m) \in Endings \ {"parked"} /\ Over(RejectedAs(s.m))
  BY DEF RejectedAs, Final, Endings, Over
<1>3. Whole(c.m, c.r) /\ c.m.known /\ c.m.status = RejectedAs(s.m) /\ (Done(s.r) => c.r = s.r)
  BY <1>1, <1>2, WroteWhole
<1>4. p \in StateType /\ Whole(p.m, p.r) /\ p.m.known
  BY <1>1, <1>2, <1>3, ClosesWhole
<1>5. Done(s.r) => Done(p.r) /\ p.r.outcome \in {s.r.outcome, RejectedAs(s.m)}
  BY <1>1, <1>3 DEF Closes, Done
<1> QED BY <1>1, <1>4, <1>5

\* The end of a source that returns does, and changes no row that is over.
LEMMA FulfilledWhole ==
  ASSUME NEW s \in StateType, Whole(s.m, s.r), s.m.known, ~s.threw,
         NEW o \in Endings \ {"parked"}, NEW ok1, NEW ok2, NEW p, p = Fulfilled(s, o, ok1, ok2)
  PROVE  /\ p \in StateType /\ Whole(p.m, p.r) /\ p.m.known
         /\ p.m.finishing = None /\ p.m.configuring = s.m.configuring
         /\ Done(s.r) /\ s.m.terminal # None => p.r = s.r /\ ~p.threw
<1>1. CASE s.m.finishing # None
  <2>1. p = Finalize(s, s.m.finishing, ok1, ok2) /\ s.m.finishing \in {"cancelled", "timed-out"}
    BY <1>1, FinishingIs DEF Fulfilled
  <2>2. /\ p \in StateType /\ Whole(p.m, p.r) /\ p.m.known
        /\ p.m.finishing = None /\ p.m.configuring = s.m.configuring
        /\ Over(s.m.status) => p.r = s.r
    BY <2>1, FinalizeWhole
  <2>3. Over(s.m.status) => ~p.threw
    BY <2>1, FinalizeDoes
  <2> QED BY <2>2, <2>3 DEF Whole
<1>2. CASE s.m.finishing = None
  <2>1. PICK c \in StateType :
          /\ c.threw = s.threw /\ c.m.configuring = s.m.configuring /\ c.m.finishing = None
          /\ Over(s.m.status) => Core(s.m, c.m) /\ c.r = s.r
          /\ ~Over(s.m.status) => Wrote(s, c, StatusOf(o), s.m.version, ok1)
          /\ s.m.terminal # None => p = c
          /\ s.m.terminal = None => Closes(c, p, AcceptedAs(s.m, o), ok2) /\ p.m = c.m
    BY <1>2, FulfilledDoes
  <2>2. StatusOf(o) \in Final /\ Over(StatusOf(o))
    BY FinalIs
  <2>3. Whole(c.m, c.r) /\ c.m.known /\ Over(c.m.status)
    <3>1. CASE Over(s.m.status)
      BY <2>1, <3>1, SameWhole
    <3>2. CASE ~Over(s.m.status)
      BY <2>1, <2>2, <3>2, WroteWhole
    <3> QED BY <3>1, <3>2
  <2>4. CASE s.m.terminal # None
    <3>1. p = c
      BY <2>1, <2>4
    <3>2. Done(s.r) => Over(s.m.status)
      BY DEF Whole
    <3> QED BY <2>1, <2>3, <3>1, <3>2
  <2>5. CASE s.m.terminal = None
    <3>1. AcceptedAs(s.m, o) \in Endings \ {"parked"}
      BY <2>5 DEF AcceptedAs, Endings
    <3>2. p \in StateType /\ Whole(p.m, p.r) /\ p.m.known
      BY <2>1, <2>3, <2>5, <3>1, ClosesWhole
    <3> QED BY <2>1, <2>5, <3>2
  <2> QED BY <2>4, <2>5
<1> QED BY <1>1, <1>2

\* A report does, and opens or ends no row.
LEMMA ReportedWhole ==
  ASSUME NEW s \in StateType, Whole(s.m, s.r), s.m.known, NEW o \in Endings \ {"parked"}, NEW ok,
         NEW p, Reported(s, p, o, ok)
  PROVE  /\ p \in StateType /\ Whole(p.m, p.r) /\ p.m.known /\ Mode(s.m, p.m) /\ p.threw = s.threw
         /\ Over(s.m.status) => p.r = s.r /\ p.m.status = s.m.status
         /\ p.r.state = s.r.state /\ p.r.outcome = s.r.outcome
<1>1. p \in StateType /\ Mode(s.m, p.m) /\ p.threw = s.threw
  BY DEF Reported
<1>2. CASE Core(s.m, p.m) /\ p.r = s.r
  BY <1>1, <1>2, SameWhole
<1>3. CASE ~Over(s.m.status) /\ Wrote(s, p, StatusOf(o), s.m.version + 1, ok)
  <2>1. StatusOf(o) \in Final /\ Over(StatusOf(o))
    BY FinalIs
  <2> QED BY <1>1, <1>3, <2>1, WroteWhole
<1> QED BY <1>2, <1>3 DEF Reported

\* A cancel of a turn that is not over leaves it cancelled, or still to be ended.
LEMMA FinalizeStands ==
  ASSUME NEW s \in StateType, Whole(s.m, s.r), Stands(s.m, s.r), s.m.known, ~s.threw, ~Over(s.m.status),
         ~(s.m.configuring /\ s.r.state = "configuring"),
         NEW ok1, NEW ok2, NEW p, p = Finalize(s, "cancelled", ok1, ok2)
  PROVE  Stands(p.m, p.r) /\ Stays(s.r, p.r)
<1>1. PICK c \in StateType : /\ Wrote(s, c, StatusOf("cancelled"), s.m.version + 1, ok1)
                             /\ Closes(c, p, "cancelled", ok2)
                             /\ ok2 => p.m.terminal = "cancelled"
  BY FinalizeDoes
<1>2. /\ p.m.finishing = None /\ p.m.configuring = s.m.configuring /\ p.m.execution = s.m.execution
      /\ p.m.known
  BY FinalizeDoes
<1>3. StatusOf("cancelled") = "cancelled" /\ Over("cancelled") /\ "cancelled" \in Final
  BY FinalIs DEF Final
<1>4. /\ c.m.status = "cancelled" /\ c.r.state = s.r.state
      /\ c.r.message = s.r.message \/ (s.r.message = "streaming" /\ c.r.message = "cancelled")
      /\ Again(c.m) => c.m.timer.status = "cancelled"
  BY <1>1, <1>3, WroteWhole
<1>5. ~Done(s.r)
  BY DEF Whole
<1>6. p.m.status = "cancelled" /\ p.m.timer = c.m.timer
  BY <1>1, <1>4 DEF Closes, Core
<1>7. s.r.state \in {"prepared", "executing"} /\ s.m.execution \in {"none", "running"} =>
        s.r.message \in {"streaming", "cancelled"}
  BY DEF Stands, Early, Over
<1>8. CASE ok2
  <2>1. /\ p.r.state = "terminal" /\ p.r.outcome = "cancelled" /\ p.m.terminal = "cancelled"
        /\ p.r.message = IF c.r.message = "streaming" THEN "cancelled" ELSE c.r.message
    BY <1>1, <1>3, <1>8 DEF Closes
  <2>2. p.m.execution = "running" => p.r.message = "cancelled"
    BY <1>2, <1>4, <1>5, <1>7, <2>1 DEF Stands, Done
  <2> QED BY <1>2, <1>5, <1>6, <2>1, <2>2 DEF Stands, Early, Done, Stays
<1>9. CASE ~ok2
  <2>1. p.r = c.r
    BY <1>1, <1>9 DEF Closes
  <2>2. Early(p.m, p.r) => p.r.message \in {"streaming", "cancelled"}
    BY <1>2, <1>4, <1>7, <2>1 DEF Early
  <2>3. Again(p.m) => p.m.timer.status = "cancelled"
    BY <1>4, <1>6 DEF Again
  <2> QED BY <1>2, <1>4, <1>5, <1>6, <2>1, <2>2, <2>3 DEF Stands, Done, Stays
<1> QED BY <1>8, <1>9

\* A successor of a turn in memory.
Goes(b, n) == b.m.known /\ n.m.known /\ Whole(n.m, n.r) /\ Stands(n.m, n.r) /\ Stays(b.r, n.r)

\* When the source has settled, the outcome stands.
LEMMA SettledStands ==
  ASSUME NEW b, NEW x \in StateType, NEW n \in StateType, Whole(x.m, x.r), Stands(b.m, b.r), b.m.known, x.m.known,
         b.m.execution = "running", x.m.finishing = None, x.m.configuring = b.m.configuring,
         Stays(b.r, x.r), Settles(x, n)
  PROVE  Goes(b, n)
<1>1. Core(x.m, n.m) /\ Executed(x.m, n.m, "settled") /\ n.r = x.r
  BY DEF Settles
<1>2. Whole(n.m, n.r) /\ n.m.known
  BY <1>1, SameWhole
<1>3. n.m.configuring => Done(n.r)
  <2> SUFFICES ASSUME n.m.configuring PROVE Done(n.r)
    OBVIOUS
  <2>1. b.m.configuring
    BY <1>1 DEF Executed
  <2>2. Done(b.r)
    BY <2>1 DEF Stands, Done
  <2> QED BY <1>1, <2>2 DEF Stays
<1>4. Stands(n.m, n.r)
  BY <1>1, <1>3 DEF Stands, Early, Done, Executed
<1> QED BY <1>1, <1>2, <1>4 DEF Goes

\* Every handler keeps a turn whole and its outcome standing.
LEMMA HandledGoes ==
  ASSUME "parked" \notin Outcomes, Timeouts = FALSE, NEW b \in StateType, NEW n \in StateType, ~b.threw,
         Whole(b.m, b.r), Stands(b.m, b.r), NEW F, Handled(b, n, F)
  PROVE  Goes(b, n)
<1>0. /\ b.m.configuring \/ b.m.execution # "none" \/ b.m.finishing # None \/ b.m.timer # NoTimer => b.m.known
      /\ b.m.known => b.m.status \in Final \cup {"streaming"} /\ b.r # NoRow
      /\ Done(b.r) /\ b.m.execution = "running" =>
           Over(b.m.status) /\ b.m.status = "cancelled" /\ b.m.terminal = "cancelled" /\ b.r.outcome = "cancelled"
  BY BlankIs, FinalIs DEF Whole, Stands, Over
<1>1. CASE ConfigurationEnds(b, n, F)
  <2>1. PICK c \in StateType :
          /\ IF Over(b.m.status) THEN c = b ELSE Wrote(b, c, "failed", b.m.version + 1, 1 \notin F)
          /\ Mode(b.m, c.m) /\ Core(c.m, n.m) /\ Unset(c.m, n.m)
          /\ IF c.r.state = "configuring" THEN Closes(c, n, "failed", 2 \notin F) ELSE n.r = c.r
    BY <1>1 DEF ConfigurationEnds
  <2>2. /\ b.m.known /\ b.m.configuring /\ b.r.state \in {"configuring", "terminal"}
        /\ "failed" \in Final /\ Over("failed") /\ "failed" \in Endings \ {"parked"}
    BY <1>0, <1>1, FinalIs DEF ConfigurationEnds, Stands, Endings, Final
  <2>3. /\ Whole(c.m, c.r) /\ c.m.known /\ Over(c.m.status) /\ c.r.state = b.r.state
        /\ Done(b.r) => c.r = b.r
        /\ Over(b.m.status) => c = b
    <3>1. CASE Over(b.m.status)
      BY <2>1, <2>2, <3>1
    <3>2. CASE ~Over(b.m.status)
      <4>1. Wrote(b, c, "failed", b.m.version + 1, 1 \notin F)
        BY <2>1, <3>2
      <4> QED BY <2>2, <3>2, <4>1, WroteWhole
    <3> QED BY <3>1, <3>2
  <2>4. n.m.configuring = FALSE /\ n.m.execution = b.m.execution /\ n.m.finishing = b.m.finishing
        /\ n.m.terminal = b.m.terminal /\ n.m.status = c.m.status
    BY <2>1 DEF Mode, Unset, Core
  <2>5. Whole(n.m, n.r) /\ n.m.known /\ (n.r.state = "configuring" \/ Done(n.r))
    <3>1. CASE c.r.state = "configuring"
      <4>1. Closes(c, n, "failed", 2 \notin F)
        BY <2>1, <3>1
      <4>2. n.r.state = "configuring" \/ Done(n.r)
        BY <3>1, <4>1 DEF Closes, Done
      <4> QED BY <2>2, <2>3, <4>1, <4>2, ClosesWhole
    <3>2. CASE c.r.state # "configuring"
      <4>1. n.r = c.r /\ Core(c.m, n.m)
        BY <2>1, <3>2
      <4>2. Whole(n.m, n.r) /\ n.m.known
        BY <2>3, <4>1, SameWhole
      <4> QED BY <2>2, <2>3, <3>2, <4>1, <4>2 DEF Done
    <3> QED BY <3>1, <3>2
  <2>6. Done(b.r) => n.r = b.r
    BY <2>1, <2>3 DEF Done
  <2>7. Done(n.r) /\ n.m.execution = "running" =>
          n.m.status = "cancelled" /\ n.m.terminal = "cancelled" /\ n.r = b.r /\ Done(b.r)
    <3> SUFFICES ASSUME n.m.execution = "running"
                 PROVE  n.m.status = "cancelled" /\ n.m.terminal = "cancelled" /\ n.r = b.r /\ Done(b.r)
      OBVIOUS
    <3>1. Done(b.r)
      BY <2>2, <2>4 DEF Stands, Done
    <3> QED BY <1>0, <2>3, <2>4, <2>6, <3>1
  <2>8. Stands(n.m, n.r)
    <3>1. n.m.finishing \in {None, "cancelled"} /\ ~n.m.configuring
      BY <2>4 DEF Stands
    <3>2. n.m.execution = "running" => n.r.state \in {"executing", "terminal"}
      BY <2>2, <2>4, <2>6 DEF Stands, Done
    <3>3. ~Early(n.m, n.r)
      BY <2>5 DEF Early, Done
    <3>4. Done(n.r) /\ n.m.execution = "running" =>
            n.m.status = "cancelled" /\ n.m.terminal = "cancelled"
            /\ n.r.message = "cancelled" /\ n.r.outcome = "cancelled"
      BY <2>4, <2>7 DEF Stands
    <3> QED BY <3>1, <3>2, <3>3, <3>4 DEF Stands
  <2> QED BY <2>2, <2>5, <2>6, <2>8 DEF Goes, Stays
<1>2. CASE Starts(b, n, F)
  <2>1. /\ b.m.known /\ b.r.state \in {"prepared", "executing"} /\ b.m.execution = "none"
        /\ ~Done(b.r) /\ ~b.m.configuring
    BY <1>2 DEF Starts, Done, Stands
  <2>2. CASE 1 \in F
    BY <1>2, <2>1, <2>2 DEF Starts, Still, Goes, Stays
  <2>3. CASE 1 \notin F
    <3>1. /\ Core(b.m, n.m) /\ Executed(b.m, n.m, "running") /\ n.r.state = "executing"
          /\ n.r.outcome = b.r.outcome /\ n.r.message = b.r.message
      BY <1>2, <2>3 DEF Starts
    <3>2. n.r # NoRow /\ ~Done(n.r)
      BY <3>1 DEF NoRow, Done
    <3>3. Whole(n.m, n.r) /\ n.m.known
      BY <1>0, <2>1, <3>1, <3>2 DEF Whole, Core, Again
    <3>4. Early(b.m, b.r)
      BY <2>1 DEF Early
    <3>5. Stands(n.m, n.r)
      BY <2>1, <3>1, <3>2, <3>4 DEF Stands, Core, Executed, Again
    <3> QED BY <2>1, <3>3, <3>5 DEF Goes, Stays
  <2> QED BY <2>2, <2>3
<1>3. CASE Tells(b, n, F)
  <2>1. b.m.known /\ b.m.execution = "running" /\ ~Over(b.m.status) /\ Mode(b.m, n.m)
    BY <1>0, <1>3 DEF Tells
  <2>2. /\ ~Done(b.r) /\ b.r.state = "executing" /\ Early(b.m, b.r) /\ b.m.status = "streaming"
        /\ b.r.message \in {"streaming", "cancelled"} /\ (Again(b.m) => b.m.timer.status = "cancelled")
        /\ ~b.m.configuring
    <3>1. ~Done(b.r) /\ b.r.state = "executing" /\ ~b.m.configuring
      BY <1>0, <2>1 DEF Stands, Done
    <3>2. Early(b.m, b.r)
      BY <2>1, <3>1 DEF Early
    <3> QED BY <2>1, <3>1, <3>2 DEF Stands, Over
  <2>3. /\ Whole(n.m, n.r) /\ n.m.known /\ n.m.status = "streaming"
        /\ n.r.state = b.r.state /\ n.r.message = b.r.message
        /\ Again(n.m) => n.m.timer.status = "cancelled"
    <3>1. CASE Core(b.m, n.m) /\ n.r = b.r
      BY <2>1, <2>2, <3>1, SameWhole DEF Core, Again
    <3>2. CASE Scheduled(b, n, b.m.status)
      <4>1. /\ n.m.known /\ n.r = b.r /\ n.m.status = "streaming"
            /\ n.m.timer = IF b.m.timer = NoTimer THEN LiveTimer ELSE b.m.timer
        BY <2>1, <2>2, <3>2 DEF Scheduled
      <4>2. Again(n.m) => Again(b.m) /\ n.m.timer = b.m.timer
        BY <4>1 DEF Again, LiveTimer
      <4>3. Again(n.m) => n.m.timer.status = "cancelled"
        BY <2>2, <4>2
      <4>4. Whole(n.m, n.r)
        BY <1>0, <2>1, <2>2, <4>1, <4>3 DEF Whole, Final
      <4> QED BY <4>1, <4>3, <4>4
    <3>3. CASE Wrote(b, n, b.m.status, b.m.version + 1, 1 \notin F)
      <4>1. /\ Whole(n.m, n.r) /\ n.m.known /\ n.m.status = "streaming" /\ n.r.state = b.r.state
            /\ n.r.message = b.r.message
            /\ Again(n.m) => n.m.timer.status = "streaming"
        BY <1>0, <2>1, <2>2, <3>3, WroteWhole
      <4>2. ~Again(n.m)
        BY <4>1 DEF Whole, Final
      <4> QED BY <4>1, <4>2
    <3> QED BY <1>3, <3>1, <3>2, <3>3 DEF Tells
  <2>4. Stands(n.m, n.r)
    BY <2>1, <2>2, <2>3 DEF Stands, Mode, Done
  <2> QED BY <2>1, <2>2, <2>3, <2>4 DEF Goes, Stays
<1>4. CASE Returns(b, n, F)
  <2>1. PICK o \in Outcomes, a \in StateType, f \in StateType, x \in StateType :
          /\ Reported(b, a, o, 1 \notin F)
          /\ f = Fulfilled(a, o, 2 \notin F, 3 \notin F)
          /\ IF f.threw THEN x = Rejected(f, 4 \notin F, 5 \notin F) ELSE x = f
          /\ Settles(x, n)
    BY <1>4 DEF Returns
  <2>2. b.m.known /\ b.m.execution = "running" /\ o \in Endings \ {"parked"}
    BY <1>0, <1>4, TurnAssumption DEF Returns
  <2>3. /\ Whole(a.m, a.r) /\ a.m.known /\ Mode(b.m, a.m) /\ ~a.threw
        /\ a.r.state = b.r.state /\ a.r.outcome = b.r.outcome
    BY <2>1, <2>2, ReportedWhole
  <2>4. /\ Whole(f.m, f.r) /\ f.m.known /\ f.m.finishing = None /\ f.m.configuring = a.m.configuring
        /\ Done(a.r) /\ a.m.terminal # None => f.r = a.r /\ ~f.threw
    BY <2>1, <2>2, <2>3, FulfilledWhole
  <2>5. /\ Whole(x.m, x.r) /\ x.m.known /\ x.m.finishing = None /\ x.m.configuring = f.m.configuring
        /\ ~f.threw => x = f
    <3>1. CASE f.threw
      <4>1. x = Rejected(f, 4 \notin F, 5 \notin F)
        BY <2>1, <3>1
      <4> QED BY <2>4, <3>1, <4>1, RejectedWhole
    <3>2. CASE ~f.threw
      BY <2>1, <2>4, <3>2
    <3> QED BY <3>1, <3>2
  <2>6. Stays(b.r, x.r)
    <3> SUFFICES ASSUME Done(b.r) PROVE x.r = a.r
      BY <2>3 DEF Stays, Done
    <3>1. Done(a.r) /\ a.m.terminal = "cancelled"
      BY <1>0, <2>2, <2>3 DEF Done, Mode
    <3> QED BY <2>4, <2>5, <3>1 DEF None
  <2>7. x.m.configuring = b.m.configuring
    BY <2>3, <2>4, <2>5 DEF Mode
  <2> QED BY <2>1, <2>2, <2>5, <2>6, <2>7, SettledStands
<1>5. CASE Rejects(b, n, F)
  <2>1. PICK a \in StateType, x \in StateType :
          /\ Reported(b, a, "failed", 1 \notin F) /\ x = Rejected(a, 2 \notin F, 3 \notin F) /\ Settles(x, n)
    BY <1>5 DEF Rejects
  <2>2. b.m.known /\ b.m.execution = "running" /\ "failed" \in Endings \ {"parked"}
    BY <1>0, <1>5 DEF Rejects, Endings
  <2>3. /\ Whole(a.m, a.r) /\ a.m.known /\ Mode(b.m, a.m) /\ ~a.threw
        /\ Over(b.m.status) => a.m.status = b.m.status
        /\ a.r.state = b.r.state /\ a.r.outcome = b.r.outcome
    BY <2>1, <2>2, ReportedWhole
  <2>4. Done(b.r) => Done(a.r) /\ a.m.status = "cancelled" /\ Over(a.m.status) /\ a.r.outcome = "cancelled"
    BY <1>0, <2>2, <2>3 DEF Done
  <2>5. /\ Whole(x.m, x.r) /\ x.m.known /\ x.m.finishing = None /\ x.m.configuring = a.m.configuring
        /\ Stays(b.r, x.r)
    <3>1. CASE a.m.finishing # None
      <4>1. x = Finalize(a, a.m.finishing, 2 \notin F, 3 \notin F) /\ a.m.finishing \in {"cancelled", "timed-out"}
        BY <2>1, <3>1, FinishingIs DEF Rejected
      <4>2. /\ Whole(x.m, x.r) /\ x.m.known /\ x.m.finishing = None /\ x.m.configuring = a.m.configuring
            /\ Over(a.m.status) => x.r = a.r
        BY <2>3, <4>1, FinalizeWhole
      <4> QED BY <2>3, <2>4, <4>2 DEF Stays
    <3>2. CASE a.m.finishing = None
      <4>1. /\ Whole(x.m, x.r) /\ x.m.known /\ x.m.finishing = None /\ x.m.configuring = a.m.configuring
            /\ Done(a.r) => Done(x.r) /\ x.r.outcome \in {a.r.outcome, RejectedAs(a.m)}
        BY <2>1, <2>3, <3>2, RejectedWhole
      <4>2. a.m.status = "cancelled" => RejectedAs(a.m) = "cancelled"
        BY DEF RejectedAs
      <4> QED BY <2>3, <2>4, <4>1, <4>2 DEF Stays
    <3> QED BY <3>1, <3>2
  <2>6. x.m.configuring = b.m.configuring
    BY <2>3, <2>5 DEF Mode
  <2> QED BY <2>1, <2>2, <2>5, <2>6, SettledStands
<1>6. CASE Stops(b, n, F)
  <2>1. PICK o \in {"cancelled", "timed-out"}, u \in StateType :
          /\ o = "timed-out" => Timeouts
          /\ Core(b.m, u.m) /\ Unset(b.m, u.m) /\ u.r = b.r /\ u.threw = FALSE
          /\ IF b.m.execution # "none" THEN Core(u.m, n.m) /\ Finishes(u.m, n.m, o) /\ n.r = u.r
             ELSE \E p \in StateType : p = Finalize(u, o, 1 \notin F, 2 \notin F) /\ Still(p, n)
    BY <1>6 DEF Stops
  <2>2. b.m.known /\ ~Over(b.m.status) /\ b.m.finishing = None /\ ~Done(b.r) /\ o = "cancelled"
    BY <1>6, <2>1 DEF Stops, Whole
  <2>3. Whole(u.m, u.r) /\ u.m.known /\ u.m.status = b.m.status
    BY <2>1, <2>2, SameWhole
  <2>4. Stands(u.m, u.r) /\ ~u.m.configuring
    BY <2>1, <2>2 DEF Stands, Core, Unset, Early, Again
  <2>5. CASE b.m.execution # "none"
    <3>1. Core(u.m, n.m) /\ Finishes(u.m, n.m, "cancelled") /\ n.r = u.r
      BY <2>1, <2>2, <2>5
    <3>2. Whole(n.m, n.r) /\ n.m.known
      BY <2>3, <3>1, SameWhole
    <3>3. Stands(n.m, n.r)
      BY <2>4, <2>1, <2>2, <3>1 DEF Stands, Core, Finishes, Early, Again
    <3> QED BY <2>2, <3>2, <3>3 DEF Goes, Stays
  <2>6. CASE b.m.execution = "none"
    <3>1. PICK p \in StateType : p = Finalize(u, "cancelled", 1 \notin F, 2 \notin F) /\ Still(p, n)
      BY <2>1, <2>2, <2>6
    <3>2. Whole(p.m, p.r) /\ p.m.known
      BY <2>1, <2>3, <3>1, FinalizeWhole
    <3>3. Stands(p.m, p.r)
      BY <2>1, <2>2, <2>3, <2>4, <3>1, FinalizeStands
    <3> QED BY <2>2, <3>1, <3>2, <3>3 DEF Goes, Stays, Still
  <2> QED BY <2>5, <2>6
<1>7. CASE Closing(b, n, F)
  <2>1. b.m.known /\ b.m.finishing = "cancelled"
    BY <1>0, <1>7 DEF Closing, Stands
  <2>2. PICK p \in StateType : p = Finalize(b, "cancelled", 1 \notin F, 2 \notin F) /\ Still(p, n)
    BY <1>7, <2>1 DEF Closing
  <2>3. /\ Whole(p.m, p.r) /\ p.m.known
        /\ p.m.finishing = None /\ p.m.configuring = b.m.configuring /\ p.m.execution = b.m.execution
        /\ Over(b.m.status) => p.r = b.r /\ p.m.status = b.m.status /\ p.m.terminal = b.m.terminal
                               /\ p.m.timer = b.m.timer
    BY <2>1, <2>2, FinalizeWhole
  <2>4. ~(b.m.configuring /\ b.r.state = "configuring")
    BY <2>1 DEF Stands, None
  <2>5. Stands(p.m, p.r) /\ Stays(b.r, p.r)
    <3>1. CASE Over(b.m.status)
      <4>1. Stands(p.m, p.r)
        BY <2>1, <2>3, <2>4, <3>1 DEF Stands, Early, Again
      <4> QED BY <2>3, <3>1, <4>1 DEF Stays
    <3>2. CASE ~Over(b.m.status)
      BY <2>1, <2>2, <2>4, <3>2, FinalizeStands
    <3> QED BY <3>1, <3>2
  <2> QED BY <2>1, <2>2, <2>3, <2>5 DEF Goes, Still
<1>8. CASE Ticks(b, n, F)
  <2>1. /\ b.m.known /\ b.m.timer # NoTimer /\ Mode(b.m, n.m) /\ n.m.known /\ n.m.kept = b.m.kept
        /\ n.m.status = b.m.status /\ n.m.version = b.m.version
        /\ b.m.status \in Final \cup {"streaming"}
    BY <1>0, <1>8 DEF Ticks
  <2>2. Done(b.r) => Over(b.m.status) /\ b.r.message # "streaming"
    BY <2>1 DEF Whole, Over
  <2>3. /\ Whole(n.m, n.r) /\ n.r.state = b.r.state /\ n.r.outcome = b.r.outcome
        /\ n.r.message = b.r.message \/ n.r.message = b.m.status
             \/ (Again(b.m) /\ n.r.message = b.m.timer.status)
        /\ Done(b.r) => n.r = b.r
        /\ Again(n.m) => n.m.timer.status = b.m.status
    <3>1. ASSUME NEW ok, Wrote(b, n, b.m.status, b.m.version, ok)
          PROVE  /\ Whole(n.m, n.r) /\ n.r.state = b.r.state /\ n.r.outcome = b.r.outcome
                 /\ n.r.message = b.r.message \/ n.r.message = b.m.status
                 /\ Done(b.r) => n.r = b.r
                 /\ Again(n.m) => n.m.timer.status = b.m.status
      <4> DEFINE status == b.m.status
                 v == b.m.version
      <4>1. status \in Final \cup {"streaming"} /\ Wrote(b, n, status, v, ok) /\ (Done(b.r) => Over(status))
        BY <2>1, <2>2, <3>1
      <4> HIDE DEF status, v
      <4>2. /\ Whole(n.m, n.r) /\ n.r.state = b.r.state /\ n.r.outcome = b.r.outcome
            /\ n.r.message = b.r.message \/ (b.r.message = "streaming" /\ n.r.message = status)
            /\ Done(b.r) => n.r = b.r
            /\ Again(n.m) => n.m.timer.status = status
        BY <2>1, <4>1, WroteWhole
      <4> QED BY <4>2 DEF status
    <3>2. CASE b.m.timer.kind = "live"
      <4>1. Wrote(b, n, b.m.status, b.m.version, 1 \notin F)
        BY <1>8, <2>1, <3>2 DEF Ticks, Wrote
      <4> QED BY <3>1, <4>1
    <3>3. CASE b.m.timer.kind # "live"
      <4> DEFINE v == b.m.timer.version
                 status == b.m.timer.status
      <4>1. Written(b.r, b.m.committed, n, v, status, 1 \notin F)
        BY <1>8, <3>3 DEF Ticks
      <4>2. Again(b.m) /\ status \in Final
        BY <2>1, <3>3 DEF Whole, Again
      <4> HIDE DEF v, status
      <4>3. CASE 1 \notin F /\ Takes(b.r, v)
        <5>1. /\ n.r.state = b.r.state /\ n.r.outcome = b.r.outcome /\ n.r.message = status
              /\ n.m.timer = NoTimer
          BY <4>1, <4>3 DEF Written
        <5>2. ~Done(b.r) /\ ~Again(n.m)
          BY <2>2, <4>3, <5>1 DEF Takes, Again
        <5>3. n.r # NoRow
          BY <2>1, <4>2, <5>1 DEF NoRow, Final, None
        <5>4. Whole(n.m, n.r)
          BY <2>1, <4>2, <5>1, <5>2, <5>3 DEF Whole, Done
        <5> QED BY <4>2, <5>1, <5>2, <5>4 DEF status
      <4>4. CASE ~(1 \notin F /\ Takes(b.r, v))
        <5>1. Wrote(b, n, b.m.status, b.m.version, FALSE)
          BY <2>1, <4>1, <4>4 DEF Wrote, Written
        <5> QED BY <3>1, <5>1
      <4> QED BY <4>3, <4>4
    <3> QED BY <3>2, <3>3
  <2>4. Early(n.m, n.r) => /\ n.m.status \in {"streaming", "cancelled"} /\ n.r.message \in {"streaming", "cancelled"}
                           /\ Again(n.m) => n.m.timer.status = "cancelled"
    <3> SUFFICES ASSUME Early(n.m, n.r)
                 PROVE  /\ n.m.status \in {"streaming", "cancelled"} /\ n.r.message \in {"streaming", "cancelled"}
                        /\ Again(n.m) => n.m.timer.status = "cancelled"
      OBVIOUS
    <3>1. Early(b.m, b.r)
      BY <2>1, <2>3 DEF Early, Mode
    <3>2. /\ b.m.status \in {"streaming", "cancelled"} /\ b.r.message \in {"streaming", "cancelled"}
          /\ Again(b.m) => b.m.timer.status = "cancelled"
      BY <2>1, <3>1 DEF Stands
    <3>3. Again(n.m) => n.m.timer.status = "cancelled"
      BY <2>3, <3>2 DEF Whole, Final
    <3> QED BY <2>1, <2>3, <3>2, <3>3
  <2>5. Stands(n.m, n.r)
    <3>1. /\ n.m.finishing \in {None, "cancelled"}
          /\ n.m.execution = "running" => n.r.state \in {"executing", "terminal"}
          /\ n.m.configuring => n.r.state \in {"configuring", "terminal"}
          /\ ~(n.m.configuring /\ n.r.state = "configuring")
      BY <2>1, <2>3 DEF Stands, Mode
    <3>2. Done(n.r) /\ n.m.execution = "running" =>
            /\ n.m.status = "cancelled" /\ n.m.terminal = "cancelled"
            /\ n.r.message = "cancelled" /\ n.r.outcome = "cancelled"
      BY <2>1, <2>3 DEF Stands, Mode, Done
    <3> QED BY <2>4, <3>1, <3>2 DEF Stands
  <2> QED BY <2>1, <2>3, <2>5 DEF Goes, Stays, Done
<1> QED BY <1>1, <1>2, <1>3, <1>4, <1>5, <1>6, <1>7, <1>8 DEF Handled

\* What a step makes of a turn that keeps its end.
Ended(m, r) == Whole(m, r) /\ Stands(m, r)

\* A turn that memory has lost is as its row says.
LEMMA BlankEnded ==
  ASSUME NEW m, NEW q, NEW r, Blank(m), Whole(q, r)
  PROVE  Ended(m, r)
<1>1. /\ ~m.known /\ ~m.configuring /\ m.execution = "none" /\ m.finishing = None /\ ~Again(m)
  BY BlankIs DEF Again
<1>2. Whole(m, r)
  BY <1>1 DEF Whole
<1>3. Stands(m, r)
  BY <1>1 DEF Stands, Early
<1> QED BY <1>2, <1>3 DEF Ended

\* Every step of a turn keeps its end.
LEMMA MovedEnded ==
  ASSUME "parked" \notin Outcomes, Timeouts = FALSE, WakeRecovers = FALSE,
         NEW b \in StateType, NEW n \in StateType, ~b.threw, Ended(b.m, b.r), Moved(b, n)
  PROVE  Ended(n.m, n.r) /\ Stays(b.r, n.r) /\ (b.r = NoRow <=> n.r = NoRow)
<1>0. /\ Whole(b.m, b.r) /\ Stands(b.m, b.r)
      /\ b.m.known => b.m.status \in Final \cup {"streaming"} /\ b.r # NoRow
  BY DEF Ended, Whole
<1>1. CASE Still(b, n)
  BY <1>1 DEF Still, Stays
<1>2. CASE Dies(b, n)
  <2>1. n.r = b.r /\ Blank(n.m)
    BY <1>2 DEF Dies, Blank
  <2>2. Ended(n.m, n.r)
    BY <1>0, <2>1, BlankEnded
  <2> QED BY <2>1, <2>2 DEF Stays
<1>3. CASE Replays(b, n)
  <2>1. /\ b.r # NoRow /\ n.r = b.r /\ Mode(b.m, n.m) /\ n.m.known
        /\ n.m.status = b.r.message /\ n.m.timer = b.m.timer
    BY <1>3 DEF Replays
  <2>2. /\ b.r.message \in Final \cup {"streaming"}
        /\ Done(b.r) => Over(b.r.message)
        /\ Again(b.m) => b.m.timer.status \in Final
        /\ ~b.m.known => /\ ~b.m.configuring /\ b.m.timer = NoTimer
                         /\ b.m.execution = "none" /\ b.m.finishing = None
    BY <1>0, <2>1, BlankIs DEF Whole
  <2>3. Whole(n.m, n.r)
    BY <1>0, <2>1, <2>2 DEF Whole, Again
  <2>4. Early(n.m, n.r) =>
          \/ /\ n.m.status \in {"streaming", "cancelled"} /\ n.r.message \in {"streaming", "cancelled"}
             /\ Again(n.m) => n.m.timer.status = "cancelled"
          \/ n.m.status = n.r.message /\ Over(n.m.status) /\ n.m.timer = NoTimer
    <3>1. CASE b.m.known
      BY <1>0, <2>1, <3>1 DEF Stands, Early, Mode, Again
    <3>2. CASE ~b.m.known
      <4>1. n.m.timer = NoTimer /\ ~Again(n.m) /\ n.m.status = n.r.message
        BY <2>1, <2>2, <3>2 DEF Again
      <4>2. n.r.message = "streaming" \/ Over(n.r.message)
        BY <2>1, <2>2, FinalIs
      <4> QED BY <4>1, <4>2
    <3> QED BY <3>1, <3>2
  <2>5. Stands(n.m, n.r)
    <3>1. /\ n.m.finishing \in {None, "cancelled"}
          /\ n.m.execution = "running" => n.r.state \in {"executing", "terminal"}
          /\ n.m.configuring => n.r.state \in {"configuring", "terminal"}
      BY <1>0, <2>1 DEF Stands, Mode
    <3>2. n.m.configuring /\ n.r.state = "configuring" =>
            /\ n.m.status = "streaming" /\ n.r.message = "streaming"
            /\ n.m.timer = NoTimer /\ n.m.execution = "none" /\ n.m.finishing = None
      BY <1>0, <2>1 DEF Stands, Mode
    <3>3. Done(n.r) /\ n.m.execution = "running" =>
            /\ n.m.status = "cancelled" /\ n.m.terminal = "cancelled"
            /\ n.r.message = "cancelled" /\ n.r.outcome = "cancelled"
      BY <1>0, <2>1 DEF Stands, Mode
    <3> QED BY <2>4, <3>1, <3>2, <3>3 DEF Stands
  <2> QED BY <2>1, <2>3, <2>5 DEF Ended, Stays
<1>4. CASE Configures(b, n)
  <2>1. /\ b.m.configuring /\ b.r.state = "configuring" /\ Core(b.m, n.m) /\ Unset(b.m, n.m)
        /\ n.r.state = "prepared" /\ n.r.outcome = b.r.outcome /\ n.r.message = b.r.message
    BY <1>4 DEF Configures
  <2>2. /\ b.m.known /\ b.m.status = "streaming" /\ b.r.message = "streaming"
        /\ b.m.timer = NoTimer /\ b.m.execution = "none" /\ b.m.finishing = None
    BY <1>0, <2>1, BlankIs DEF Stands, Whole
  <2>3. ~Done(b.r) /\ ~Done(n.r) /\ n.r # NoRow
    BY <2>1 DEF Done, NoRow
  <2>4. Whole(n.m, n.r)
    BY <1>0, <2>1, <2>2, <2>3 DEF Whole, Core, Again
  <2>5. Stands(n.m, n.r)
    BY <2>1, <2>2, <2>3 DEF Stands, Core, Unset, Early, Again
  <2> QED BY <1>0, <2>2, <2>3, <2>4, <2>5 DEF Ended, Stays
<1>5. CASE Recovers(b, n)
  <2>1. PICK o \in Canonical \cup {"recovered"} :
          /\ n.r.state = "terminal" /\ n.r.outcome = o /\ n.r.message = StatusOf(o)
          /\ b.m.known =>
               /\ n.m.known /\ n.m.status = StatusOf(o) /\ n.m.timer = b.m.timer
               /\ n.m.configuring = b.m.configuring /\ n.m.execution = b.m.execution
               /\ n.m.finishing = b.m.finishing
          /\ ~b.m.known => n.m = [b.m EXCEPT !.recovered = TRUE]
    BY <1>5 DEF Recovers
  <2>2. Unfinished(b.r) /\ b.m.execution # "running"
    BY <1>5 DEF Recovers
  <2>3. o # None /\ StatusOf(o) \in Final
    BY TurnAssumption, FinalIs DEF Endings, None
  <2>4. n.r # NoRow /\ b.r # NoRow /\ ~Done(b.r) /\ Done(n.r)
    BY <2>1, <2>2 DEF NoRow, Unfinished, Done
  <2>5. Ended(n.m, n.r)
    <3>1. CASE b.m.known
      <4>1. Whole(n.m, n.r)
        BY <1>0, <2>1, <2>3, <2>4, <3>1, FinalIs DEF Whole, Again, Done
      <4>2. Stands(n.m, n.r)
        BY <1>0, <2>1, <2>2, <3>1 DEF Stands, Early
      <4> QED BY <4>1, <4>2 DEF Ended
    <3>2. CASE ~b.m.known
      <4>1. Blank(n.m)
        <5>1. Blank(b.m) /\ n.m = [b.m EXCEPT !.recovered = TRUE]
          BY <1>0, <2>1, <3>2 DEF Whole
        <5> QED BY <5>1 DEF Blank, Unknown
      <4>2. Whole(n.m, n.r)
        <5>1. ~n.m.known /\ ~Again(n.m)
          BY <4>1, BlankIs DEF Again
        <5> QED BY <2>1, <2>3, <2>4, <4>1, <5>1, FinalIs DEF Whole, Done
      <4> QED BY <4>1, <4>2, BlankEnded
    <3> QED BY <3>1, <3>2
  <2> QED BY <2>4, <2>5 DEF Stays
<1>6. CASE \E F \in SUBSET (1..5) : (MaxFaults = 0 => F = {}) /\ Handled(b, n, F)
  <2>1. PICK F : Handled(b, n, F)
    BY <1>6
  <2>2. Goes(b, n)
    BY <1>0, <2>1, HandledGoes
  <2> QED BY <2>2 DEF Goes, Ended, Whole
<1> QED BY <1>1, <1>2, <1>3, <1>4, <1>5, <1>6 DEF Moved

\* A turn that begins has not ended.
LEMMA BeginsEnded ==
  ASSUME NEW b \in StateType, NEW n \in StateType, Ended(b.m, b.r), Begins(b, n)
  PROVE  Ended(n.m, n.r) /\ b.r = NoRow /\ Unfinished(n.r) /\ n.r.outcome = None
<1>1. b.r = NoRow /\ Blank(b.m)
  BY DEF Ended, Whole, Begins
<1>2. /\ n.m.known /\ n.m.status = "streaming" /\ n.m.timer = NoTimer
      /\ n.m.execution = "none" /\ n.m.finishing = None
      /\ n.r.state \in {"configuring", "prepared"} /\ n.m.configuring = (n.r.state = "configuring")
      /\ n.r.outcome = None /\ n.r.message = "streaming"
  BY <1>1, BlankIs DEF Begins
<1>3. n.r # NoRow /\ ~Again(n.m) /\ ~Done(n.r)
  BY <1>2 DEF NoRow, Again, Done
<1>4. Whole(n.m, n.r)
  BY <1>2, <1>3 DEF Whole
<1>5. Stands(n.m, n.r)
  BY <1>2, <1>3 DEF Stands
<1> QED BY <1>1, <1>2, <1>4, <1>5 DEF Ended, Unfinished

EndedInv == TypeOK /\ \A t \in Turns : Ended(mem[t], row[t])

\* What TurnPromise sees of a row.
Phase(r) == IF r = NoRow THEN "unknown" ELSE IF Unfinished(r) THEN "open" ELSE "over"

\* The phase of a turn in the promise, in terms of its row.
LEMMA PhaseIs ==
  ASSUME NEW m, NEW r \in RowType, Ended(m, r)
  PROVE  /\ Phase(r) = "over" <=> Done(r)
         /\ ~Done(r) => r.outcome = None
         /\ Done(r) => r.outcome \in Endings
<1>1. /\ r.state = "absent" => r = NoRow
      /\ Done(r) <=> r.outcome # None
      /\ r.outcome \in Endings \cup {None}
      /\ r.state \in {"absent", "configuring", "prepared", "executing", "terminal"}
  BY DEF Ended, Whole, RowType
<1>2. Phase(r) = "over" <=> Done(r)
  BY <1>1 DEF Phase, Unfinished, Done, NoRow
<1> QED BY <1>1, <1>2

\* A step that moves the turns ends some of those that are open, or none.
LEMMA MovedPhase ==
  ASSUME NEW b \in StateType, NEW n \in StateType, Ended(b.m, b.r), Ended(n.m, n.r),
         Stays(b.r, n.r), b.r = NoRow <=> n.r = NoRow
  PROVE  \/ Phase(n.r) = Phase(b.r) /\ n.r.outcome = b.r.outcome
         \/ Phase(b.r) = "open" /\ Phase(n.r) = "over" /\ n.r.outcome \in Endings
<1>1. b.r \in RowType /\ n.r \in RowType
  BY NumbersOf
<1>2. /\ Phase(b.r) = "over" <=> Done(b.r)
      /\ Phase(n.r) = "over" <=> Done(n.r)
      /\ ~Done(b.r) => b.r.outcome = None
      /\ ~Done(n.r) => n.r.outcome = None
      /\ Done(n.r) => n.r.outcome \in Endings
  BY <1>1, PhaseIs
<1>3. /\ Phase(b.r) \in {"unknown", "open", "over"} /\ Phase(n.r) \in {"unknown", "open", "over"}
      /\ Phase(b.r) = "unknown" <=> b.r = NoRow
      /\ Phase(n.r) = "unknown" <=> n.r = NoRow
  BY DEF Phase
<1> QED BY <1>2, <1>3 DEF Stays

\* The invariant holds at the start.
LEMMA EndedInit == Init => EndedInv
<1> SUFFICES ASSUME Init PROVE EndedInv
  OBVIOUS
<1>1. TypeOK
  BY TurnInit DEF TurnInv
<1>2. Blank(Unknown)
  BY DEF Blank
<1>3. ~Unknown.known /\ ~Again(Unknown) /\ NoRow.outcome = None /\ ~Done(NoRow)
  BY <1>2, BlankIs DEF Again, NoRow, Done
<1>4. Whole(Unknown, NoRow)
  BY <1>2, <1>3 DEF Whole
<1>5. Ended(Unknown, NoRow)
  BY <1>2, <1>4, BlankEnded
<1> QED BY <1>1, <1>5 DEF Init, EndedInv

\* Every step keeps it, and maps to a step of the promise or to a stutter.
LEMMA EndedStep ==
  ASSUME "parked" \notin Outcomes, Timeouts = FALSE, WakeRecovers = FALSE,
         EndedInv, TypeOK', [Next]_vars
  PROVE  /\ EndedInv'
         /\ \/ \E t \in Turns : /\ row[t] = NoRow /\ ~Busy(SessionOf[t])
                                /\ Unfinished(row'[t]) /\ row'[t].outcome = row[t].outcome
                                /\ \A u \in Turns \ {t} : row'[u] = row[u]
            \/ \A t \in Turns :
                 \/ Phase(row'[t]) = Phase(row[t]) /\ row'[t].outcome = row[t].outcome
                 \/ Phase(row[t]) = "open" /\ Phase(row'[t]) = "over" /\ row'[t].outcome \in Endings
<1>1. ASSUME NEW t \in Turns
      PROVE  /\ Here(t) \in StateType /\ Here(t).m = mem[t] /\ Here(t).r = row[t] /\ ~Here(t).threw
             /\ Here(t)' \in StateType /\ Here(t)'.m = mem'[t] /\ Here(t)'.r = row'[t]
             /\ Ended(Here(t).m, Here(t).r)
  BY HereIs, HereNext DEF EndedInv
<1>2. ASSUME NEW t \in Turns, Moved(Here(t), Here(t)')
      PROVE  /\ Ended(mem'[t], row'[t])
             /\ \/ Phase(row'[t]) = Phase(row[t]) /\ row'[t].outcome = row[t].outcome
                \/ Phase(row[t]) = "open" /\ Phase(row'[t]) = "over" /\ row'[t].outcome \in Endings
  <2> DEFINE b == Here(t)
             n == Here(t)'
  <2>1. b \in StateType /\ n \in StateType /\ ~b.threw /\ Ended(b.m, b.r) /\ Moved(b, n)
    BY <1>1, <1>2
  <2>2. b.r = row[t] /\ n.m = mem'[t] /\ n.r = row'[t]
    BY <1>1
  <2> HIDE DEF b, n
  <2>3. Ended(n.m, n.r) /\ Stays(b.r, n.r) /\ (b.r = NoRow <=> n.r = NoRow)
    BY <2>1, MovedEnded
  <2>4. \/ Phase(n.r) = Phase(b.r) /\ n.r.outcome = b.r.outcome
        \/ Phase(b.r) = "open" /\ Phase(n.r) = "over" /\ n.r.outcome \in Endings
    BY <2>1, <2>3, MovedPhase
  <2> QED BY <2>2, <2>3, <2>4
<1>3. ASSUME NEW t \in Turns, Begins(Here(t), Here(t)')
      PROVE  Ended(mem'[t], row'[t]) /\ row[t] = NoRow /\ Unfinished(row'[t]) /\ row'[t].outcome = row[t].outcome
  <2> DEFINE b == Here(t)
             n == Here(t)'
  <2>1. b \in StateType /\ n \in StateType /\ Ended(b.m, b.r) /\ Begins(b, n)
    BY <1>1, <1>3
  <2>2. b.r = row[t] /\ n.m = mem'[t] /\ n.r = row'[t]
    BY <1>1
  <2> HIDE DEF b, n
  <2>3. Ended(n.m, n.r) /\ b.r = NoRow /\ Unfinished(n.r) /\ n.r.outcome = None
    BY <2>1, BeginsEnded
  <2> QED BY <2>2, <2>3 DEF NoRow
<1>4. CASE AllMove
  BY <1>2, <1>4 DEF AllMove, EndedInv
<1>5. CASE BeginsOne
  <2>1. PICK t \in Turns : /\ Begins(Here(t), Here(t)') /\ ~Busy(SessionOf[t])
                           /\ \A u \in Turns \ {t} : Still(Here(u), Here(u)')
    BY <1>5 DEF BeginsOne
  <2>2. \A u \in Turns \ {t} : mem'[u] = mem[u] /\ row'[u] = row[u]
    BY <1>1, <2>1 DEF Still
  <2>3. Ended(mem'[t], row'[t]) /\ row[t] = NoRow /\ Unfinished(row'[t]) /\ row'[t].outcome = row[t].outcome
    BY <1>3, <2>1
  <2>4. EndedInv'
    BY <2>2, <2>3 DEF EndedInv
  <2> QED BY <2>1, <2>2, <2>3, <2>4
<1> QED BY <1>4, <1>5, EachTurn DEF EndedInv

\* It holds in every state of the program.
LEMMA EndedAlways ==
  ASSUME "parked" \notin Outcomes, Timeouts = FALSE, WakeRecovers = FALSE
  PROVE  Spec => []EndedInv
<1>1. EndedInv /\ TypeOK' /\ [Next]_vars => EndedInv'
  BY EndedStep
<1> QED BY <1>1, EndedInit, Typing, PTL DEF Spec

\* The step of TurnLifecycle, as TurnPromise sees it.
LEMMA PromiseStep ==
  ASSUME "parked" \notin Outcomes, Timeouts = FALSE, WakeRecovers = FALSE,
         EndedInv, TypeOK', [Next]_vars
  PROVE  [Promise!Next]_(Promise!vars)
<1> DEFINE phase == [t \in Turns |-> IF row[t] = NoRow THEN "unknown" ELSE IF Unfinished(row[t]) THEN "open" ELSE "over"]
           ending == [t \in Turns |-> row[t].outcome]
<1>1. /\ phase = [t \in Turns |-> Phase(row[t])] /\ ending = [t \in Turns |-> row[t].outcome]
      /\ phase' = [t \in Turns |-> Phase(row'[t])] /\ ending' = [t \in Turns |-> row'[t].outcome]
  BY DEF Phase
<1>2. ASSUME NEW t \in Turns, row[t] = NoRow, ~Busy(SessionOf[t]), Unfinished(row'[t]),
             row'[t].outcome = row[t].outcome, \A u \in Turns \ {t} : row'[u] = row[u]
      PROVE  Promise!Begin(t)
  <2>1. phase[t] = "unknown" /\ phase'[t] = "open"
    BY <1>1, <1>2 DEF Phase, Unfinished, NoRow
  <2>2. \A u \in Turns : SessionOf[u] = SessionOf[t] => phase[u] # "open"
    BY <1>1, <1>2 DEF Busy, Phase
  <2>3. phase' = [phase EXCEPT ![t] = "open"] /\ ending' = ending
    BY <1>1, <1>2, <2>1
  <2> QED BY <2>1, <2>2, <2>3 DEF Promise!Begin
<1>3. ASSUME \A t \in Turns :
               \/ Phase(row'[t]) = Phase(row[t]) /\ row'[t].outcome = row[t].outcome
               \/ Phase(row[t]) = "open" /\ Phase(row'[t]) = "over" /\ row'[t].outcome \in Endings
      PROVE  \E S \in SUBSET Turns : Promise!End(S)
  <2> DEFINE S == {t \in Turns : Phase(row[t]) = "open" /\ Phase(row'[t]) = "over" /\ row'[t].outcome \in Endings}
             e == [t \in S |-> row'[t].outcome]
  <2>1. \A t \in S : phase[t] = "open"
    BY <1>1
  <2>2. \A t \in Turns \ S : Phase(row'[t]) = Phase(row[t]) /\ row'[t].outcome = row[t].outcome
    BY <1>3
  <2>3. phase' = [t \in Turns |-> IF t \in S THEN "over" ELSE phase[t]]
    BY <1>1, <2>2
  <2>4. e \in [S -> Endings] /\ ending' = [t \in Turns |-> IF t \in S THEN e[t] ELSE ending[t]]
    BY <1>1, <2>2
  <2>5. S \in SUBSET Turns
    OBVIOUS
  <2> HIDE DEF S, e
  <2> QED BY <2>1, <2>3, <2>4, <2>5 DEF Promise!End
<1>4. Promise!Next
  BY <1>2, <1>3, EndedStep DEF Promise!Next
<1> QED BY <1>4

\* In a program that parks no turn, calls no timeout and has no wake that recovers,
\* whatever writes fail, whatever is replayed and whenever the process dies, a turn is
\* begun only while its session has none open, ends once, and its outcome stands.
THEOREM PromiseIsKept ==
  ASSUME "parked" \notin Outcomes, Timeouts = FALSE, WakeRecovers = FALSE
  PROVE  Spec => KeepsPromise
<1>1. Init => Promise!Init
  BY DEF Init, Promise!Init, NoRow, None, Promise!NoEnding
<1>2. EndedInv /\ TypeOK' /\ [Next]_vars => [Promise!Next]_(Promise!vars)
  BY PromiseStep
<1> QED BY <1>1, <1>2, EndedAlways, Typing, PTL DEF Spec, KeepsPromise, Promise!Spec

-----------------------------------------------------------------------------
(* If no write fails, what is told of a turn is what is stored, and a      *)
(* cancel stands.                                                          *)

\* The row is terminal and the message final at once, as memory has it; a turn that the
\* coordinator tells as ended has that outcome; a window is open only on a turn that is
\* not over, and one that ended it under a running source leaves it cancelled or failed.
Even(m, r) ==
  /\ m.known \/ Blank(m)
  /\ m.known => m.status = r.message /\ r # NoRow /\ r.version <= m.version
  /\ r # NoRow => r.message \in Final \cup {"streaming"}
  /\ Done(r) <=> Over(r.message)
  /\ Done(r) => r.outcome \in Endings /\ r.message = StatusOf(r.outcome)
  /\ m.terminal # None => Done(r) /\ r.outcome = m.terminal
  /\ Done(r) /\ m.execution = "running" => m.terminal # None /\ m.status \in {"cancelled", "failed"}
  /\ m.finishing # None => ~Over(m.status)
  /\ Again(m) => Over(r.message)
  /\ m.execution = "running" => r.state \in {"executing", "terminal"}
  /\ m.configuring => r.state \in {"configuring", "terminal"} /\ m.finishing = None

\* What CancelStands says of one turn.
Heeds(m, n) == n.known =>
  /\ m.status = "cancelled" => n.status = "cancelled"
  /\ m.finishing = "cancelled" => n.finishing = "cancelled" \/ n.status = "cancelled"

\* The turn has ended with outcome o, in memory and in the row.
Shut(m, r, o) ==
  /\ m.known /\ Done(r) /\ r.outcome = o /\ o \in Endings /\ r.message = StatusOf(o)
  /\ m.status = r.message /\ Over(m.status) /\ r.version <= m.version

\* A turn that is shut is even.
LEMMA ShutEven ==
  ASSUME NEW m, NEW r, NEW o, Shut(m, r, o), m.terminal \in {None, o}, m.finishing = None,
         m.execution = "running" => m.terminal = o /\ m.status \in {"cancelled", "failed"}
  PROVE  Even(m, r)
<1>1. r # NoRow /\ r.message \in Final /\ o # None
  BY FinalIs DEF Shut, Done, NoRow, Endings, None
<1> QED BY <1>1 DEF Shut, Even, Done

\* A turn that has not ended is live in memory, row and message.
LEMMA LiveIs ==
  ASSUME NEW s \in StateType, Even(s.m, s.r), s.m.known, ~Done(s.r) \/ ~Over(s.m.status)
  PROVE  /\ ~Done(s.r) /\ s.r.message = "streaming" /\ s.m.status = "streaming" /\ ~Over(s.m.status)
         /\ s.m.terminal = None /\ ~Again(s.m) /\ s.r # NoRow
         /\ Takes(s.r, s.m.version + 1) /\ s.r.version <= s.m.version
<1>1. s.r.version <= s.m.version /\ s.m.version \in Nat /\ s.r.version \in Nat
  BY NumbersOf DEF Even
<1>2. ~Over(s.r.message) /\ s.r.message \in Final \cup {"streaming"} /\ s.m.status = s.r.message /\ ~Done(s.r)
  BY DEF Even
<1>3. s.r.message = "streaming"
  BY <1>2, FinalIs
<1> QED BY <1>1, <1>2, <1>3 DEF Even, Takes

\* A write leaves the message streaming or as it was told.
LEMMA WroteTo ==
  ASSUME NEW s \in StateType, s.m.known, NEW status, s.r.message = "streaming" \/ s.r.message = status,
         NEW v, NEW ok, NEW c, Wrote(s, c, status, v, ok)
  PROVE  /\ c \in StateType /\ c.m.known /\ c.m.status = status
         /\ c.r.message = "streaming" \/ c.r.message = status
  BY DEF Wrote, Written

\* The write of the outcome shuts the turn.
LEMMA ClosesShuts ==
  ASSUME NEW c \in StateType, c.m.known, NEW o \in Endings, c.m.status = StatusOf(o), Over(c.m.status),
         c.r.message = "streaming" \/ c.r.message = c.m.status,
         NEW ok, NEW p, Closes(c, p, o, ok)
  PROVE  p \in StateType /\ (ok => Shut(p.m, p.r, o) /\ p.m.status = c.m.status)
<1>0. p \in StateType
  BY DEF Closes
<1>1. c.m.version \in Nat
  BY NumbersOf
<1> SUFFICES ASSUME ok PROVE Shut(p.m, p.r, o) /\ p.m.status = c.m.status
  BY <1>0
<1>2. /\ Core(c.m, p.m)
      /\ p.r.state = "terminal" /\ p.r.version = c.m.version /\ p.r.outcome = o
      /\ p.r.message = IF c.r.message = "streaming" THEN StatusOf(o) ELSE c.r.message
  BY DEF Closes
<1>3. p.r.message = c.m.status
  BY <1>2
<1> QED BY <1>1, <1>2, <1>3 DEF Shut, Core, Done

\* The end of a stop shuts it.
LEMMA FinalizeShuts ==
  ASSUME NEW s \in StateType, Even(s.m, s.r), s.m.known, ~Over(s.m.status), ~s.threw,
         NEW o \in {"cancelled", "timed-out"}, NEW ok1, NEW ok2, NEW p, p = Finalize(s, o, ok1, ok2)
  PROVE  /\ p \in StateType /\ p.m.finishing = None
         /\ p.m.configuring = s.m.configuring /\ p.m.execution = s.m.execution
         /\ ok2 => /\ Shut(p.m, p.r, o) /\ p.m.terminal = o /\ ~p.threw
                   /\ p.m.status = StatusOf(o) /\ p.m.status \in {"cancelled", "failed"}
<1>1. /\ p \in StateType /\ p.m.finishing = None
      /\ p.m.configuring = s.m.configuring /\ p.m.execution = s.m.execution
  BY FinalizeDoes
<1>2. PICK c \in StateType : /\ Wrote(s, c, StatusOf(o), s.m.version + 1, ok1)
                             /\ Closes(c, p, o, ok2)
                             /\ ok2 => ~p.threw /\ p.m.terminal = o
  BY FinalizeDoes
<1>3. /\ o \in Endings /\ Over(StatusOf(o)) /\ StatusOf(o) \in {"cancelled", "failed"}
  BY DEF Endings, StatusOf, Over
<1>4. s.r.message = "streaming"
  BY LiveIs
<1>5. c.m.known /\ c.m.status = StatusOf(o) /\ (c.r.message = "streaming" \/ c.r.message = c.m.status)
  BY <1>2, <1>4, WroteTo
<1>6. ok2 => Shut(p.m, p.r, o) /\ p.m.status = StatusOf(o)
  BY <1>2, <1>3, <1>5, ClosesShuts
<1> QED BY <1>1, <1>2, <1>3, <1>6

\* The end of a source that throws shuts it.
LEMMA RejectedShuts ==
  ASSUME NEW s \in StateType, s.m.known, s.m.finishing = None,
         s.r.message = "streaming" \/ s.r.message = RejectedAs(s.m),
         NEW ok1, NEW ok2, NEW p, p = Rejected(s, ok1, ok2)
  PROVE  /\ p \in StateType /\ p.m.finishing = None
         /\ p.m.configuring = s.m.configuring /\ p.m.terminal = RejectedAs(s.m)
         /\ ok2 => Shut(p.m, p.r, RejectedAs(s.m)) /\ p.m.status = RejectedAs(s.m)
<1>1. PICK c \in StateType : /\ Wrote(s, c, RejectedAs(s.m), s.m.version, ok1)
                             /\ c.m.terminal = RejectedAs(s.m) /\ c.m.configuring = s.m.configuring
                             /\ c.m.finishing = None
                             /\ Closes(c, p, RejectedAs(s.m), ok2) /\ p.m = c.m
  BY RejectedDoes
<1>2. /\ RejectedAs(s.m) \in Endings /\ Over(RejectedAs(s.m)) /\ RejectedAs(s.m) = StatusOf(RejectedAs(s.m))
  BY DEF RejectedAs, Endings, Over, StatusOf
<1>3. ok2 => Shut(p.m, p.r, RejectedAs(s.m)) /\ p.m.status = RejectedAs(s.m)
  <2> DEFINE o == RejectedAs(s.m)
  <2>1. o \in Endings /\ o = StatusOf(o) /\ Over(o) /\ Closes(c, p, o, ok2)
    BY <1>1, <1>2
  <2>2. c.m.known /\ c.m.status = o /\ (c.r.message = "streaming" \/ c.r.message = o)
    BY <1>1, WroteTo
  <2> HIDE DEF o
  <2>3. ok2 => Shut(p.m, p.r, o) /\ p.m.status = o
    BY <2>1, <2>2, ClosesShuts
  <2> QED BY <2>3 DEF o
<1>4. p \in StateType
  BY <1>1 DEF Closes
<1> QED BY <1>1, <1>3, <1>4

\* The handler settles a turn that it has shut.
LEMMA SettledShut ==
  ASSUME NEW x \in StateType, NEW n \in StateType, NEW o, Shut(x.m, x.r, o), x.m.terminal \in {None, o},
         x.m.finishing = None, Settles(x, n)
  PROVE  Even(n.m, n.r) /\ n.m.status = x.m.status
<1>1. Core(x.m, n.m) /\ Executed(x.m, n.m, "settled") /\ n.r = x.r
  BY DEF Settles
<1>2. Shut(n.m, n.r, o) /\ n.m.terminal \in {None, o} /\ n.m.finishing = None /\ n.m.execution # "running"
  BY <1>1 DEF Shut, Core, Executed
<1> QED BY <1>1, <1>2, ShutEven DEF Core

\* A source that returns on a turn that has not ended ends it.
LEMMA ReturnShuts ==
  ASSUME NEW b \in StateType, Even(b.m, b.r), b.m.known, ~b.threw, ~Done(b.r),
         NEW o \in Endings \ {"parked"}, NEW ok1, NEW ok2, NEW ok3,
         NEW a, Reported(b, a, o, ok1), NEW f, f = Fulfilled(a, o, ok2, ok3)
  PROVE  /\ f \in StateType /\ f.m.finishing = None
         /\ ok1 /\ ok3 => /\ ~f.threw /\ f.m.terminal \in Endings /\ Shut(f.m, f.r, f.m.terminal)
                          /\ b.m.finishing = "cancelled" => f.m.status = "cancelled"
<1>1. /\ ~Over(b.m.status) /\ b.m.status = "streaming" /\ b.r.message = "streaming" /\ b.m.terminal = None
      /\ Takes(b.r, b.m.version + 1) /\ b.r.version <= b.m.version
  BY LiveIs
<1>2. a \in StateType /\ Mode(b.m, a.m) /\ ~a.threw
  BY DEF Reported
<1>3. CASE b.m.finishing # None
  <2>1. Core(b.m, a.m) /\ a.r = b.r
    BY <1>3 DEF Reported
  <2>2. /\ a.m.finishing = b.m.finishing /\ a.m.known /\ ~Over(a.m.status) /\ Even(a.m, a.r)
    BY <1>1, <1>2, <2>1 DEF Core, Mode, Even, Again
  <2>3. f = Finalize(a, a.m.finishing, ok2, ok3) /\ a.m.finishing \in {"cancelled", "timed-out"}
    BY <1>2, <1>3, <2>2, FinishingIs DEF Fulfilled
  <2>4. /\ f \in StateType /\ f.m.finishing = None
        /\ ok3 => /\ Shut(f.m, f.r, a.m.finishing) /\ f.m.terminal = a.m.finishing /\ ~f.threw
                  /\ f.m.status = StatusOf(a.m.finishing)
    <3> DEFINE w == a.m.finishing
    <3>1. w \in {"cancelled", "timed-out"} /\ f = Finalize(a, w, ok2, ok3)
      BY <2>3
    <3> HIDE DEF w
    <3>2. /\ f \in StateType /\ f.m.finishing = None
          /\ ok3 => /\ Shut(f.m, f.r, w) /\ f.m.terminal = w /\ ~f.threw
                    /\ f.m.status = StatusOf(w)
      BY <1>2, <2>2, <3>1, FinalizeShuts
    <3> QED BY <3>2 DEF w
  <2>5. "cancelled" \in Endings /\ "timed-out" \in Endings /\ StatusOf("cancelled") = "cancelled"
    BY FinalIs DEF Endings
  <2> QED BY <2>2, <2>3, <2>4, <2>5
<1>4. CASE b.m.finishing = None /\ o # "recovered"
  <2>1. Wrote(b, a, StatusOf(o), b.m.version + 1, ok1)
    BY <1>1, <1>4 DEF Reported
  <2>2. Over(StatusOf(o)) /\ (StatusOf(o) = "completed" => o = "completed")
    BY FinalIs DEF StatusOf
  <2>3. /\ a.m.finishing = None /\ a.m.terminal = None /\ a.m.known /\ a.m.status = StatusOf(o)
        /\ a.r.message = "streaming" \/ a.r.message = a.m.status
    BY <1>1, <1>2, <1>4, <2>1, WroteTo DEF Mode
  <2>4. AcceptedAs(a.m, o) = o
    BY <2>2, <2>3 DEF AcceptedAs
  <2>5. PICK c \in StateType :
          /\ c.threw = a.threw /\ c.m.terminal = AcceptedAs(a.m, o) /\ c.m.finishing = None
          /\ Core(a.m, c.m) /\ c.r = a.r
          /\ Closes(c, f, AcceptedAs(a.m, o), ok3) /\ f.m = c.m
          /\ IF ok3 THEN f.threw = c.threw ELSE f.threw
    BY <1>2, <2>2, <2>3, FulfilledDoes
  <2>6. c.m.known /\ c.m.status = StatusOf(o) /\ (c.r.message = "streaming" \/ c.r.message = c.m.status)
    BY <2>3, <2>5 DEF Core
  <2>7. Closes(c, f, o, ok3) /\ Over(c.m.status)
    BY <2>2, <2>4, <2>5, <2>6
  <2>8. f \in StateType /\ (ok3 => Shut(f.m, f.r, o))
    BY <2>6, <2>7, ClosesShuts
  <2> QED BY <1>2, <1>4, <2>4, <2>5, <2>8 DEF None
<1>5. CASE b.m.finishing = None /\ o = "recovered"
  <2>1. Core(b.m, a.m) /\ a.r = b.r
    BY <1>5 DEF Reported
  <2>2. /\ a.m.finishing = None /\ a.m.terminal = None /\ a.m.known /\ ~Over(a.m.status)
        /\ a.r.message = "streaming"
    BY <1>1, <1>2, <1>5, <2>1 DEF Mode, Core
  <2>3. AcceptedAs(a.m, o) = o /\ StatusOf(o) = "failed" /\ Over("failed")
    BY <1>5, <2>2 DEF AcceptedAs, StatusOf, Over
  <2>4. PICK c \in StateType :
          /\ c.threw = a.threw /\ c.m.terminal = AcceptedAs(a.m, o) /\ c.m.finishing = None
          /\ Wrote(a, c, StatusOf(o), a.m.version, ok2)
          /\ Closes(c, f, AcceptedAs(a.m, o), ok3) /\ f.m = c.m
          /\ IF ok3 THEN f.threw = c.threw ELSE f.threw
    BY <1>2, <2>2, FulfilledDoes
  <2>5. c.m.known /\ c.m.status = StatusOf(o) /\ (c.r.message = "streaming" \/ c.r.message = c.m.status)
    BY <1>2, <2>2, <2>4, WroteTo
  <2>6. Closes(c, f, o, ok3) /\ Over(c.m.status)
    BY <2>3, <2>4, <2>5
  <2>7. f \in StateType /\ (ok3 => Shut(f.m, f.r, o))
    BY <2>5, <2>6, ClosesShuts
  <2> QED BY <1>2, <1>5, <2>3, <2>4, <2>7 DEF None
<1> QED BY <1>3, <1>4, <1>5

\* A handler whose writes succeed keeps a turn even, and heeds a cancel.
LEMMA HandledEven ==
  ASSUME "parked" \notin Outcomes, NEW b \in StateType, NEW n \in StateType, ~b.threw,
         Even(b.m, b.r), Handled(b, n, {})
  PROVE  Even(n.m, n.r) /\ Heeds(b.m, n.m)
<1>0. /\ b.m.configuring \/ b.m.execution # "none" \/ b.m.finishing # None \/ b.m.timer # NoTimer => b.m.known
      /\ b.m.known /\ ~Done(b.r) =>
           /\ b.r.message = "streaming" /\ b.m.status = "streaming" /\ ~Over(b.m.status)
           /\ b.m.terminal = None /\ ~Again(b.m) /\ b.r # NoRow
           /\ Takes(b.r, b.m.version + 1) /\ b.r.version <= b.m.version
      /\ b.m.known /\ Done(b.r) =>
           /\ Over(b.m.status) /\ b.m.finishing = None /\ b.m.status = b.r.message
           /\ \A v : ~Takes(b.r, v)
      /\ Heeds(b.m, b.m)
  BY BlankIs, LiveIs DEF Even, Takes, Heeds, Over
<1>1. CASE ConfigurationEnds(b, n, {})
  <2>1. PICK c \in StateType :
          /\ IF Over(b.m.status) THEN c = b ELSE Wrote(b, c, "failed", b.m.version + 1, TRUE)
          /\ Mode(b.m, c.m) /\ Core(c.m, n.m) /\ Unset(c.m, n.m)
          /\ IF c.r.state = "configuring" THEN Closes(c, n, "failed", TRUE) ELSE n.r = c.r
    BY <1>1 DEF ConfigurationEnds
  <2>2. b.m.known /\ b.m.configuring /\ b.r.state \in {"configuring", "terminal"} /\ b.m.finishing = None
    BY <1>0, <1>1 DEF ConfigurationEnds, Even
  <2>3. CASE Done(b.r)
    <3>1. c = b /\ n.r = b.r /\ Core(b.m, n.m) /\ Unset(b.m, n.m)
      BY <1>0, <2>1, <2>2, <2>3 DEF Done
    <3>2. Even(n.m, n.r)
      BY <2>2, <3>1 DEF Even, Core, Unset, Again
    <3> QED BY <2>2, <3>1, <3>2 DEF Heeds, Core, None
  <2>4. CASE ~Done(b.r)
    <3>1. Wrote(b, c, "failed", b.m.version + 1, TRUE) /\ b.r.state = "configuring"
      BY <1>0, <2>1, <2>2, <2>4 DEF Done
    <3>2. /\ c.m.known /\ c.m.status = "failed" /\ c.r.message = "failed" /\ c.r.state = "configuring"
      BY <1>0, <2>2, <2>4, <3>1 DEF Wrote, Written
    <3>3. "failed" \in Endings /\ StatusOf("failed") = "failed" /\ Over("failed")
      BY FinalIs DEF Endings, Over
    <3>4. Closes(c, n, "failed", TRUE)
      BY <2>1, <3>2
    <3>5. Shut(n.m, n.r, "failed")
      <4>1. ASSUME NEW ok, Closes(c, n, "failed", ok) PROVE ok => Shut(n.m, n.r, "failed")
        BY <3>2, <3>3, <4>1, ClosesShuts
      <4> QED BY <3>4, <4>1, Zenon
    <3>6. n.m.terminal = None /\ n.m.finishing = None /\ n.m.execution # "running"
      BY <1>0, <2>1, <2>2, <2>4, <3>1 DEF Mode, Unset, Even
    <3>7. Even(n.m, n.r)
      BY <3>5, <3>6, ShutEven
    <3> QED BY <1>0, <2>2, <2>4, <3>7 DEF Heeds, None
  <2> QED BY <2>3, <2>4
<1>2. CASE Starts(b, n, {})
  <2>1. /\ b.m.known /\ b.r.state \in {"prepared", "executing"}
        /\ Core(b.m, n.m) /\ Executed(b.m, n.m, "running") /\ n.r.state = "executing"
        /\ n.r.version = b.m.version /\ n.r.outcome = b.r.outcome /\ n.r.message = b.r.message
    BY <1>2 DEF Starts
  <2>2. ~Done(b.r) /\ ~Done(n.r) /\ n.r # NoRow /\ b.m.version \in Nat
    BY <2>1, NumbersOf DEF Done, NoRow
  <2>3. /\ b.m.terminal = None /\ b.m.status = "streaming" /\ b.r.message = "streaming" /\ ~Again(b.m)
        /\ ~Over("streaming")
    BY <1>0, <2>1, <2>2
  <2>4. ~b.m.configuring
    BY <2>1 DEF Even
  <2>5. Even(n.m, n.r)
    <3>1. n.m.known /\ n.m.status = n.r.message /\ n.r.version <= n.m.version /\ n.r.message = "streaming"
      BY <2>1, <2>2, <2>3 DEF Core
    <3>2. n.m.terminal = None /\ ~n.m.configuring /\ ~Again(n.m)
      BY <2>1, <2>3, <2>4 DEF Executed, Core, Again
    <3> QED BY <2>1, <2>2, <2>3, <3>1, <3>2 DEF Even
  <2> QED BY <2>1, <2>3, <2>5 DEF Heeds, Executed, Core
<1>3. CASE Tells(b, n, {})
  <2>1. b.m.known /\ b.m.execution = "running" /\ ~Over(b.m.status) /\ Mode(b.m, n.m)
    BY <1>0, <1>3 DEF Tells
  <2>2. /\ ~Done(b.r) /\ b.r.message = "streaming" /\ b.m.status = "streaming" /\ ~Over("streaming")
        /\ b.m.terminal = None /\ ~Again(b.m) /\ b.r # NoRow
        /\ Takes(b.r, b.m.version + 1) /\ b.r.version <= b.m.version
    BY <2>1, LiveIs
  <2>3. b.m.version \in Nat /\ b.r.version \in Nat
    BY NumbersOf
  <2>4. /\ n.m.known /\ n.m.status = "streaming" /\ n.r.message = "streaming" /\ ~Again(n.m)
        /\ n.r # NoRow /\ n.r.version <= n.m.version /\ n.r.state = b.r.state
    <3>1. CASE Core(b.m, n.m) /\ n.r = b.r
      BY <2>1, <2>2, <3>1 DEF Core, Again
    <3>2. CASE Scheduled(b, n, b.m.status)
      <4>1. ~Again(n.m)
        BY <2>2, <3>2 DEF Scheduled, Again, LiveTimer
      <4> QED BY <2>1, <2>2, <2>3, <3>2, <4>1 DEF Scheduled
    <3>3. CASE Wrote(b, n, b.m.status, b.m.version + 1, TRUE)
      <4>1. /\ n.m.known /\ n.m.status = "streaming" /\ n.r.message = "streaming" /\ n.m.timer = NoTimer
            /\ n.r.version = b.m.version + 1 /\ n.m.version = b.m.version + 1 /\ n.r.state = b.r.state
        BY <2>1, <2>2, <3>3 DEF Wrote, Written
      <4> QED BY <2>3, <4>1 DEF Again, NoRow, None
    <3> QED BY <1>3, <3>1, <3>2, <3>3 DEF Tells
  <2>5. Even(n.m, n.r)
    BY <2>1, <2>2, <2>4 DEF Even, Mode, Done
  <2> QED BY <2>1, <2>2, <2>4, <2>5 DEF Heeds, Mode
<1>4. CASE Returns(b, n, {})
  <2>1. PICK o \in Outcomes, a \in StateType, f \in StateType, x \in StateType :
          /\ Reported(b, a, o, TRUE)
          /\ f = Fulfilled(a, o, TRUE, TRUE)
          /\ IF f.threw THEN x = Rejected(f, TRUE, TRUE) ELSE x = f
          /\ Settles(x, n)
    BY <1>4 DEF Returns
  <2>2. b.m.known /\ b.m.execution = "running" /\ o \in Endings \ {"parked"}
    BY <1>0, <1>4, TurnAssumption DEF Returns
  <2>3. CASE Done(b.r)
    <3>1. Over(b.m.status) /\ b.m.finishing = None /\ b.m.terminal # None
      BY <1>0, <2>2, <2>3 DEF Even
    <3>2. Core(b.m, a.m) /\ a.r = b.r /\ Mode(b.m, a.m) /\ ~a.threw
      BY <2>1, <3>1 DEF Reported
    <3>3. a.m.finishing = None /\ Over(a.m.status) /\ a.m.terminal = b.m.terminal
      BY <3>1, <3>2 DEF Core, Mode
    <3>4. PICK c \in StateType :
            /\ c.threw = a.threw /\ c.m.terminal = AcceptedAs(a.m, o)
            /\ c.m.configuring = a.m.configuring /\ c.m.finishing = None
            /\ Core(a.m, c.m) /\ c.r = a.r /\ f = c
      <4>1. ASSUME NEW ok1, NEW ok2, f = Fulfilled(a, o, ok1, ok2)
            PROVE  \E c \in StateType :
                     /\ c.threw = a.threw /\ c.m.terminal = AcceptedAs(a.m, o)
                     /\ c.m.configuring = a.m.configuring /\ c.m.finishing = None
                     /\ Core(a.m, c.m) /\ c.r = a.r /\ f = c
        BY <2>2, <3>1, <3>3, <4>1, FulfilledDoes
      <4> QED BY <2>1, <4>1, Zenon
    <3>5. x = c /\ c.m.terminal = b.m.terminal
      BY <2>1, <3>1, <3>2, <3>3, <3>4 DEF AcceptedAs
    <3>6. Core(c.m, n.m) /\ Executed(c.m, n.m, "settled") /\ n.r = b.r
      BY <2>1, <3>2, <3>4, <3>5 DEF Settles
    <3>7. Core(b.m, n.m) /\ n.m.finishing = None /\ n.m.terminal = b.m.terminal
          /\ n.m.configuring = b.m.configuring /\ n.m.execution = "settled"
      BY <3>2, <3>4, <3>5, <3>6 DEF Core, Executed, Mode
    <3>8. Even(n.m, n.r)
      BY <2>2, <3>6, <3>7 DEF Even, Core, Again
    <3> QED BY <3>1, <3>7, <3>8 DEF Heeds, Core, None
  <2>4. CASE ~Done(b.r)
    <3>1. /\ ~f.threw /\ f.m.terminal \in Endings /\ Shut(f.m, f.r, f.m.terminal) /\ f.m.finishing = None
          /\ b.m.finishing = "cancelled" => f.m.status = "cancelled"
      <4>1. ASSUME NEW ok1, NEW ok2, NEW ok3, Reported(b, a, o, ok1), f = Fulfilled(a, o, ok2, ok3)
            PROVE  /\ f.m.finishing = None
                   /\ ok1 /\ ok3 =>
                        /\ ~f.threw /\ f.m.terminal \in Endings /\ Shut(f.m, f.r, f.m.terminal)
                        /\ b.m.finishing = "cancelled" => f.m.status = "cancelled"
        BY <2>2, <2>4, <4>1, ReturnShuts
      <4> QED BY <2>1, <4>1, Zenon
    <3>2. x = f
      BY <2>1, <3>1
    <3>3. Even(n.m, n.r) /\ n.m.status = f.m.status
      <4> DEFINE w == f.m.terminal
      <4>1. Shut(f.m, f.r, w) /\ f.m.terminal \in {None, w} /\ Settles(f, n)
        BY <2>1, <3>1, <3>2
      <4> HIDE DEF w
      <4> QED BY <3>1, <4>1, SettledShut
    <3> QED BY <1>0, <2>2, <2>4, <3>1, <3>3 DEF Heeds
  <2> QED BY <2>3, <2>4
<1>5. CASE Rejects(b, n, {})
  <2>1. PICK a \in StateType, x \in StateType :
          /\ Reported(b, a, "failed", TRUE) /\ x = Rejected(a, TRUE, TRUE) /\ Settles(x, n)
    BY <1>5 DEF Rejects
  <2>2. b.m.known /\ b.m.execution = "running"
    BY <1>0, <1>5 DEF Rejects
  <2>3. a.m.finishing = b.m.finishing /\ ~a.threw /\ Mode(b.m, a.m)
    BY <2>1 DEF Reported, Mode
  <2>4. CASE b.m.finishing # None
    <3>1. Core(b.m, a.m) /\ a.r = b.r /\ ~Over(b.m.status) /\ ~Done(b.r)
      BY <1>0, <2>1, <2>2, <2>4 DEF Reported
    <3>2. Even(a.m, a.r) /\ a.m.known /\ ~Over(a.m.status)
      BY <2>2, <2>3, <3>1 DEF Even, Core, Mode, Again
    <3> DEFINE w == a.m.finishing
    <3>3. x = Finalize(a, w, TRUE, TRUE)
      BY <2>1, <2>3, <2>4 DEF Rejected
    <3>6. w \in {"cancelled", "timed-out"} /\ w = b.m.finishing /\ a \in StateType
      BY <2>1, <2>3, <2>4, FinishingIs
    <3> HIDE DEF w
    <3>4. /\ x.m.finishing = None /\ Shut(x.m, x.r, w) /\ x.m.terminal = w /\ x.m.status = StatusOf(w)
      <4>1. ASSUME NEW ok1, NEW ok2, x = Finalize(a, w, ok1, ok2)
            PROVE  /\ x.m.finishing = None
                   /\ ok2 => Shut(x.m, x.r, w) /\ x.m.terminal = w /\ x.m.status = StatusOf(w)
        BY <2>3, <3>2, <3>6, <4>1, FinalizeShuts
      <4> QED BY <3>3, <4>1, Zenon
    <3>5. Even(n.m, n.r) /\ n.m.status = x.m.status
      BY <2>1, <3>4, SettledShut
    <3> QED BY <1>0, <2>2, <3>1, <3>6, <3>4, <3>5, FinalIs DEF Heeds
  <2>5. CASE b.m.finishing = None
    <3>1. /\ a.m.known /\ (a.r.message = "streaming" \/ a.r.message = RejectedAs(a.m))
          /\ b.m.status = "cancelled" => a.m.status = "cancelled"
      <4>1. CASE Done(b.r)
        <5>1. Over(b.m.status) /\ b.m.status \in {"cancelled", "failed"} /\ b.m.status = b.r.message
          BY <1>0, <2>2, <4>1 DEF Even
        <5>2. Core(b.m, a.m) /\ a.r = b.r
          BY <2>1, <2>5, <5>1 DEF Reported
        <5> QED BY <2>2, <5>1, <5>2 DEF Core, RejectedAs
      <4>2. CASE ~Done(b.r)
        <5>1. /\ b.r.message = "streaming" /\ b.m.status = "streaming" /\ ~Over(b.m.status)
          BY <1>0, <2>2, <4>2
        <5>2. Wrote(b, a, "failed", b.m.version + 1, TRUE)
          BY <2>1, <2>5, <5>1, FinalIs DEF Reported
        <5>3. a.m.known /\ a.m.status = "failed" /\ (a.r.message = "streaming" \/ a.r.message = "failed")
          BY <2>2, <5>1, <5>2 DEF Wrote, Written
        <5> QED BY <5>1, <5>3 DEF RejectedAs
      <4> QED BY <4>1, <4>2
    <3>2. /\ x.m.finishing = None /\ x.m.terminal = RejectedAs(a.m)
          /\ Shut(x.m, x.r, RejectedAs(a.m)) /\ x.m.status = RejectedAs(a.m)
      <4>1. ASSUME NEW ok1, NEW ok2, x = Rejected(a, ok1, ok2)
            PROVE  /\ x.m.finishing = None /\ x.m.terminal = RejectedAs(a.m)
                   /\ ok2 => Shut(x.m, x.r, RejectedAs(a.m)) /\ x.m.status = RejectedAs(a.m)
        BY <2>3, <2>5, <3>1, <4>1, RejectedShuts
      <4> QED BY <2>1, <4>1, Zenon
    <3>3. Even(n.m, n.r) /\ n.m.status = x.m.status
      <4> DEFINE w == RejectedAs(a.m)
      <4>1. Shut(x.m, x.r, w) /\ x.m.terminal \in {None, w}
        BY <3>2
      <4> HIDE DEF w
      <4> QED BY <2>1, <3>2, <4>1, SettledShut
    <3> QED BY <2>5, <3>1, <3>2, <3>3 DEF Heeds, RejectedAs, None
  <2> QED BY <2>4, <2>5
<1>6. CASE Stops(b, n, {})
  <2>1. PICK o \in {"cancelled", "timed-out"}, u \in StateType :
          /\ Core(b.m, u.m) /\ Unset(b.m, u.m) /\ u.r = b.r /\ ~u.threw
          /\ IF b.m.execution # "none" THEN Core(u.m, n.m) /\ Finishes(u.m, n.m, o) /\ n.r = u.r
             ELSE \E p \in StateType : p = Finalize(u, o, TRUE, TRUE) /\ Still(p, n)
    BY <1>6 DEF Stops
  <2>2. b.m.known /\ ~Over(b.m.status) /\ b.m.finishing = None /\ ~Done(b.r) /\ b.m.status = "streaming"
    BY <1>0, <1>6 DEF Stops
  <2>3. Even(u.m, u.r) /\ u.m.known /\ ~Over(u.m.status) /\ ~u.m.configuring /\ u.m.finishing = None
    BY <2>1, <2>2 DEF Even, Core, Unset, Again
  <2>4. CASE b.m.execution # "none"
    <3>1. Core(u.m, n.m) /\ Finishes(u.m, n.m, o) /\ n.r = u.r
      BY <2>1, <2>4
    <3>2. Even(n.m, n.r)
      BY <2>3, <3>1 DEF Even, Core, Finishes, Again
    <3> QED BY <2>2, <3>2 DEF Heeds, None
  <2>5. CASE b.m.execution = "none"
    <3>1. PICK p \in StateType : p = Finalize(u, o, TRUE, TRUE) /\ Still(p, n)
      BY <2>1, <2>5
    <3>2. /\ p.m.finishing = None /\ p.m.execution = "none" /\ Shut(p.m, p.r, o) /\ p.m.terminal = o
      <4>1. ASSUME NEW ok1, NEW ok2, p = Finalize(u, o, ok1, ok2)
            PROVE  /\ p.m.finishing = None /\ p.m.execution = u.m.execution
                   /\ ok2 => Shut(p.m, p.r, o) /\ p.m.terminal = o
        BY <2>1, <2>3, <4>1, FinalizeShuts
      <4>2. u.m.execution = "none"
        BY <2>1, <2>5 DEF Unset
      <4> QED BY <3>1, <4>1, <4>2, Zenon
    <3>3. Even(p.m, p.r)
      BY <3>2, ShutEven
    <3> QED BY <2>2, <3>1, <3>3 DEF Heeds, Still, None
  <2> QED BY <2>4, <2>5
<1>7. CASE Closing(b, n, {})
  <2> DEFINE w == b.m.finishing
  <2>1. b.m.known /\ w \in {"cancelled", "timed-out"} /\ ~Over(b.m.status)
    BY <1>0, <1>7, FinishingIs DEF Closing, Even
  <2>2. PICK p \in StateType : p = Finalize(b, w, TRUE, TRUE) /\ Still(p, n)
    BY <1>7 DEF Closing
  <2>3. b.m.status # "cancelled"
    BY <2>1 DEF Over
  <2>4. w = b.m.finishing
    OBVIOUS
  <2> HIDE DEF w
  <2>5. /\ p.m.finishing = None /\ Shut(p.m, p.r, w) /\ p.m.terminal = w
        /\ p.m.status = StatusOf(w) /\ p.m.status \in {"cancelled", "failed"}
    <3>1. ASSUME NEW ok1, NEW ok2, p = Finalize(b, w, ok1, ok2)
          PROVE  /\ p.m.finishing = None
                 /\ ok2 => /\ Shut(p.m, p.r, w) /\ p.m.terminal = w
                           /\ p.m.status = StatusOf(w) /\ p.m.status \in {"cancelled", "failed"}
      BY <2>1, <3>1, FinalizeShuts
    <3> QED BY <2>2, <3>1, Zenon
  <2>6. Even(p.m, p.r)
    BY <2>5, ShutEven
  <2> QED BY <2>2, <2>3, <2>4, <2>5, <2>6, FinalIs DEF Heeds, Still
<1>8. CASE Ticks(b, n, {})
  <2>1. /\ b.m.known /\ b.m.timer # NoTimer /\ Mode(b.m, n.m) /\ n.m.known
        /\ n.m.status = b.m.status /\ n.m.version = b.m.version
    BY <1>0, <1>8 DEF Ticks
  <2>2. CASE Done(b.r)
    <3>1. n.r = b.r
      BY <1>0, <1>8, <2>1, <2>2 DEF Ticks, Written
    <3>2. Over(n.r.message)
      BY <1>0, <2>1, <2>2, <3>1
    <3> QED BY <2>1, <3>1, <3>2 DEF Even, Mode, Heeds
  <2>3. CASE ~Done(b.r)
    <3>1. /\ b.r.message = "streaming" /\ b.m.status = "streaming" /\ ~Over("streaming")
          /\ b.m.terminal = None /\ ~Again(b.m) /\ b.r # NoRow /\ b.r.version <= b.m.version
      BY <1>0, <2>1, <2>3
    <3>2. Written(b.r, b.m.committed, n, b.m.version, "streaming", TRUE)
      BY <1>8, <2>1, <3>1 DEF Ticks, Again
    <3>3. b.m.version \in Nat /\ b.r.version \in Nat
      BY NumbersOf
    <3>4. /\ n.r.message = "streaming" /\ n.r.state = b.r.state /\ n.r.version <= n.m.version
          /\ n.m.timer \in {NoTimer, LiveTimer} /\ n.r # NoRow
      BY <2>1, <3>1, <3>2, <3>3 DEF Written, NoRow, None
    <3>5. ~Again(n.m)
      BY <3>4 DEF Again, LiveTimer, NoTimer
    <3>6. ~Done(n.r)
      BY <2>3, <3>4 DEF Done
    <3> QED BY <2>1, <3>1, <3>4, <3>5, <3>6 DEF Even, Mode, Heeds
  <2> QED BY <2>2, <2>3
<1> QED BY <1>1, <1>2, <1>3, <1>4, <1>5, <1>6, <1>7, <1>8 DEF Handled

\* A turn that memory has lost is even.
LEMMA BlankEven ==
  ASSUME NEW m, NEW q, NEW r, Blank(m), Even(q, r)
  PROVE  Even(m, r)
<1>1. /\ ~m.known /\ ~m.configuring /\ m.execution = "none" /\ m.finishing = None /\ m.terminal = None
      /\ ~Again(m)
  BY BlankIs DEF Again
<1> QED BY <1>1 DEF Even

\* Every step of a turn keeps it even, and heeds a cancel.
LEMMA MovedEven ==
  ASSUME MaxFaults = 0, "parked" \notin Outcomes, WakeRecovers = FALSE,
         NEW b \in StateType, NEW n \in StateType, ~b.threw, Even(b.m, b.r), Moved(b, n)
  PROVE  Even(n.m, n.r) /\ Heeds(b.m, n.m)
<1>1. CASE Still(b, n)
  BY <1>1 DEF Still, Heeds
<1>2. CASE Dies(b, n)
  <2>1. n.r = b.r /\ Blank(n.m)
    BY <1>2 DEF Dies, Blank
  <2>2. ~n.m.known
    BY <2>1, BlankIs
  <2> QED BY <2>1, <2>2, BlankEven DEF Heeds
<1>3. CASE Replays(b, n)
  <2>1. /\ b.r # NoRow /\ n.r = b.r /\ Mode(b.m, n.m) /\ n.m.known
        /\ n.m.status = b.r.message /\ n.m.version = b.r.version /\ n.m.timer = b.m.timer
    BY <1>3 DEF Replays
  <2>2. b.r.version \in Nat
    BY NumbersOf
  <2>3. CASE b.m.known
    <3>1. b.m.status = b.r.message
      BY <2>3 DEF Even
    <3>2. Even(n.m, n.r)
      BY <2>1, <2>2, <2>3, <3>1 DEF Even, Mode, Again
    <3> QED BY <2>1, <3>1, <3>2 DEF Heeds, Mode
  <2>4. CASE ~b.m.known
    <3>1. /\ ~b.m.configuring /\ b.m.execution = "none" /\ b.m.finishing = None /\ b.m.terminal = None
          /\ b.m.timer = NoTimer /\ b.m.status = None
      BY <2>4, BlankIs DEF Even
    <3>2. Even(n.m, n.r)
      BY <2>1, <2>2, <3>1 DEF Even, Mode, Again
    <3> QED BY <3>1, <3>2 DEF Heeds, None
  <2> QED BY <2>3, <2>4
<1>4. CASE Configures(b, n)
  <2>1. /\ b.m.configuring /\ b.r.state = "configuring" /\ Core(b.m, n.m) /\ Unset(b.m, n.m)
        /\ n.r.state = "prepared" /\ n.r.version = b.r.version
        /\ n.r.outcome = b.r.outcome /\ n.r.message = b.r.message
    BY <1>4 DEF Configures
  <2>2. ~Done(b.r) /\ ~Done(n.r) /\ n.r # NoRow /\ b.r # NoRow
    BY <2>1 DEF Done, NoRow
  <2>3. b.m.known /\ b.m.execution # "running"
    BY <2>1, BlankIs DEF Even
  <2>4. Even(n.m, n.r)
    BY <2>1, <2>2, <2>3 DEF Even, Core, Unset, Again
  <2> QED BY <2>1, <2>4 DEF Heeds, Core, Unset
<1>5. CASE Recovers(b, n)
  <2>1. PICK o \in Canonical \cup {"recovered"} :
          /\ n.r.state = "terminal" /\ n.r.outcome = o /\ n.r.message = StatusOf(o)
          /\ ~b.m.known => n.m = [b.m EXCEPT !.recovered = TRUE]
    BY <1>5 DEF Recovers
  <2>2. Unfinished(b.r) /\ (b.m.known => Over(b.m.status))
    BY <1>5 DEF Recovers
  <2>3. ~Done(b.r)
    BY <2>2 DEF Unfinished, Done
  <2>4. ~b.m.known
    BY <2>2, <2>3 DEF Even
  <2>5. Blank(n.m)
    <3>1. Blank(b.m) /\ n.m = [b.m EXCEPT !.recovered = TRUE]
      BY <2>1, <2>4 DEF Even
    <3> QED BY <3>1 DEF Blank, Unknown
  <2>6. o \in Endings /\ StatusOf(o) \in Final /\ Done(n.r) /\ n.r # NoRow
    BY <2>1, TurnAssumption, FinalIs DEF Endings, Done, NoRow
  <2>7. /\ ~n.m.known /\ ~n.m.configuring /\ n.m.execution = "none" /\ n.m.finishing = None
        /\ n.m.terminal = None /\ ~Again(n.m)
    BY <2>5, BlankIs DEF Again
  <2>8. Even(n.m, n.r)
    BY <2>1, <2>5, <2>6, <2>7, FinalIs DEF Even
  <2> QED BY <2>7, <2>8 DEF Heeds
<1>6. CASE \E F \in SUBSET (1..5) : (MaxFaults = 0 => F = {}) /\ Handled(b, n, F)
  <2>1. Handled(b, n, {})
    BY <1>6
  <2> QED BY <2>1, HandledEven
<1> QED BY <1>1, <1>2, <1>3, <1>4, <1>5, <1>6 DEF Moved

\* A turn that begins is even.
LEMMA BeginsEven ==
  ASSUME NEW b \in StateType, NEW n \in StateType, Even(b.m, b.r), Begins(b, n)
  PROVE  Even(n.m, n.r) /\ Heeds(b.m, n.m)
<1>1. b.r = NoRow /\ Blank(b.m)
  BY DEF Even, Begins
<1>2. /\ n.m.known /\ n.m.status = "streaming" /\ n.m.version = 0 /\ n.m.timer = NoTimer
      /\ n.m.execution = "none" /\ n.m.finishing = None /\ n.m.terminal = None
      /\ n.r.state \in {"configuring", "prepared"} /\ (n.m.configuring => n.r.state = "configuring")
      /\ n.r.version = 0 /\ n.r.outcome = None /\ n.r.message = "streaming"
  BY <1>1, BlankIs DEF Begins
<1>3. n.r # NoRow /\ ~Again(n.m) /\ ~Done(n.r) /\ ~Over(n.r.message) /\ ~Over(n.m.status)
  BY <1>2 DEF NoRow, Again, Done, Over
<1>4. Even(n.m, n.r)
  <2>1. n.m.known /\ n.m.status = n.r.message /\ n.r # NoRow /\ n.r.version <= n.m.version
    BY <1>2, <1>3
  <2>2. n.m.terminal = None /\ n.m.finishing = None /\ n.m.execution # "running"
    BY <1>2
  <2>3. n.m.configuring => n.r.state \in {"configuring", "terminal"}
    BY <1>2
  <2> QED BY <1>2, <1>3, <2>1, <2>2, <2>3 DEF Even
<1>5. b.m.status = None /\ b.m.finishing = None
  BY <1>1, BlankIs
<1> QED BY <1>4, <1>5 DEF Heeds, None

EvenInv == TypeOK /\ \A t \in Turns : Even(mem[t], row[t])

\* The invariant holds at the start.
LEMMA EvenInit == Init => EvenInv
<1> SUFFICES ASSUME Init PROVE EvenInv
  OBVIOUS
<1>1. TypeOK
  BY TurnInit DEF TurnInv
<1>2. Blank(Unknown)
  BY DEF Blank
<1>3. /\ ~Unknown.known /\ ~Unknown.configuring /\ Unknown.execution = "none" /\ Unknown.finishing = None
      /\ Unknown.terminal = None /\ ~Again(Unknown)
  BY <1>2, BlankIs DEF Again
<1>4. ~Done(NoRow) /\ ~Over(NoRow.message)
  BY DEF NoRow, Done, Over, None
<1>5. Even(Unknown, NoRow)
  BY <1>2, <1>3, <1>4 DEF Even
<1> QED BY <1>1, <1>5 DEF Init, EvenInv

\* Every step keeps it, and heeds a cancel.
LEMMA EvenStep ==
  ASSUME MaxFaults = 0, "parked" \notin Outcomes, WakeRecovers = FALSE, EvenInv, TypeOK', [Next]_vars
  PROVE  EvenInv' /\ \A t \in Turns : Heeds(mem[t], mem'[t])
<1>1. ASSUME NEW t \in Turns
      PROVE  /\ Here(t) \in StateType /\ Here(t).m = mem[t] /\ Here(t).r = row[t] /\ ~Here(t).threw
             /\ Here(t)' \in StateType /\ Here(t)'.m = mem'[t] /\ Here(t)'.r = row'[t]
             /\ Even(Here(t).m, Here(t).r)
  BY HereIs, HereNext DEF EvenInv
<1>2. ASSUME NEW t \in Turns, Moved(Here(t), Here(t)') \/ Begins(Here(t), Here(t)')
      PROVE  Even(mem'[t], row'[t]) /\ Heeds(mem[t], mem'[t])
  <2> DEFINE b == Here(t)
             n == Here(t)'
  <2>1. b \in StateType /\ n \in StateType /\ ~b.threw /\ Even(b.m, b.r)
    BY <1>1
  <2>2. b.m = mem[t] /\ n.m = mem'[t] /\ n.r = row'[t] /\ (Moved(b, n) \/ Begins(b, n))
    BY <1>1, <1>2
  <2> HIDE DEF b, n
  <2>3. Even(n.m, n.r) /\ Heeds(b.m, n.m)
    BY <2>1, <2>2, MovedEven, BeginsEven
  <2> QED BY <2>2, <2>3
<1>3. \A t \in Turns : Moved(Here(t), Here(t)') \/ Begins(Here(t), Here(t)')
  BY EachTurn DEF EvenInv, BeginsOne, AllMove, Moved
<1> QED BY <1>2, <1>3 DEF EvenInv

\* It holds in every state of the program, if no write fails.
LEMMA EvenAlways ==
  ASSUME MaxFaults = 0, "parked" \notin Outcomes, WakeRecovers = FALSE
  PROVE  Spec => []EvenInv
<1>1. EvenInv /\ TypeOK' /\ [Next]_vars => EvenInv'
  BY EvenStep
<1> QED BY <1>1, EvenInit, Typing, PTL DEF Spec

\* If no write fails, no turn parks and no wake recovers, the outcome that the
\* coordinator tells of a turn is the one in the database, and the message shows it,
\* whatever is timed out, cancelled, replayed and recovered.
THEOREM AllAgree ==
  ASSUME MaxFaults = 0, "parked" \notin Outcomes, WakeRecovers = FALSE
  PROVE  Spec => []Agree
<1>1. EvenInv => Agree
  BY DEF EvenInv, Even, Agree, Done
<1> QED BY <1>1, EvenAlways, PTL

\* If no write fails, no turn parks and no wake recovers, an accepted cancel stands while
\* the process lives: no late answer, rejection, replay or recovery makes something else of it.
THEOREM CancelsStand ==
  ASSUME MaxFaults = 0, "parked" \notin Outcomes, WakeRecovers = FALSE
  PROVE  Spec => CancelStands
<1>1. EvenInv /\ TypeOK' /\ [Next]_vars => [\A t \in Turns : Heeds(mem[t], mem'[t])]_vars
  BY EvenStep
<1>2. (\A t \in Turns : Heeds(mem[t], mem'[t])) <=> \A t \in Turns : mem'[t].known =>
        /\ mem[t].status = "cancelled" => mem'[t].status = "cancelled"
        /\ mem[t].finishing = "cancelled" => mem'[t].finishing = "cancelled" \/ mem'[t].status = "cancelled"
  BY DEF Heeds
<1>3. EvenInv /\ TypeOK' /\ [Next]_vars => [\A t \in Turns : mem'[t].known =>
        /\ mem[t].status = "cancelled" => mem'[t].status = "cancelled"
        /\ mem[t].finishing = "cancelled" => mem'[t].finishing = "cancelled" \/ mem'[t].status = "cancelled"]_vars
  BY <1>1, <1>2
<1> QED BY <1>3, EvenAlways, Typing, PTL DEF Spec, CancelStands
=============================================================================
