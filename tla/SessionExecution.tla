-------------------------- MODULE SessionExecution --------------------------
(***************************************************************************)
(* The execution of one session: its turns wait in a queue for the claim,  *)
(* one of them runs, and its end and its place in the transcript become    *)
(* durable together (electron/database/sessionTranscript.ts, called by     *)
(* electron/runtime/hostedTurnHandoff.ts). What went wrong on the way is   *)
(* recovered by the next turn, before it claims.                           *)
(*                                                                         *)
(* db is the database, and a transaction a function of it. A turn claims   *)
(* once, so it stands for its owner and its generation. Transcripts are    *)
(* those of protocol 2, which are known by their receipts.                 *)
(***************************************************************************)
EXTENDS Integers, FiniteSets

CONSTANTS
  Turns,
  MaxCrashes,    \* bound: restarts of the program
  MaxFaults,     \* bound: writes and reads that fail
  None           \* no turn

ASSUME SessionAssumption == MaxCrashes \in Nat /\ MaxFaults \in Nat /\ None \notin Turns

Terminals == {"completed", "parked", "failed", "plain", "restart"}
Holding == {"claimed", "executing", "settled", "closing", "keeping"}

VARIABLES
  at,        \* the call of the handoff for each turn
  base,      \* the version its context was read at
  active,    \* the session is in the registry of active owners
  db,
  faults, crashes

vars == <<at, base, active, db, faults, crashes>>

Statuses == {"queued", "claimed", "executing", "committed", "uncertain"}
Databases ==
  [row : [Turns -> Statuses \cup {"none"}],        \* session_execution_queue,
   since : [Turns -> Nat], clock : Nat,            \* in the order of enqueued_at
   claim : [turn : Turns \cup {None}, status : Statuses],
   ckpt : [version : Nat, last : Turns \cup {None}, status : {"none", "ready", "uncertain"}],
   receipts : SUBSET [turn : Turns, version : Nat, kind : Terminals],
   hist : [Turns -> Terminals \cup {"none", "open"}]]  \* the last event of its stream

TypeOK ==
  /\ at \in [Turns -> Holding \cup {"new", "waiting", "gone"}]
  /\ base \in [Turns -> Nat]
  /\ active \in BOOLEAN
  /\ db \in Databases
  /\ faults \in 0..MaxFaults /\ crashes \in 0..MaxCrashes

Free == [turn |-> None, status |-> "queued"]

Init ==
  /\ at = [t \in Turns |-> "new"] /\ base = [t \in Turns |-> 0]
  /\ active = FALSE
  /\ db = [row |-> [t \in Turns |-> "none"], since |-> [t \in Turns |-> 0], clock |-> 0, claim |-> Free,
           ckpt |-> [version |-> 0, last |-> None, status |-> "none"],
           receipts |-> {}, hist |-> [t \in Turns |-> "none"]]
  /\ faults = 0 /\ crashes = 0

Fault == faults < MaxFaults /\ faults' = faults + 1
Has(d, t) == \E r \in d.receipts : r.turn = t
Blocked(d) == d.ckpt.status = "uncertain"
-----------------------------------------------------------------------------
(* Recovery. Nobody in this process runs the session.                      *)

\* Mutated form of Stale: whoever was claimed is let go.
StaleReleases(d) ==
  IF d.claim.status = "queued" THEN d
  ELSE [d EXCEPT !.claim = Free, !.row[d.claim.turn] = "none"]

\* recoverStaleSessionExecutionClaims: who did not start is let go, who did is
\* uncertain, and so is then the session.
Stale(d) ==
  IF d.claim.status = "queued" THEN d
  ELSE LET t == d.claim.turn IN
    IF d.claim.status = "claimed"
    THEN [d EXCEPT !.claim = Free, !.row[t] = IF @ = "claimed" THEN "none" ELSE @]
    ELSE [d EXCEPT !.claim.status = "uncertain",
                   !.row[t] = IF @ \in {"executing", "committed"} THEN "uncertain" ELSE @,
                   !.ckpt = IF @.status = "uncertain" THEN @ ELSE [@ EXCEPT !.last = t, !.status = "uncertain"]]

\* recordRestartTerminalForUnfinishedTarget.
RestartTerminal(d) ==
  IF Blocked(d) /\ d.hist[d.ckpt.last] = "open" THEN [d EXCEPT !.hist[d.ckpt.last] = "restart"] ELSE d

\* The session is ready at version v, and its claim is let go.
Ready(d, v) ==
  LET t == d.ckpt.last IN
  [d EXCEPT !.ckpt.version = v, !.ckpt.status = "ready",
            !.claim = IF @ = [turn |-> t, status |-> "uncertain"] THEN Free ELSE @,
            !.row[t] = IF @ = "uncertain" THEN "none" ELSE @]

\* Mutated form of Reconcile: the receipt is looked for one version too far.
ReconcileAhead(d) ==
  LET t == d.ckpt.last
      v == d.ckpt.version
  IN  IF ~Blocked(d) THEN d
      ELSE IF d.hist[t] = "restart" /\ ~Has(d, t)
      THEN Ready([d EXCEPT !.receipts = @ \cup {[turn |-> t, version |-> v + 1, kind |-> "restart"]}], v + 1)
      ELSE IF \E r \in d.receipts : r.turn = t /\ r.version = v + 1 THEN Ready(d, v) ELSE d

\* reconcileCommittedSessionTranscripts: a turn the restart ended gets its
\* receipt; one that has the receipt of this version was committed.
Reconcile(d) ==
  LET t == d.ckpt.last
      v == d.ckpt.version
  IN  IF ~Blocked(d) THEN d
      ELSE IF d.hist[t] = "restart" /\ ~Has(d, t)
      THEN Ready([d EXCEPT !.receipts = @ \cup {[turn |-> t, version |-> v + 1, kind |-> "restart"]}], v + 1)
      ELSE IF \E r \in d.receipts : r.turn = t /\ r.version = v THEN Ready(d, v) ELSE d

Recovered(d) == Reconcile(RestartTerminal(Stale(d)))

\* A recovery that ends half-way, between its transactions.
Halfway == IF active THEN {db} ELSE {db, Stale(db), RestartTerminal(Stale(db))}

\* chat:get-messages and chat:list-active-turns recover without a claim.
Visit == ~active /\ db' = Recovered(db) /\ UNCHANGED <<at, base, active, faults, crashes>>
-----------------------------------------------------------------------------
(* The queue.                                                              *)

\* Mutated form of Seen: the registry of active owners is not asked.
SeenAlways == Recovered(db)

\* What a waiting turn finds when it tries to claim: the session recovered,
\* unless one of its turns runs in this process.
Seen == IF active THEN db ELSE Recovered(db)

Enqueued(d, t) ==
  IF d.row[t] = "none" THEN [d EXCEPT !.row[t] = "queued", !.since[t] = d.clock, !.clock = @ + 1] ELSE d
Dequeued(d, t) == [d EXCEPT !.row[t] = IF @ = "queued" THEN "none" ELSE @]
Claimable(d, t) ==
  /\ d.claim.status = "queued"
  /\ \A u \in Turns : d.row[u] = "queued" => d.since[t] <= d.since[u]

Arrive(t) ==
  /\ at[t] = "new"
  /\ at' = [at EXCEPT ![t] = "waiting"]
  /\ UNCHANGED <<base, active, db, faults, crashes>>

PollBlocked(t) ==
  /\ at[t] = "waiting" /\ Blocked(Seen)
  /\ at' = [at EXCEPT ![t] = "gone"]
  /\ db' = Dequeued(Seen, t)
  /\ UNCHANGED <<base, active, faults, crashes>>

PollWaits(t) ==
  /\ at[t] = "waiting" /\ ~Blocked(Seen)
  /\ db' = Enqueued(Seen, t) /\ ~Claimable(db', t)
  /\ UNCHANGED <<at, base, active, faults, crashes>>

\* claimSessionExecution. The version is read before anybody else can run.
PollClaims(t) ==
  /\ at[t] = "waiting" /\ ~Blocked(Seen)
  /\ LET d == Enqueued(Seen, t) IN
       /\ Claimable(d, t)
       /\ db' = [d EXCEPT !.row[t] = "claimed", !.claim = [turn |-> t, status |-> "claimed"]]
  /\ at' = [at EXCEPT ![t] = "claimed"]
  /\ base' = [base EXCEPT ![t] = db'.ckpt.version]
  /\ active' = TRUE
  /\ UNCHANGED <<faults, crashes>>

\* The recovery or the claim fails.
PollFails(t) ==
  /\ at[t] = "waiting" /\ Fault
  /\ at' = [at EXCEPT ![t] = "gone"]
  /\ \E d \in Halfway : db' = Dequeued(d, t)
  /\ UNCHANGED <<base, active, crashes>>

\* After thirty seconds, or as the session is being compacted; the row stays if
\* its deletion fails.
GiveUp(t) ==
  /\ at[t] = "waiting"
  /\ at' = [at EXCEPT ![t] = "gone"]
  /\ \/ db' = Dequeued(db, t) /\ UNCHANGED faults
     \/ db' = db /\ Fault
  /\ UNCHANGED <<base, active, crashes>>
-----------------------------------------------------------------------------
(* The turn runs.                                                          *)

To(t, s) == at' = [at EXCEPT ![t] = s]

\* Its context or its runtime cannot be made.
Abandon(t) ==
  /\ at[t] = "claimed" /\ To(t, "closing")
  /\ UNCHANGED <<base, active, db, faults, crashes>>

\* markSessionExecutionStarted.
Start(t) ==
  /\ at[t] = "claimed" /\ To(t, "executing")
  /\ db.claim = [turn |-> t, status |-> "claimed"]
  /\ db' = [db EXCEPT !.claim.status = "executing", !.row[t] = IF @ = "claimed" THEN "executing" ELSE @]
  /\ UNCHANGED <<base, active, faults, crashes>>

\* The first events reach History.
Open(t) ==
  /\ at[t] = "executing" /\ db.hist[t] = "none"
  /\ db' = [db EXCEPT !.hist[t] = "open"]
  /\ UNCHANGED <<at, base, active, faults, crashes>>

\* A turn that fails may do so before its first event.
Ends(t, k) ==
  /\ at[t] = "executing" /\ To(t, "settled")
  /\ db.hist[t] = "open" \/ (db.hist[t] = "none" /\ k \in {"failed", "plain"})
  /\ UNCHANGED <<base, active, crashes>>

\* The terminal event and the transcript are one transaction.
Commit(t, k) ==
  /\ Ends(t, k)
  /\ db.claim.turn = t /\ db.claim.status \in {"claimed", "executing"} /\ db.row[t] = db.claim.status
  /\ ~Blocked(db) /\ db.ckpt.version = base[t]
  /\ db' = [db EXCEPT !.hist[t] = k,
                      !.receipts = @ \cup {[turn |-> t, version |-> base[t] + 1, kind |-> k]},
                      !.ckpt = [version |-> base[t] + 1, last |-> t, status |-> "ready"],
                      !.claim.status = "committed", !.row[t] = "committed"]
  /\ UNCHANGED faults

\* That failed, and the terminal event is written alone; a turn that fails and
\* has no transcript writes no other.
Bare(t, k) ==
  /\ Ends(t, k)
  /\ db' = [db EXCEPT !.hist[t] = k]
  /\ (k = "plain" /\ UNCHANGED faults) \/ Fault

\* Neither can be written.
Unwritten(t) ==
  /\ at[t] = "executing" /\ To(t, "settled") /\ Fault
  /\ UNCHANGED <<base, active, db, crashes>>
-----------------------------------------------------------------------------
(* What became of it.                                                      *)

Committed(t) == db.ckpt = [version |-> base[t] + 1, last |-> t, status |-> "ready"]

\* It is over in History and, if that is asked for, in the transcript.
Fine(t) ==
  /\ at[t] = "settled" /\ db.hist[t] \in Terminals
  /\ Committed(t) \/ db.hist[t] = "plain"
  /\ To(t, "closing")
  /\ UNCHANGED <<base, active, db, faults, crashes>>

\* Nothing proves that it is: it is not committed, an error came after it had
\* completed, or History cannot be read. That costs n failures besides.
Doubtful(t, unread, n) ==
  /\ at[t] = "settled"
  /\ unread \/ db.hist[t] = "completed" \/ (db.hist[t] # "plain" /\ ~Committed(t))
  /\ faults' = faults + n + (IF unread THEN 1 ELSE 0) /\ faults' <= MaxFaults

\* markSessionExecutionUncertain, without the checkpoint if that cannot be written.
Live(d, t) == d.claim.turn = t /\ d.claim.status \in {"claimed", "executing", "committed"}
MarkedClaim(d, t) == [d EXCEPT !.claim.status = "uncertain", !.row[t] = "uncertain"]
Marked(d, t) == [MarkedClaim(d, t) EXCEPT !.ckpt.last = t, !.ckpt.status = "uncertain"]

\* The claim is kept for the recovery.
Mark(t) ==
  /\ \E unread \in BOOLEAN : Doubtful(t, unread, 0)
  /\ Live(db, t) /\ To(t, "keeping")
  /\ db' = Marked(db, t)
  /\ UNCHANGED <<base, active, crashes>>

MarkClaimOnly(t) ==
  /\ \E unread \in BOOLEAN : Doubtful(t, unread, 1)
  /\ Live(db, t) /\ To(t, "keeping")
  /\ db' = MarkedClaim(db, t)
  /\ UNCHANGED <<base, active, crashes>>

\* Nothing can be marked. The claim is kept all the same, but not that of a turn
\* that is known to have parked or failed.
MarkFails(t) ==
  /\ \E unread \in BOOLEAN :
       /\ Doubtful(t, unread, 1)
       /\ To(t, IF ~unread /\ db.hist[t] \in {"parked", "failed"} THEN "closing" ELSE "keeping")
  /\ UNCHANGED <<base, active, db, crashes>>

\* releaseSessionExecution.
Released(d, t) ==
  IF Live(d, t) THEN [d EXCEPT !.claim = Free, !.row[t] = "none"] ELSE d

\* The runtime is disposed of: the session leaves the registry, and then the
\* claim is let go, unless it is kept or that cannot be written.
Close(t) ==
  /\ at[t] \in {"closing", "keeping"} /\ To(t, "gone")
  /\ active' = FALSE
  /\ \/ db' = (IF at[t] = "closing" THEN Released(db, t) ELSE db) /\ UNCHANGED faults
     \/ at[t] = "closing" /\ db' = db /\ Fault
  /\ UNCHANGED <<base, crashes>>

\* The program ends, perhaps in the middle of a recovery, and starts again.
Crash ==
  /\ crashes < MaxCrashes /\ crashes' = crashes + 1
  /\ at' = [t \in Turns |-> IF at[t] = "new" THEN "new" ELSE "gone"]
  /\ active' = FALSE
  /\ db' \in Halfway
  /\ UNCHANGED <<base, faults>>

Next ==
  \/ Visit \/ Crash
  \/ \E t \in Turns :
       \/ Arrive(t) \/ PollBlocked(t) \/ PollWaits(t) \/ PollClaims(t) \/ PollFails(t) \/ GiveUp(t)
       \/ Abandon(t) \/ Start(t) \/ Open(t) \/ Unwritten(t)
       \/ \E k \in Terminals \ {"restart"} : Commit(t, k) \/ Bare(t, k)
       \/ Fine(t) \/ Mark(t) \/ MarkClaimOnly(t) \/ MarkFails(t) \/ Close(t)

Spec == Init /\ [][Next]_vars
-----------------------------------------------------------------------------
(* Properties.                                                             *)

\* A turn that runs is the one the database says, and the only one: its claim
\* and its row agree, as its commit will ask; and a row whose turn no longer
\* waits was left by a crash or a failed write.
LeaseStands ==
  /\ \A t \in Turns : at[t] \in Holding =>
       /\ active /\ db.claim.turn = t
       /\ db.claim.status \in (CASE at[t] = "claimed" -> {"claimed"}
                                 [] at[t] = "executing" -> {"executing"}
                                 [] at[t] = "settled" -> {"executing", "committed"}
                                 [] at[t] = "closing" -> {"claimed", "executing", "committed"}
                                 [] at[t] = "keeping" -> {"executing", "committed", "uncertain"})
  /\ \A t \in Turns : db.row[t] \notin {"none", "queued"} => db.claim = [turn |-> t, status |-> db.row[t]]
  /\ db.claim.status # "queued" => db.row[db.claim.turn] = db.claim.status
  /\ \A t \in Turns : db.row[t] = "queued" /\ at[t] # "waiting" => crashes + faults > 0

\* The end of a turn is in the transcript; one that parked or failed may be
\* missing there if two writes failed.
Accounted(t) ==
  \/ db.hist[t] \in {"none", "plain"} \/ Has(db, t)
  \/ db.hist[t] \in {"parked", "failed"} /\ faults > 1

\* The transcript is what History says: one version after the other, one for a
\* turn, of the end that History still has for it.
Recorded ==
  /\ {r.version : r \in db.receipts} = 1..db.ckpt.version
  /\ \A r, s \in db.receipts : (r.version = s.version \/ r.turn = s.turn) => r = s
  /\ \A r \in db.receipts : db.hist[r.turn] = r.kind

\* And no turn runs on while one that ran before has an end that is missing
\* there, whatever failed or crashed.
NothingSkipped ==
  /\ Recorded
  /\ \A t, u \in Turns : at[t] \in {"claimed", "executing"} /\ u # t => Accounted(u)

\* The next turn can run after any crash or failure, but for a turn that has
\* left no event, or an end and no transcript.
Recoverable ==
  LET d == Recovered(db)
      t == d.ckpt.last
  IN  ~active /\ Blocked(d) => d.hist[t] = "none" \/ (d.hist[t] \in Terminals \ {"restart"} /\ ~Has(d, t))
=============================================================================
