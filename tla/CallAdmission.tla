---------------------------- MODULE CallAdmission ----------------------------
(***************************************************************************)
(* CallAdmissionGate (electron/runtime/callAdmissionGate.ts): how many     *)
(* turns the program runs at once, counted over all, over the background   *)
(* and over each lane. The counters are kept in memory and written to the  *)
(* database by every operation; a write may fail. A caller that declared   *)
(* it can wait is queued, callers that parked and come back wait in the    *)
(* same order of arrival, and whoever gives its slot back has the queue    *)
(* scanned. Every operation is synchronous, so each is one step.           *)
(***************************************************************************)
EXTENDS Integers, FiniteSets

CONSTANTS
  Requests,        \* calls of acquire, one for each turn that is asked for
  Lanes,           \* where turns come from
  Lane, Priority,  \* of each request; a priority is interactive or background
  Patient,         \* requests whose disposition is queue
  GlobalMax, BackgroundMax, LaneMax, QueueLimit,   \* AdmissionPolicy
  MaxFaults,       \* bound: writes that fail
  MaxCrashes       \* bound: restarts of the program

Priorities == {"interactive", "background"}
Counters == Priorities \cup Lanes

ASSUME RequestsAssumption ==
  /\ IsFiniteSet(Requests) /\ Patient \subseteq Requests
  /\ Lanes \cap Priorities = {}
  /\ Lane \in [Requests -> Lanes] /\ Priority \in [Requests -> Priorities]
ASSUME PolicyAssumption ==
  /\ GlobalMax \in Nat /\ BackgroundMax \in Nat /\ QueueLimit \in Nat
  /\ LaneMax \in [Lanes -> Nat]
  /\ MaxFaults \in Nat /\ MaxCrashes \in Nat

VARIABLES
  place,     \* where the caller is
  ahead,     \* of each in waiters or resumeWaiters, those with a smaller sequence number
  active,    \* the counters in memory
  disk,      \* the counters in the database
  held,      \* requests whose ticket is not released
  retrying,  \* requests whose release the gate's own timer tries again
  faults, crashes

vars == <<place, ahead, active, disk, held, retrying, faults, crashes>>

\* stale: it waits to resume, and its handle was discarded meanwhile.
Queueing == {"waiting", "resuming", "stale"}
Places == {"new", "running", "parked", "over"} \cup Queueing

Queued == {r \in Requests : place[r] \in Queueing}

TypeOK ==
  /\ place \in [Requests -> Places]
  /\ \A r \in Requests : ahead[r] \subseteq Queued /\ (r \notin Queued => ahead[r] = {})
  /\ active \in [Counters -> Int] /\ disk \in [Counters -> Int]
  /\ held \subseteq Requests /\ retrying \subseteq Requests
  /\ faults \in 0..MaxFaults /\ crashes \in 0..MaxCrashes

Zero == [c \in Counters |-> 0]

Init ==
  /\ place = [r \in Requests |-> "new"]
  /\ ahead = [r \in Requests |-> {}]
  /\ active = Zero /\ disk = Zero
  /\ held = {} /\ retrying = {}
  /\ faults = 0 /\ crashes = 0
-----------------------------------------------------------------------------
(* The judgement and the counters.                                         *)

\* Mutated form of Fits: the lane is not looked at.
FitsAnyLane(r, s) ==
  /\ s["interactive"] + s["background"] < GlobalMax
  /\ Priority[r] = "background" => s["background"] < BackgroundMax

\* judgeAdmission admits r, and judgeResumeAdmission, which asks the same.
Fits(r, s) ==
  /\ s["interactive"] + s["background"] < GlobalMax
  /\ Priority[r] = "background" => s["background"] < BackgroundMax
  /\ s[Lane[r]] < LaneMax[Lane[r]]

CountedBy(c, S) == {r \in S : c \in {Lane[r], Priority[r]}}
Plus(s, G) == [c \in Counters |-> s[c] + Cardinality(CountedBy(c, G))]

\* Mutated form of Minus: the lane is not given back.
MinusPriority(s, r) == [c \in Counters |-> IF c = Priority[r] THEN s[c] - 1 ELSE s[c]]

\* applyRelease, whose Math.max(0, ...) never has to act (Counted).
Minus(s, r) == [c \in Counters |-> IF c \in {Lane[r], Priority[r]} THEN s[c] - 1 ELSE s[c]]

Persisted(s) == active' = s /\ disk' = s
Fault(n) == faults + n <= MaxFaults /\ faults' = faults + n

Room == Cardinality(Queued) < QueueLimit
Before(q, r) == q \in ahead[r]
Waiters(P) == {r \in Requests : P[r] \in {"waiting", "resuming"}}

\* Mutated forms of Wakes: the scan stops at the first that does not fit; those
\* that wait to resume are scanned after the others.
WakesInOrder(W, G, F, s, P) ==
  \A r \in W : r \in G \cup F <=>
    /\ Fits(r, Plus(s, {q \in G : Before(q, r)}))
    /\ \A q \in W : Before(q, r) => q \in G \cup F
WakesResumedLast(W, G, F, s, P) ==
  \A r \in W : r \in G \cup F <=>
    Fits(r, Plus(s, {q \in G : IF P[q] = P[r] THEN Before(q, r) ELSE P[r] = "resuming"}))

\* wakeNext: of the waiters W it grants G, and fails to write the grant for F.
\* Each is judged in its turn against the counters as those before left them.
Wakes(W, G, F, s, P) ==
  \A r \in W : r \in G \cup F <=> Fits(r, Plus(s, {q \in G : Before(q, r)}))

\* Where the scan leaves r: one that could not be written is refused, or stays
\* parked and may try again; a stale one is refused.
Scanned(G, F, P) ==
  [r \in Requests |->
     IF r \in G THEN "running"
     ELSE IF r \in F THEN (IF P[r] = "waiting" THEN "over" ELSE "parked")
     ELSE IF P[r] = "stale" THEN "over" ELSE P[r]]

\* Those of L leave the queue, if they are in it.
Leave(L) == ahead' = [r \in Requests |-> IF r \in L THEN {} ELSE ahead[r] \ L]

\* The slot of r is released and written, r is at P[r], and the queue is scanned.
Free(r, P) ==
  \E F \in SUBSET Waiters(P) : \E G \in SUBSET (Waiters(P) \ F) :
    /\ Fault(Cardinality(F))
    /\ Wakes(Waiters(P), G, F, Minus(active, r), P)
    /\ place' = Scanned(G, F, P)
    /\ Leave(G \cup F \cup {q \in Requests : P[q] = "stale"})
    /\ Persisted(Plus(Minus(active, r), G))
    /\ held' = (held \ {r}) \cup G
    /\ retrying' = retrying \ {r}
-----------------------------------------------------------------------------
(* acquire.                                                                *)

\* Mutated form of Start: the slot is written and no ticket made for it.
StartUncounted(r) ==
  /\ Fits(r, active)
  /\ place' = [place EXCEPT ![r] = "running"]
  /\ Persisted(active)
  /\ held' = held \cup {r}

\* A slot is free: it is counted and written, and a ticket is made.
Start(r) ==
  /\ Fits(r, active)
  /\ place' = [place EXCEPT ![r] = "running"]
  /\ Persisted(Plus(active, {r}))
  /\ held' = held \cup {r}

Stand(r, p) ==
  /\ place' = [place EXCEPT ![r] = p]
  /\ ahead' = [ahead EXCEPT ![r] = Queued]
  /\ UNCHANGED <<active, disk, held, retrying, faults, crashes>>

\* r leaves whatever it is in.
Go(r, p) ==
  /\ place' = [place EXCEPT ![r] = p]
  /\ IF p = "stale" THEN UNCHANGED ahead ELSE Leave({r})
  /\ UNCHANGED <<active, disk, held, retrying, faults, crashes>>

Acquire(r) ==
  /\ place[r] = "new" /\ Start(r)
  /\ UNCHANGED <<ahead, retrying, faults, crashes>>

AcquireWaits(r) ==
  /\ place[r] = "new" /\ ~Fits(r, active) /\ r \in Patient /\ Room
  /\ Stand(r, "waiting")

\* Deferred, degraded or refused, as it cannot wait or the queue is full.
TurnAway(r) ==
  /\ place[r] = "new" /\ ~Fits(r, active) /\ ~(r \in Patient /\ Room)
  /\ Go(r, "over")

\* The slot or the place in the queue cannot be written.
AcquireUnsaved(r) ==
  /\ place[r] = "new" /\ (Fits(r, active) \/ (r \in Patient /\ Room))
  /\ Fault(1)
  /\ place' = [place EXCEPT ![r] = "over"]
  /\ UNCHANGED <<ahead, active, disk, held, retrying, crashes>>

\* The signal aborts before or in the queue, or its turn is cancelled there.
Abort(r) == place[r] \in {"new", "waiting"} /\ Go(r, "over")
-----------------------------------------------------------------------------
(* Giving the slot back: release when the turn ends, park while it waits.  *)

\* Mutated form of GiveBack: the queue is not scanned.
GiveBackSilently(r, to) ==
  /\ place[r] = "running" /\ r \in held
  /\ place' = [place EXCEPT ![r] = to]
  /\ Persisted(Minus(active, r))
  /\ held' = held \ {r} /\ retrying' = retrying \ {r}
  /\ UNCHANGED <<ahead, faults, crashes>>

GiveBack(r, to) ==
  /\ place[r] = "running" /\ r \in held
  /\ Free(r, [place EXCEPT ![r] = to])
  /\ UNCHANGED crashes

\* The gate's timer has released the ticket before (a park that failed).
GiveBackAgain(r, to) == place[r] = "running" /\ r \notin held /\ Go(r, to)

\* Mutated form of Unsaved: the release is left to a caller that is gone.
UnsavedForgotten(r, to) ==
  /\ place[r] = "running" /\ r \in held
  /\ Fault(1)
  /\ place' = [place EXCEPT ![r] = to]
  /\ UNCHANGED <<ahead, active, disk, held, retrying, crashes>>

\* The release cannot be written: the gate will try again.
Unsaved(r, to) ==
  /\ place[r] = "running" /\ r \in held
  /\ Fault(1)
  /\ place' = [place EXCEPT ![r] = to]
  /\ retrying' = retrying \cup {r}
  /\ UNCHANGED <<ahead, active, disk, held, crashes>>

Release(r) == GiveBack(r, "over") \/ GiveBackAgain(r, "over") \/ Unsaved(r, "over")

\* A park that is not written leaves its caller running.
Park(r) == GiveBack(r, "parked") \/ GiveBackAgain(r, "parked") \/ Unsaved(r, "running")

\* A retry that cannot be written changes nothing, and is tried again.
Retry(r) ==
  /\ r \in retrying
  /\ Free(r, place)
  /\ UNCHANGED crashes
-----------------------------------------------------------------------------
(* resume and discard.                                                     *)

Resume(r) ==
  /\ place[r] = "parked" /\ Start(r)
  /\ UNCHANGED <<ahead, retrying, faults, crashes>>

ResumeWaits(r) ==
  /\ place[r] = "parked" /\ ~Fits(r, active) /\ Room
  /\ Stand(r, "resuming")

ResumeTurnedAway(r) == place[r] = "parked" /\ ~Fits(r, active) /\ ~Room /\ Go(r, "over")

\* It stays parked, and its owner may try again.
ResumeUnsaved(r) ==
  /\ place[r] = "parked" /\ (Fits(r, active) \/ Room)
  /\ Fault(1)
  /\ UNCHANGED <<place, ahead, active, disk, held, retrying, crashes>>

\* The signal of resume aborts: the parked identity goes with it.
AbortResume(r) == place[r] \in {"parked", "resuming", "stale"} /\ Go(r, "over")

Discard(r) ==
  \/ place[r] = "parked" /\ Go(r, "over")
  \/ place[r] = "resuming" /\ Go(r, "stale")
-----------------------------------------------------------------------------
\* Mutated form of Restart: the gate loads what the last process left.
RestartWithGhosts ==
  /\ crashes < MaxCrashes /\ crashes' = crashes + 1
  /\ place' = [r \in Requests |-> IF place[r] = "new" THEN "new" ELSE "over"]
  /\ Persisted(disk)
  /\ ahead' = [r \in Requests |-> {}] /\ held' = {} /\ retrying' = {}
  /\ UNCHANGED faults

\* The process ends and starts: main.ts clears the counters of the database, and
\* then makes the gate, which loads them.
Restart ==
  /\ crashes < MaxCrashes /\ crashes' = crashes + 1
  /\ place' = [r \in Requests |-> IF place[r] = "new" THEN "new" ELSE "over"]
  /\ Persisted(Zero)
  /\ ahead' = [r \in Requests |-> {}] /\ held' = {} /\ retrying' = {}
  /\ UNCHANGED faults

Next ==
  \/ Restart
  \/ \E r \in Requests :
       \/ Acquire(r) \/ AcquireWaits(r) \/ TurnAway(r) \/ AcquireUnsaved(r) \/ Abort(r)
       \/ Release(r) \/ Park(r) \/ Retry(r)
       \/ Resume(r) \/ ResumeWaits(r) \/ ResumeTurnedAway(r) \/ ResumeUnsaved(r)
       \/ AbortResume(r) \/ Discard(r)

Spec == Init /\ [][Next]_vars

\* Callers release in a finally block, and the gate's timer fires until the
\* release is written: writes do not fail for ever.
FairSpec == Spec /\ \A r \in Requests : WF_vars(Release(r)) /\ WF_vars(Retry(r))
-----------------------------------------------------------------------------
(* Properties.                                                             *)

\* The counters are those of the tickets that are out, in memory and in the
\* database, after failed writes, retries, resumes and restarts alike.
Counted ==
  /\ active = [c \in Counters |-> Cardinality(CountedBy(c, held))]
  /\ disk = active

\* No limit is exceeded by the tickets that are out.
WithinLimits ==
  /\ Cardinality(held) <= GlobalMax
  /\ Cardinality(CountedBy("background", held)) <= BackgroundMax
  /\ \A l \in Lanes : Cardinality(CountedBy(l, held)) <= LaneMax[l]

\* A slot is held by someone who will give it back: its caller, or the gate's
\* own timer when the caller's release could not be written.
NoSlotLost == \A r \in held : place[r] = "running" \/ r \in retrying

\* Nobody waits beside a free slot, so the queue needs no other wakeup than a
\* release: a failed grant, a stale handle or an abort leaves none behind.
NobodyIdles == \A r \in Waiters(place) : ~Fits(r, active)

Alike(q, r) == Lane[q] = Lane[r] /\ Priority[q] = Priority[r]

\* Of two requests of one lane and priority the later never gets a slot while
\* the earlier goes on waiting, whether it waits for its first or to resume.
NoOvertaking ==
  [][\A q \in Waiters(place), r \in Requests :
       /\ Alike(q, r) /\ place[r] # "running" /\ place'[r] = "running"
       /\ r \in Queued => Before(q, r)
       => place'[q] \notin {"waiting", "resuming"}]_vars

\* Whoever waits is answered, though releases fail and have to be tried again.
EveryWaiterAnswered == \A r \in Requests : r \in Queued ~> r \notin Queued
=============================================================================
