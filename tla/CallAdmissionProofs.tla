------------------------ MODULE CallAdmissionProofs ------------------------
(***************************************************************************)
(* The accounts of the admission gate, for any requests, lanes and limits. *)
(* The counters are those of the tickets that are out, each of which has   *)
(* an owner, and nobody waits beside a free slot: counters only grow while *)
(* the queue is scanned, so what did not fit in its turn does not fit      *)
(* after the scan. The queue is a strict total order, so of all that a     *)
(* scan grants under a limit one was judged last, with the others counted: *)
(* the limits hold. And who is ahead is judged with no more counted than   *)
(* its like behind it, so it is not overtaken.                             *)
(***************************************************************************)
EXTENDS CallAdmission, FiniteSetTheorems, WellFoundedInduction, TLAPS

\* The counters as the tickets of S make them.
CountsOf(S) == [c \in Counters |-> Cardinality(CountedBy(c, S))]

Placed == place \in [Requests -> Places] /\ held \subseteq Requests /\ retrying \subseteq held

\* A release the gate tries again is that of a caller that left, or of one that
\* runs on as its park failed: nobody in the queue has a ticket.
LateReleases == \A r \in retrying : place[r] \in {"running", "over"}

GateInv == Placed /\ Counted /\ NoSlotLost /\ LateReleases /\ NobodyIdles

USE RequestsAssumption DEF RequestsAssumption, Placed

\* Requests counted under one counter are finitely many, so they have a cardinality.
LEMMA CountedFinite ==
  ASSUME NEW c, NEW S \in SUBSET Requests
  PROVE  IsFiniteSet(CountedBy(c, S)) /\ Cardinality(CountedBy(c, S)) \in Nat
<1>1. CountedBy(c, S) \in SUBSET Requests
  BY DEF CountedBy
<1> QED BY <1>1, FS_Subset, FS_CardinalityType

\* More tickets make no counter smaller.
LEMMA CountedMonotone ==
  ASSUME NEW c, NEW S \in SUBSET Requests, NEW T \in SUBSET S
  PROVE  Cardinality(CountedBy(c, T)) <= Cardinality(CountedBy(c, S))
<1>1. CountedBy(c, T) \in SUBSET CountedBy(c, S)
  BY DEF CountedBy
<1> QED BY <1>1, CountedFinite, FS_Subset

\* Granting tickets that are not out yet adds to the counters what they count.
LEMMA PlusCounts ==
  ASSUME NEW S \in SUBSET Requests, NEW G \in SUBSET Requests, S \cap G = {}
  PROVE  Plus(CountsOf(S), G) = CountsOf(S \cup G)
<1>1. ASSUME NEW c \in Counters
      PROVE  Cardinality(CountedBy(c, S)) + Cardinality(CountedBy(c, G)) = Cardinality(CountedBy(c, S \cup G))
  <2>1. CountedBy(c, S \cup G) = CountedBy(c, S) \cup CountedBy(c, G)
    BY DEF CountedBy
  <2>2. CountedBy(c, S) \cap CountedBy(c, G) = {}
    BY DEF CountedBy
  <2>3. Cardinality(CountedBy(c, S) \cup CountedBy(c, G))
          = Cardinality(CountedBy(c, S)) + Cardinality(CountedBy(c, G)) - Cardinality({})
    BY <2>2, CountedFinite, FS_Union
  <2>4. Cardinality({}) = 0
    BY FS_EmptySet
  <2>5. Cardinality(CountedBy(c, S)) \in Int /\ Cardinality(CountedBy(c, G)) \in Int
    BY CountedFinite
  <2>6. \A m, n \in Int : m + n = m + n - 0
    OBVIOUS
  <2> QED BY <2>1, <2>3, <2>4, <2>5, <2>6
<1> QED BY <1>1 DEF Plus, CountsOf

\* Releasing a ticket that is out takes one from its two counters.
LEMMA MinusCounts ==
  ASSUME NEW S \in SUBSET Requests, NEW r \in S
  PROVE  Minus(CountsOf(S), r) = CountsOf(S \ {r})
<1>1. ASSUME NEW c \in Counters
      PROVE  Cardinality(CountedBy(c, S \ {r})) = IF c \in {Lane[r], Priority[r]} THEN Cardinality(CountedBy(c, S)) - 1
                                                  ELSE Cardinality(CountedBy(c, S))
  <2>1. CountedBy(c, S \ {r}) = CountedBy(c, S) \ {r}
    BY DEF CountedBy
  <2>2. r \in CountedBy(c, S) <=> c \in {Lane[r], Priority[r]}
    BY DEF CountedBy
  <2>3. Cardinality(CountedBy(c, S) \ {r}) = IF r \in CountedBy(c, S) THEN Cardinality(CountedBy(c, S)) - 1
                                              ELSE Cardinality(CountedBy(c, S))
    BY CountedFinite, FS_RemoveElement
  <2> QED BY <2>1, <2>2, <2>3
<1> QED BY <1>1 DEF Minus, CountsOf

\* A request that fits once more tickets are out fits with fewer.
LEMMA FitsFewer ==
  ASSUME NEW r \in Requests, NEW S \in SUBSET Requests, NEW T \in SUBSET S, Fits(r, CountsOf(S))
  PROVE  Fits(r, CountsOf(T))
<1>1. Lane[r] \in Counters /\ "interactive" \in Counters /\ "background" \in Counters
  BY DEF Counters, Priorities
<1>2. \A c \in Counters : CountsOf(T)[c] \in Nat /\ CountsOf(S)[c] \in Nat /\ CountsOf(T)[c] <= CountsOf(S)[c]
  BY CountedMonotone, CountedFinite DEF CountsOf
<1>3. LaneMax[Lane[r]] \in Nat /\ GlobalMax \in Nat /\ BackgroundMax \in Nat
  BY PolicyAssumption
<1> QED BY <1>1, <1>2, <1>3 DEF Fits

\* The gate starts with nobody in it.
LEMMA InitInv == Init => GateInv
<1> SUFFICES ASSUME Init PROVE GateInv
  OBVIOUS
<1>1. CountedBy("x", {}) = {} /\ \A c : CountedBy(c, {}) = {}
  BY DEF CountedBy
<1>2. Counted
  BY <1>1, FS_EmptySet DEF Counted, Init, Zero
<1>3. Waiters(place) = {}
  BY DEF Waiters, Init
<1> QED BY <1>2, <1>3 DEF GateInv, Init, Places, NoSlotLost, NobodyIdles, LateReleases

\* A caller that goes somewhere without touching the counters, and does not
\* begin to wait, changes none of the accounts unless it held a ticket.
LEMMA GoKeeps ==
  ASSUME GateInv, NEW r \in Requests, NEW p \in Places \ {"waiting", "resuming"},
         r \notin held \/ (r \in retrying' /\ p \in {"running", "over"}),
         place' = [place EXCEPT ![r] = p],
         active' = active, disk' = disk, held' = held,
         retrying \subseteq retrying', retrying' \subseteq retrying \cup {r}, retrying' \subseteq held
  PROVE  GateInv'
<1>1. Placed'
  BY DEF GateInv
<1>2. Counted'
  BY DEF GateInv, Counted
<1>3. NoSlotLost'
  BY DEF GateInv, NoSlotLost
<1>4. NobodyIdles'
  BY DEF GateInv, NobodyIdles, Waiters, Fits
<1>5. LateReleases'
  BY DEF GateInv, LateReleases
<1> QED BY <1>1, <1>2, <1>3, <1>4, <1>5 DEF GateInv

\* Whoever starts at once is counted, and leaves less room for those that wait.
LEMMA StartKeeps ==
  ASSUME GateInv, NEW r \in Requests, place[r] \in {"new", "parked"}, r \notin held, Start(r), retrying' = retrying
  PROVE  GateInv'
<1>1. Placed'
  BY DEF GateInv, Start, Places
<1>2. active = CountsOf(held) /\ disk = active
  BY DEF GateInv, Counted, CountsOf
<1>3. active' = CountsOf(held') /\ disk' = active'
  BY <1>2, PlusCounts DEF GateInv, Start, Persisted
<1>4. NoSlotLost'
  BY DEF GateInv, NoSlotLost, Start
<1>5. NobodyIdles'
  <2> SUFFICES ASSUME NEW q \in Waiters(place'), Fits(q, CountsOf(held'))
               PROVE  FALSE
    BY <1>3 DEF NobodyIdles, Fits
  <2>1. q \in Waiters(place) /\ held \subseteq held' /\ held' \subseteq Requests
    BY DEF Waiters, Start, GateInv
  <2>2. Fits(q, CountsOf(held))
    BY <2>1, FitsFewer DEF Waiters
  <2> QED BY <1>2, <2>1, <2>2 DEF GateInv, NobodyIdles
<1>6. LateReleases'
  BY DEF GateInv, LateReleases, Start
<1> QED BY <1>1, <1>3, <1>4, <1>5, <1>6 DEF GateInv, Counted, CountsOf

\* The grants of a scan are counted once each, and who is left in the queue did
\* not fit in its turn, so it does not fit in the end.
LEMMA FreeKeeps ==
  ASSUME GateInv, NEW r \in held, NEW P \in [Requests -> Places],
         \A q \in Requests \ {r} : P[q] = place[q],
         P[r] \in {"running", "over", "parked"}, Free(r, P)
  PROVE  GateInv'
<1> DEFINE W == Waiters(P)
           H == held \ {r}
<1>1. PICK F \in SUBSET W : \E G \in SUBSET (W \ F) :
        /\ Wakes(W, G, F, Minus(active, r), P)
        /\ place' = Scanned(G, F, P)
        /\ Persisted(Plus(Minus(active, r), G))
        /\ held' = H \cup G
        /\ retrying' = retrying \ {r}
  BY DEF Free
<1>2. PICK G \in SUBSET (W \ F) :
        /\ Wakes(W, G, F, Minus(active, r), P)
        /\ place' = Scanned(G, F, P)
        /\ Persisted(Plus(Minus(active, r), G))
        /\ held' = H \cup G
        /\ retrying' = retrying \ {r}
  BY <1>1
<1>3. W \in SUBSET Requests /\ G \in SUBSET Requests /\ H \in SUBSET Requests
  BY DEF Waiters, GateInv
<1>4. \A q \in W : q # r /\ place[q] \in {"waiting", "resuming"}
  BY DEF Waiters
<1>5. W \cap held = {}
  BY <1>4 DEF GateInv, NoSlotLost, LateReleases
<1>6. Placed'
  <2>1. \A q \in Requests : place'[q] \in Places
    BY <1>2, <1>3 DEF Scanned, Places
  <2>2. place' = [q \in Requests |-> place'[q]]
    BY <1>2 DEF Scanned
  <2>3. held' \subseteq Requests /\ retrying' \subseteq held'
    BY <1>2, <1>3 DEF GateInv
  <2> QED BY <2>1, <2>2, <2>3
<1>7. Minus(active, r) = CountsOf(H)
  <2>1. active = CountsOf(held) /\ held \in SUBSET Requests
    BY DEF GateInv, Counted, CountsOf
  <2> QED BY <2>1, MinusCounts
<1>8. active' = CountsOf(held') /\ disk' = active'
  BY <1>2, <1>3, <1>5, <1>7, PlusCounts DEF Persisted
<1>9. NoSlotLost'
  <2> SUFFICES ASSUME NEW q \in held' PROVE place'[q] = "running" \/ q \in retrying'
    BY DEF NoSlotLost
  <2>1. CASE q \in G
    BY <1>2, <1>3, <2>1 DEF Scanned
  <2>2. CASE q \notin G
    <3>1. q \in H /\ q \in Requests /\ q \notin F /\ (place[q] = "running" \/ q \in retrying)
      BY <1>2, <1>3, <1>5, <2>2 DEF GateInv, NoSlotLost
    <3>2. place[q] = "running" => place'[q] = "running"
      BY <1>2, <2>2, <3>1 DEF Scanned
    <3> QED BY <1>2, <3>1, <3>2
  <2> QED BY <2>1, <2>2
<1>10. LateReleases'
  <2> SUFFICES ASSUME NEW q \in retrying' PROVE place'[q] \in {"running", "over"}
    BY DEF LateReleases
  <2>1. q \in H /\ q \in Requests /\ q \notin G /\ q \notin F /\ P[q] \in {"running", "over"}
    BY <1>2, <1>3, <1>5 DEF GateInv, LateReleases
  <2> QED BY <1>2, <2>1 DEF Scanned
<1>11. NobodyIdles'
  <2> SUFFICES ASSUME NEW q \in Waiters(place'), Fits(q, CountsOf(held'))
               PROVE  FALSE
    BY <1>8 DEF NobodyIdles, Fits
  <2>1. q \in W /\ q \in Requests /\ q \notin G /\ q \notin F
    BY <1>2, <1>3 DEF Waiters, Scanned
  <2> DEFINE B == {x \in G : Before(x, q)}
  <2>2. Plus(Minus(active, r), B) = CountsOf(H \cup B)
    BY <1>3, <1>5, <1>7, PlusCounts
  <2>3. Fits(q, CountsOf(H \cup B))
    <3>1. H \cup B \in SUBSET held' /\ held' \in SUBSET Requests
      BY <1>2, <1>6
    <3> QED BY <2>1, <3>1, FitsFewer
  <2>4. q \in G \cup F
    BY <1>2, <2>1, <2>2, <2>3 DEF Wakes
  <2> QED BY <2>1, <2>4
<1> QED BY <1>6, <1>8, <1>9, <1>10, <1>11 DEF GateInv, Counted, CountsOf

\* Every operation of the gate, failed writes and restarts included, keeps the invariant.
LEMMA StepInv == GateInv /\ [Next]_vars => GateInv'
<1> SUFFICES ASSUME GateInv, [Next]_vars PROVE GateInv'
  OBVIOUS
<1>1. CASE UNCHANGED vars
  BY <1>1 DEF vars, GateInv, Counted, NoSlotLost, LateReleases, NobodyIdles, Waiters, Fits
<1>2. CASE Restart
  <2>1. Placed' /\ held' = {} /\ retrying' = {}
    BY <1>2 DEF Restart, GateInv, Places
  <2>2. active' = CountsOf({}) /\ disk' = active'
    BY <1>2, FS_EmptySet DEF Restart, Persisted, Zero, CountsOf, CountedBy
  <2>3. Waiters(place') = {}
    BY <1>2 DEF Restart, Waiters
  <2> QED BY <2>1, <2>2, <2>3 DEF GateInv, Counted, CountsOf, NoSlotLost, LateReleases, NobodyIdles
<1>3. ASSUME NEW r \in Requests, Acquire(r) \/ Resume(r)
      PROVE  GateInv'
  <2>1. place[r] \in {"new", "parked"} /\ Start(r) /\ retrying' = retrying
    BY <1>3 DEF Acquire, Resume
  <2>2. r \notin held
    BY <2>1 DEF GateInv, NoSlotLost, LateReleases
  <2> QED BY <2>1, <2>2, StartKeeps
<1>4. ASSUME NEW r \in Requests, NEW p \in {"waiting", "resuming"}, place[r] \in {"new", "parked"},
             ~Fits(r, active), Stand(r, p)
      PROVE  GateInv'
  <2>1. r \notin held /\ r \notin retrying
    BY <1>4 DEF GateInv, NoSlotLost, LateReleases
  <2>2. Placed' /\ Counted'
    BY <1>4 DEF Stand, GateInv, Counted, Places, Queueing
  <2>3. NoSlotLost' /\ LateReleases'
    BY <1>4, <2>1 DEF Stand, GateInv, NoSlotLost, LateReleases
  <2>4. NobodyIdles'
    BY <1>4 DEF Stand, GateInv, NobodyIdles, Waiters, Fits
  <2> QED BY <2>2, <2>3, <2>4 DEF GateInv
<1>5. ASSUME NEW r \in Requests, NEW p \in Places \ {"waiting", "resuming"}, r \notin held, Go(r, p)
      PROVE  GateInv'
  BY <1>5, GoKeeps DEF Go, GateInv
<1>6. ASSUME NEW r \in Requests, NEW to \in {"over", "parked"}, GiveBack(r, to)
      PROVE  GateInv'
  BY <1>6, FreeKeeps DEF GiveBack, GateInv, Places
<1>7. ASSUME NEW r \in Requests, NEW to \in {"over", "running"}, Unsaved(r, to)
      PROVE  GateInv'
  BY <1>7, GoKeeps DEF Unsaved, GateInv, Places
<1>8. ASSUME NEW r \in Requests, Retry(r)
      PROVE  GateInv'
  BY <1>8, FreeKeeps DEF Retry, GateInv, LateReleases
<1>9. ASSUME NEW r \in Requests, AcquireUnsaved(r)
      PROVE  GateInv'
  <2>1. r \notin held
    BY <1>9 DEF AcquireUnsaved, GateInv, NoSlotLost, LateReleases
  <2> QED BY <1>9, <2>1, GoKeeps DEF AcquireUnsaved, GateInv, Places
<1>10. ASSUME NEW r \in Requests, ResumeUnsaved(r)
       PROVE  GateInv'
  BY <1>10 DEF ResumeUnsaved, GateInv, Counted, NoSlotLost, LateReleases, NobodyIdles, Waiters, Fits
<1>11. ASSUME NEW r \in Requests, TurnAway(r) \/ Abort(r) \/ ResumeTurnedAway(r) \/ AbortResume(r) \/ Discard(r)
       PROVE  GateInv'
  <2>1. place[r] \in {"new", "waiting", "parked", "resuming", "stale"}
    BY <1>11 DEF TurnAway, Abort, ResumeTurnedAway, AbortResume, Discard
  <2>2. r \notin held
    BY <2>1 DEF GateInv, NoSlotLost, LateReleases
  <2>3. Go(r, "over") \/ Go(r, "stale")
    BY <1>11 DEF TurnAway, Abort, ResumeTurnedAway, AbortResume, Discard
  <2> QED BY <1>5, <2>2, <2>3 DEF Places, Queueing
<1>12. ASSUME NEW r \in Requests, AcquireWaits(r) \/ ResumeWaits(r)
       PROVE  GateInv'
  BY <1>4, <1>12 DEF AcquireWaits, ResumeWaits
<1>13. ASSUME NEW r \in Requests, Release(r) \/ Park(r)
       PROVE  GateInv'
  BY <1>5, <1>6, <1>7, <1>13 DEF Release, Park, GiveBackAgain, Places
<1> QED BY <1>1, <1>2, <1>3, <1>8, <1>9, <1>10, <1>11, <1>12, <1>13 DEF Next

\* The invariant holds in every state the gate reaches.
LEMMA GateAlways == Spec => []GateInv
  BY InitInv, StepInv, PTL DEF Spec

\* The counters in memory and in the database are those of the tickets that
\* are out, whatever fails: no slot is counted twice or forgotten.
THEOREM CountersConserved == Spec => []Counted
<1>1. GateInv => Counted
  BY DEF GateInv
<1> QED BY <1>1, GateAlways, PTL

\* Every ticket that is out has a caller or the gate's timer to release it.
THEOREM SlotsComeBack == Spec => []NoSlotLost
<1>1. GateInv => NoSlotLost
  BY DEF GateInv
<1> QED BY <1>1, GateAlways, PTL

\* No waiter stands beside a slot it could have, so a release that frees one is
\* the only wakeup the queue needs.
THEOREM QueueIsBlocked == Spec => []NobodyIdles
<1>1. GateInv => NobodyIdles
  BY DEF GateInv
<1> QED BY <1>1, GateAlways, PTL
-----------------------------------------------------------------------------
(* The queue: who is ahead of whom is a strict total order of those in it, *)
(* the part of TypeOK about it included, so every scan has a last grant,   *)
(* and that one was judged with all the others counted.                    *)

Line ==
  /\ ahead \in [Requests -> SUBSET Requests]
  /\ \A r \in Requests : ahead[r] \subseteq Queued /\ (r \notin Queued => ahead[r] = {})
  /\ \A r \in Queued : ~Before(r, r)
  /\ \A q, r \in Queued : q = r \/ Before(q, r) \/ Before(r, q)
  /\ \A q, r \in Queued : Before(q, r) => ahead[q] \subseteq ahead[r]

Bounded == faults \in 0..MaxFaults /\ crashes \in 0..MaxCrashes

QueueInv == GateInv /\ Line /\ Bounded /\ WithinLimits

\* Of some requests in the queue one is behind all the others.
LEMMA LastOf ==
  ASSUME Line, NEW T \in SUBSET Queued, T # {}
  PROVE  \E r \in T : \A q \in T \ {r} : Before(q, r)
<1> DEFINE Less(r) == Cardinality(Requests) - Cardinality(ahead[r])
           Sizes == {Less(r) : r \in T}
<1>1. \A r \in T : r \in Requests /\ r \in Queued
  BY DEF Queued
<1>2. \A S \in SUBSET Requests : IsFiniteSet(S) /\ Cardinality(S) \in Nat /\ Cardinality(S) <= Cardinality(Requests)
  BY FS_Subset, FS_CardinalityType
<1>3. \A r \in T : ahead[r] \in SUBSET Requests
  BY <1>1 DEF Line
<1>4. \A r \in T : Less(r) \in Nat
  <2> TAKE r \in T
  <2>1. Cardinality(ahead[r]) \in Nat /\ Cardinality(ahead[r]) <= Cardinality(Requests) /\ Cardinality(Requests) \in Nat
    BY <1>2, <1>3
  <2> QED BY <2>1
<1>5. PICK n \in Sizes : \A m \in Sizes : n <= m
  <2>1. Sizes \in SUBSET Nat /\ Sizes # {}
    BY <1>4
  <2> HIDE DEF Sizes
  <2>2. IsWellFoundedOn(OpToRel(<, Nat), Nat)
    BY NatLessThanWellFounded
  <2>3. PICK n \in Sizes : \A m \in Sizes : ~(<<m, n>> \in OpToRel(<, Nat))
    BY <2>1, <2>2, WFMin
  <2>4. ASSUME NEW m \in Sizes PROVE n <= m
    <3>1. ~(<<m, n>> \in OpToRel(<, Nat)) /\ m \in Nat /\ n \in Nat
      BY <2>1, <2>3
    <3> QED BY <3>1 DEF OpToRel
  <2> QED BY <2>4
<1>6. PICK r \in T : n = Less(r)
  BY <1>5
<1>7. \A q \in T \ {r} : Before(q, r)
  <2> SUFFICES ASSUME NEW q \in T \ {r}, ~Before(q, r) PROVE FALSE
    OBVIOUS
  <2>1. Before(r, q)
    BY <1>1 DEF Line
  <2>2. ahead[r] \subseteq ahead[q] /\ r \in ahead[q] /\ r \notin ahead[r]
    BY <1>1, <2>1 DEF Line, Before
  <2>3. ahead[r] \cup {r} \in SUBSET ahead[q] /\ ahead[q] \in SUBSET Requests /\ ahead[r] \in SUBSET Requests
    BY <1>3, <2>2
  <2>4. Cardinality(ahead[r] \cup {r}) = Cardinality(ahead[r]) + 1
    BY <1>2, <2>2, <2>3, FS_AddElement
  <2>5. Cardinality(ahead[r] \cup {r}) <= Cardinality(ahead[q])
    BY <1>2, <2>3, FS_Subset
  <2>6. Less(r) <= Less(q)
    BY <1>5, <1>6
  <2>7. Cardinality(ahead[r]) \in Nat /\ Cardinality(ahead[q]) \in Nat /\ Cardinality(Requests) \in Nat
    BY <1>2, <2>3
  <2> QED BY <2>4, <2>5, <2>6, <2>7
<1> QED BY <1>7

\* Whoever leaves the queue leaves it in order.
LEMMA LeaveKeeps ==
  ASSUME Line, NEW L, Leave(L), Queued' = Queued \ L
  PROVE  Line'
<1>1. \A r \in Requests : ahead'[r] = IF r \in L THEN {} ELSE ahead[r] \ L
  BY DEF Leave
<1>2. ahead' \in [Requests -> SUBSET Requests]
  BY DEF Leave, Line
<1>3. \A r \in Queued' : r \in Requests /\ r \in Queued /\ r \notin L /\ ahead'[r] = ahead[r] \ L
  BY <1>1 DEF Queued
<1>4. ASSUME NEW r \in Requests
      PROVE  ahead'[r] \subseteq Queued' /\ (r \notin Queued' => ahead'[r] = {})
  <2>1. ahead[r] \subseteq Queued /\ (r \notin Queued => ahead[r] = {})
    BY DEF Line
  <2>2. CASE r \in L
    BY <1>1, <2>2
  <2>3. CASE r \notin L
    <3>1. ahead'[r] = ahead[r] \ L
      BY <1>1, <2>3
    <3> QED BY <2>1, <2>3, <3>1
  <2> QED BY <2>2, <2>3
<1>5. \A r \in Queued' : r \notin ahead'[r]
  BY <1>3 DEF Line, Before
<1>6. \A q, r \in Queued' : q = r \/ q \in ahead'[r] \/ r \in ahead'[q]
  BY <1>3 DEF Line, Before
<1>7. \A q, r \in Queued' : q \in ahead'[r] => ahead'[q] \subseteq ahead'[r]
  BY <1>3 DEF Line, Before
<1> QED BY <1>2, <1>4, <1>5, <1>6, <1>7 DEF Line, Before

\* Whoever joins the queue is behind all that are in it.
LEMMA StandKeeps ==
  ASSUME Placed, Line, NEW r \in Requests, r \notin Queued, NEW p \in Queueing, Stand(r, p)
  PROVE  Line'
<1>1. Queued' = Queued \cup {r}
  BY DEF Queued, Stand, Queueing
<1>2. ahead' = [ahead EXCEPT ![r] = Queued] /\ ahead'[r] = Queued
  BY DEF Stand, Line
<1>3. \A q \in Requests \ {r} : ahead'[q] = ahead[q] /\ ahead[q] \subseteq Queued
  BY <1>2 DEF Line
<1>4. ahead' \in [Requests -> SUBSET Requests]
  BY <1>2 DEF Line, Queued
<1>5. \A q \in Requests : ahead'[q] \subseteq Queued' /\ (q \notin Queued' => ahead'[q] = {})
  BY <1>1, <1>2, <1>3 DEF Line
<1>6. \A q \in Queued : q \in Requests \ {r}
  BY DEF Queued
<1>7. \A q \in Queued' : q \notin ahead'[q]
  BY <1>1, <1>2, <1>3, <1>6 DEF Line, Before
<1>8. \A q, x \in Queued' : q = x \/ q \in ahead'[x] \/ x \in ahead'[q]
  BY <1>1, <1>2, <1>3, <1>6 DEF Line, Before
<1>9. \A q, x \in Queued' : q \in ahead'[x] => ahead'[q] \subseteq ahead'[x]
  <2> SUFFICES ASSUME NEW q \in Queued', NEW x \in Queued', q \in ahead'[x] PROVE ahead'[q] \subseteq ahead'[x]
    OBVIOUS
  <2>1. q \in Queued /\ q # r
    BY <1>1, <1>2, <1>3, <1>6
  <2>2. CASE x = r
    BY <1>2, <1>3, <1>6, <2>1, <2>2
  <2>3. CASE x # r
    BY <1>1, <1>3, <1>6, <2>1, <2>3 DEF Line, Before
  <2> QED BY <2>2, <2>3
<1> QED BY <1>4, <1>5, <1>7, <1>8, <1>9 DEF Line, Before

\* What a scan that follows the release of r is, with the counters as those of tickets.
Scan(r, P, F, G) ==
  /\ G \subseteq Waiters(place) /\ F \subseteq Waiters(place)
  /\ held' = (held \ {r}) \cup G
  /\ place' = Scanned(G, F, P)
  /\ \A q \in Waiters(place) : q \in G \cup F <=> Fits(q, CountsOf((held \ {r}) \cup {x \in G : Before(x, q)}))

\* Every scan is one.
LEMMA ScanOf ==
  ASSUME GateInv, NEW r \in held, NEW P \in [Requests -> Places],
         \A q \in Requests \ {r} : P[q] = place[q],
         P[r] \in {"running", "over", "parked"}, Free(r, P)
  PROVE  \E F, G : Scan(r, P, F, G)
<1> DEFINE H == held \ {r}
<1>1. PICK F \in SUBSET Waiters(P) : \E G \in SUBSET (Waiters(P) \ F) :
        /\ Wakes(Waiters(P), G, F, Minus(active, r), P)
        /\ place' = Scanned(G, F, P) /\ held' = H \cup G
  BY DEF Free
<1>2. PICK G \in SUBSET (Waiters(P) \ F) :
        /\ Wakes(Waiters(P), G, F, Minus(active, r), P)
        /\ place' = Scanned(G, F, P) /\ held' = H \cup G
  BY <1>1
<1>3. r \in Requests /\ place[r] \in {"running", "over"}
  BY DEF GateInv, NoSlotLost, LateReleases
<1>4. Waiters(P) = Waiters(place)
  BY <1>3 DEF Waiters
<1>5. \A q \in held : q \notin Waiters(place)
  BY DEF Waiters, GateInv, NoSlotLost, LateReleases
<1>6. G \in SUBSET Requests /\ H \in SUBSET Requests /\ H \cap G = {} /\ F \in SUBSET Requests
  BY <1>4, <1>5 DEF Waiters, GateInv
<1>7. Minus(active, r) = CountsOf(H)
  <2>1. active = CountsOf(held) /\ held \in SUBSET Requests
    BY DEF GateInv, Counted, CountsOf
  <2> QED BY <2>1, MinusCounts
<1>8. ASSUME NEW q \in Waiters(place)
      PROVE  q \in G \cup F <=> Fits(q, CountsOf(H \cup {x \in G : Before(x, q)}))
  <2> DEFINE B == {x \in G : Before(x, q)}
  <2>1. B \in SUBSET Requests /\ H \cap B = {}
    BY <1>6
  <2>2. Plus(CountsOf(H), B) = CountsOf(H \cup B)
    BY <1>6, <2>1, PlusCounts
  <2>3. q \in G \cup F <=> Fits(q, Plus(CountsOf(H), B))
    BY <1>2, <1>4, <1>7 DEF Wakes
  <2> QED BY <2>2, <2>3
<1> QED BY <1>2, <1>4, <1>8 DEF Scan

\* The scan takes from the queue those it grants or refuses, and those discarded.
LEMMA FreeLine ==
  ASSUME GateInv, Line, NEW r \in held, NEW P \in [Requests -> Places],
         \A q \in Requests \ {r} : P[q] = place[q],
         P[r] \in {"running", "over", "parked"}, Free(r, P)
  PROVE  Line'
<1>1. PICK F \in SUBSET Waiters(P) : \E G \in SUBSET (Waiters(P) \ F) :
        /\ place' = Scanned(G, F, P)
        /\ Leave(G \cup F \cup {q \in Requests : P[q] = "stale"})
  BY DEF Free
<1>2. PICK G \in SUBSET (Waiters(P) \ F) :
        /\ place' = Scanned(G, F, P)
        /\ Leave(G \cup F \cup {q \in Requests : P[q] = "stale"})
  BY <1>1
<1>3. r \in Requests /\ place[r] \notin Queueing
  BY DEF GateInv, NoSlotLost, LateReleases, Queueing
<1> DEFINE L == G \cup F \cup {q \in Requests : P[q] = "stale"}
<1>4. \A q \in Requests : P[q] \in Queueing <=> q \in Queued
  BY <1>3 DEF Queued, Queueing
<1>5. \A q \in Requests : place'[q] \in Queueing <=> P[q] \in Queueing /\ q \notin L
  BY <1>2 DEF Scanned, Queueing
<1>6. Queued' = Queued \ L
  BY <1>4, <1>5 DEF Queued
<1> QED BY <1>2, <1>6, LeaveKeeps

\* The order of the queue survives every operation.
LEMMA LineStep == GateInv /\ Line /\ [Next]_vars => Line'
<1> SUFFICES ASSUME GateInv, Line, [Next]_vars PROVE Line'
  OBVIOUS
<1>1. ASSUME UNCHANGED <<place, ahead>> PROVE Line'
  BY <1>1 DEF Line, Queued, Before
<1>2. CASE UNCHANGED vars
  BY <1>1, <1>2 DEF vars
<1>3. CASE Restart
  <2>1. Queued' = {} /\ ahead' = [r \in Requests |-> {}]
    BY <1>3 DEF Restart, Queued, Queueing
  <2> QED BY <2>1 DEF Line, Before
<1>4. ASSUME NEW r \in Requests, NEW p \in Places \ Queueing, place[r] \notin Queueing,
             place' = [place EXCEPT ![r] = p], ahead' = ahead
      PROVE  Line'
  <2>1. Queued' = Queued
    BY <1>4 DEF Queued, GateInv
  <2> QED BY <1>4, <2>1 DEF Line, Before
<1>5. ASSUME NEW r \in Requests, NEW p \in Places \ Queueing, Go(r, p)
      PROVE  Line'
  <2>1. p # "stale" /\ place' = [place EXCEPT ![r] = p] /\ Leave({r})
    BY <1>5 DEF Go, Queueing
  <2>2. Queued' = Queued \ {r}
    BY <1>5, <2>1 DEF Queued, GateInv
  <2> QED BY <2>1, <2>2, LeaveKeeps
<1>6. ASSUME NEW r \in Requests, place[r] = "resuming", Go(r, "stale")
      PROVE  Line'
  <2>1. Queued' = Queued /\ ahead' = ahead
    BY <1>6 DEF Queued, GateInv, Go, Queueing
  <2> QED BY <2>1 DEF Line, Before
<1>7. ASSUME NEW r \in Requests, Acquire(r) \/ Resume(r) \/ AcquireUnsaved(r) \/ ResumeUnsaved(r)
      PROVE  Line'
  <2>1. CASE Acquire(r) \/ Resume(r)
    BY <1>4, <2>1 DEF Acquire, Resume, Start, Places, Queueing
  <2>2. CASE AcquireUnsaved(r)
    BY <1>4, <2>2 DEF AcquireUnsaved, Places, Queueing
  <2>3. CASE ResumeUnsaved(r)
    BY <1>1, <2>3 DEF ResumeUnsaved
  <2> QED BY <1>7, <2>1, <2>2, <2>3
<1>8. ASSUME NEW r \in Requests, AcquireWaits(r) \/ ResumeWaits(r)
      PROVE  Line'
  <2>1. r \notin Queued /\ \E p \in {"waiting", "resuming"} : Stand(r, p)
    BY <1>8 DEF AcquireWaits, ResumeWaits, Queued, Queueing
  <2> QED BY <2>1, StandKeeps DEF GateInv, Queueing
<1>9. ASSUME NEW r \in Requests, NEW to \in {"over", "parked"}, GiveBack(r, to)
      PROVE  Line'
  BY <1>9, FreeLine DEF GiveBack, GateInv, Places
<1>10. ASSUME NEW r \in Requests, NEW to \in {"over", "running"}, Unsaved(r, to)
       PROVE  Line'
  BY <1>4, <1>10 DEF Unsaved, Places, Queueing
<1>11. ASSUME NEW r \in Requests, Retry(r)
       PROVE  Line'
  BY <1>11, FreeLine DEF Retry, GateInv, LateReleases
<1>12. ASSUME NEW r \in Requests, TurnAway(r) \/ Abort(r) \/ ResumeTurnedAway(r) \/ AbortResume(r) \/ Discard(r)
       PROVE  Line'
  <2>1. "over" \in Places \ Queueing
    BY DEF Places, Queueing
  <2>2. Go(r, "over") \/ (place[r] = "resuming" /\ Go(r, "stale"))
    BY <1>12 DEF TurnAway, Abort, ResumeTurnedAway, AbortResume, Discard
  <2> QED BY <1>5, <1>6, <2>1, <2>2
<1>13. ASSUME NEW r \in Requests, Release(r) \/ Park(r)
       PROVE  Line'
  BY <1>5, <1>9, <1>10, <1>13 DEF Release, Park, GiveBackAgain, Places, Queueing
<1> QED BY <1>2, <1>3, <1>7, <1>8, <1>11, <1>12, <1>13 DEF Next

\* The tickets that are out, in the numbers the limits are about.
LEMMA Numbers ==
  ASSUME NEW S \in SUBSET Requests
  PROVE  /\ Cardinality(S) = CountsOf(S)["interactive"] + CountsOf(S)["background"]
         /\ CountsOf(S)["interactive"] \in Nat /\ CountsOf(S)["background"] \in Nat
         /\ CountsOf(S)["background"] = Cardinality(CountedBy("background", S))
         /\ \A l \in Lanes : CountsOf(S)[l] = Cardinality(CountedBy(l, S)) /\ CountsOf(S)[l] \in Nat
<1> DEFINE I == CountedBy("interactive", S)
           B == CountedBy("background", S)
<1>1. "interactive" \in Counters /\ "background" \in Counters /\ \A l \in Lanes : l \in Counters
  BY DEF Counters, Priorities
<1>2. "interactive" \notin Lanes /\ "background" \notin Lanes
  BY DEF Priorities
<1>3. \A q \in Requests : Lane[q] \in Lanes /\ Priority[q] \in {"interactive", "background"}
  BY DEF Priorities
<1>4. S = I \cup B /\ I \cap B = {}
  BY <1>2, <1>3 DEF CountedBy
<1>5. Cardinality(I) \in Nat /\ Cardinality(B) \in Nat /\ IsFiniteSet(I) /\ IsFiniteSet(B)
  BY CountedFinite
<1>6. Cardinality(I \cup B) = Cardinality(I) + Cardinality(B) - Cardinality(I \cap B)
  BY <1>5, FS_Union
<1>7. Cardinality(I \cap B) = 0
  BY <1>4, FS_EmptySet
<1>8. CountsOf(S)["interactive"] = Cardinality(I) /\ CountsOf(S)["background"] = Cardinality(B)
  BY <1>1 DEF CountsOf
<1>9. \A l \in Lanes : CountsOf(S)[l] = Cardinality(CountedBy(l, S)) /\ CountsOf(S)[l] \in Nat
  BY <1>1, CountedFinite DEF CountsOf
<1> HIDE DEF I, B
<1>10. Cardinality(S) = Cardinality(I) + Cardinality(B)
  BY <1>4, <1>5, <1>6, <1>7
<1> QED BY <1>5, <1>8, <1>9, <1>10 DEF B

\* One that fits with the others of a counter out is within the limit with them.
LEMMA AddWithin ==
  ASSUME NEW S \in SUBSET Requests, NEW r \in Requests, r \notin S, Fits(r, CountsOf(S))
  PROVE  /\ Cardinality(S \cup {r}) <= GlobalMax
         /\ Priority[r] = "background" => Cardinality(CountedBy("background", S \cup {r})) <= BackgroundMax
         /\ Cardinality(CountedBy(Lane[r], S \cup {r})) <= LaneMax[Lane[r]]
<1>1. IsFiniteSet(S) /\ Cardinality(S) \in Nat
  BY FS_Subset, FS_CardinalityType
<1>2. Cardinality(S \cup {r}) = Cardinality(S) + 1
  BY <1>1, FS_AddElement
<1>3. GlobalMax \in Nat /\ BackgroundMax \in Nat /\ Lane[r] \in Lanes /\ LaneMax[Lane[r]] \in Nat
  BY PolicyAssumption
<1>4. Cardinality(S) < GlobalMax
  BY Numbers DEF Fits
<1>5. ASSUME NEW c \in {Lane[r], Priority[r]}
      PROVE  Cardinality(CountedBy(c, S \cup {r})) = Cardinality(CountedBy(c, S)) + 1
  <2>1. CountedBy(c, S \cup {r}) = CountedBy(c, S) \cup {r} /\ r \notin CountedBy(c, S)
    BY DEF CountedBy
  <2> QED BY <2>1, CountedFinite, FS_AddElement
<1>6. Cardinality(CountedBy(Lane[r], S)) < LaneMax[Lane[r]] /\ Cardinality(CountedBy(Lane[r], S)) \in Nat
  BY <1>3, Numbers, CountedFinite DEF Fits
<1>7. Priority[r] = "background" =>
        Cardinality(CountedBy("background", S)) < BackgroundMax /\ Cardinality(CountedBy("background", S)) \in Nat
  BY Numbers, CountedFinite DEF Fits
<1> QED BY <1>1, <1>2, <1>3, <1>4, <1>5, <1>6, <1>7

\* Where the held tickets only became fewer the limits stand.
LEMMA FewerWithin ==
  ASSUME held \subseteq Requests, WithinLimits, NEW S \in SUBSET held
  PROVE  /\ Cardinality(S) <= GlobalMax
         /\ Cardinality(CountedBy("background", S)) <= BackgroundMax
         /\ \A l \in Lanes : Cardinality(CountedBy(l, S)) <= LaneMax[l]
<1>1. IsFiniteSet(held) /\ Cardinality(held) \in Nat /\ Cardinality(S) \in Nat /\ Cardinality(S) <= Cardinality(held)
  BY FS_Subset, FS_CardinalityType
<1>2. \A c : /\ Cardinality(CountedBy(c, S)) <= Cardinality(CountedBy(c, held))
             /\ Cardinality(CountedBy(c, S)) \in Nat /\ Cardinality(CountedBy(c, held)) \in Nat
  BY CountedMonotone, CountedFinite
<1>3. GlobalMax \in Nat /\ BackgroundMax \in Nat /\ \A l \in Lanes : LaneMax[l] \in Nat
  BY PolicyAssumption
<1> QED BY <1>1, <1>2, <1>3 DEF WithinLimits

\* No limit is passed by a scan: the last that it grants of those a limit is
\* about was judged with all the others already counted.
LEMMA ScanWithin ==
  ASSUME GateInv, Line, WithinLimits, NEW H \in SUBSET held, NEW G \in SUBSET Waiters(place),
         \A q \in G : Fits(q, CountsOf(H \cup {x \in G : Before(x, q)})),
         held' = H \cup G
  PROVE  WithinLimits'
<1>1. G \in SUBSET Queued /\ G \in SUBSET Requests /\ H \in SUBSET Requests /\ held \subseteq Requests
  BY DEF Waiters, Queued, Queueing, GateInv
<1>2. G \cap H = {}
  BY DEF GateInv, NoSlotLost, LateReleases, Waiters
<1> DEFINE Ahead(r) == H \cup {x \in G : Before(x, r)}
<1>3. \A r \in G : Ahead(r) \in SUBSET Requests /\ r \notin Ahead(r)
  BY <1>1, <1>2 DEF Line
<1>4. ASSUME NEW T \in SUBSET G, T # {}
      PROVE  \E r \in T : T \subseteq Ahead(r) \cup {r}
  <2>1. T \in SUBSET Queued
    BY <1>1
  <2>2. PICK r \in T : \A q \in T \ {r} : Before(q, r)
    BY <1>4, <2>1, LastOf
  <2> QED BY <2>2
<1>5. Cardinality(held') <= GlobalMax
  <2>1. CASE G = {}
    BY <1>1, <2>1, FewerWithin
  <2>2. CASE G # {}
    <3>1. PICK r \in G : G \subseteq Ahead(r) \cup {r}
      BY <1>4, <2>2
    <3>2. held' = Ahead(r) \cup {r}
      BY <3>1
    <3> QED BY <1>1, <1>3, <3>2, AddWithin
  <2> QED BY <2>1, <2>2
<1>6. ASSUME NEW c, CountedBy(c, G) # {}
      PROVE  \E r \in G : c \in {Lane[r], Priority[r]} /\ CountedBy(c, held') = CountedBy(c, Ahead(r) \cup {r})
  <2>1. CountedBy(c, G) \in SUBSET G
    BY DEF CountedBy
  <2>2. PICK r \in CountedBy(c, G) : CountedBy(c, G) \subseteq Ahead(r) \cup {r}
    BY <1>4, <1>6, <2>1
  <2>3. CountedBy(c, held') = CountedBy(c, Ahead(r) \cup {r})
    BY <2>1, <2>2 DEF CountedBy
  <2>4. r \in G /\ c \in {Lane[r], Priority[r]}
    BY <2>2 DEF CountedBy
  <2> QED BY <2>3, <2>4
<1>7. ASSUME NEW c, CountedBy(c, G) = {}
      PROVE  CountedBy(c, held') = CountedBy(c, H)
  BY <1>7 DEF CountedBy
<1>8. Cardinality(CountedBy("background", held')) <= BackgroundMax
  <2>1. CASE CountedBy("background", G) = {}
    BY <1>1, <1>7, <2>1, FewerWithin
  <2>2. CASE CountedBy("background", G) # {}
    <3>1. PICK r \in G : /\ "background" \in {Lane[r], Priority[r]}
                         /\ CountedBy("background", held') = CountedBy("background", Ahead(r) \cup {r})
      BY <1>6, <2>2
    <3>2. Priority[r] = "background"
      BY <1>1, <3>1 DEF Priorities
    <3> QED BY <1>1, <1>3, <3>1, <3>2, AddWithin
  <2> QED BY <2>1, <2>2
<1>9. ASSUME NEW l \in Lanes PROVE Cardinality(CountedBy(l, held')) <= LaneMax[l]
  <2>1. CASE CountedBy(l, G) = {}
    BY <1>1, <1>7, <2>1, FewerWithin
  <2>2. CASE CountedBy(l, G) # {}
    <3>1. PICK r \in G : l \in {Lane[r], Priority[r]} /\ CountedBy(l, held') = CountedBy(l, Ahead(r) \cup {r})
      BY <1>6, <2>2
    <3>2. Lane[r] = l
      BY <1>1, <3>1 DEF Priorities
    <3> QED BY <1>1, <1>3, <3>1, <3>2, AddWithin
  <2> QED BY <2>1, <2>2
<1> QED BY <1>5, <1>8, <1>9 DEF WithinLimits

\* No operation passes a limit.
LEMMA LimitsStep == GateInv /\ Line /\ WithinLimits /\ [Next]_vars => WithinLimits'
<1> SUFFICES ASSUME GateInv, Line, WithinLimits, [Next]_vars PROVE WithinLimits'
  OBVIOUS
<1>1. ASSUME held' = held PROVE WithinLimits'
  BY <1>1 DEF WithinLimits
<1>2. CASE UNCHANGED vars
  BY <1>1, <1>2 DEF vars
<1>3. ASSUME NEW H \in SUBSET held, held' = H PROVE WithinLimits'
  BY <1>3, FewerWithin DEF GateInv, WithinLimits
<1>4. CASE Restart
  BY <1>3, <1>4 DEF Restart
<1>5. ASSUME NEW r \in Requests, Acquire(r) \/ Resume(r)
      PROVE  WithinLimits'
  <2>1. place[r] \in {"new", "parked"} /\ Fits(r, active) /\ held' = held \cup {r}
    BY <1>5 DEF Acquire, Resume, Start
  <2>2. r \notin held /\ held \in SUBSET Requests /\ active = CountsOf(held)
    BY <2>1 DEF GateInv, NoSlotLost, LateReleases, Counted, CountsOf
  <2>3. /\ Cardinality(held') <= GlobalMax
        /\ Priority[r] = "background" => Cardinality(CountedBy("background", held')) <= BackgroundMax
        /\ Cardinality(CountedBy(Lane[r], held')) <= LaneMax[Lane[r]]
    BY <2>1, <2>2, AddWithin
  <2>4. \A c : c \notin {Lane[r], Priority[r]} => CountedBy(c, held') = CountedBy(c, held)
    BY <2>1 DEF CountedBy
  <2>5. Lane[r] # "background"
    BY DEF Priorities
  <2>6. Cardinality(CountedBy("background", held')) <= BackgroundMax
    BY <2>3, <2>4, <2>5 DEF WithinLimits
  <2>7. \A l \in Lanes : Cardinality(CountedBy(l, held')) <= LaneMax[l]
    BY <2>3, <2>4 DEF WithinLimits, Priorities
  <2> QED BY <2>3, <2>6, <2>7 DEF WithinLimits
<1>6. ASSUME NEW r \in held, NEW P \in [Requests -> Places], \A q \in Requests \ {r} : P[q] = place[q],
             P[r] \in {"running", "over", "parked"}, Free(r, P)
      PROVE  WithinLimits'
  <2>1. PICK F, G : Scan(r, P, F, G)
    BY <1>6, ScanOf
  <2>2. held' = (held \ {r}) \cup G
    BY <2>1 DEF Scan
  <2>3. G \in SUBSET Waiters(place) /\ (held \ {r}) \in SUBSET held
    BY <2>1 DEF Scan
  <2>4. \A q \in G : Fits(q, CountsOf((held \ {r}) \cup {x \in G : Before(x, q)}))
    BY <2>1, <2>3 DEF Scan
  <2> QED BY <2>2, <2>3, <2>4, ScanWithin
<1>7. ASSUME NEW r \in Requests, NEW to \in {"over", "parked"}, GiveBack(r, to)
      PROVE  WithinLimits'
  BY <1>6, <1>7 DEF GiveBack, GateInv, Places
<1>8. ASSUME NEW r \in Requests, Retry(r)
      PROVE  WithinLimits'
  BY <1>6, <1>8 DEF Retry, GateInv, LateReleases
<1>9. ASSUME NEW r \in Requests, AcquireWaits(r) \/ ResumeWaits(r) \/ AcquireUnsaved(r) \/ ResumeUnsaved(r)
      PROVE  WithinLimits'
  BY <1>1, <1>9 DEF AcquireWaits, ResumeWaits, AcquireUnsaved, ResumeUnsaved, Stand
<1>10. ASSUME NEW r \in Requests, TurnAway(r) \/ Abort(r) \/ ResumeTurnedAway(r) \/ AbortResume(r) \/ Discard(r)
       PROVE  WithinLimits'
  BY <1>1, <1>10 DEF TurnAway, Abort, ResumeTurnedAway, AbortResume, Discard, Go
<1>11. ASSUME NEW r \in Requests, Release(r) \/ Park(r)
       PROVE  WithinLimits'
  BY <1>1, <1>7, <1>11 DEF Release, Park, GiveBackAgain, Unsaved, Go
<1> QED BY <1>2, <1>4, <1>5, <1>8, <1>9, <1>10, <1>11 DEF Next

\* The bounds of the model on failures and restarts are kept.
LEMMA BoundsStep == GateInv /\ Bounded /\ [Next]_vars => Bounded'
<1> SUFFICES ASSUME GateInv, Bounded, [Next]_vars PROVE Bounded'
  OBVIOUS
<1>1. CASE UNCHANGED <<faults, crashes>>
  BY <1>1 DEF Bounded
<1>2. CASE Fault(1) /\ crashes' = crashes
  BY <1>2, PolicyAssumption DEF Bounded, Fault
<1>3. CASE Restart
  BY <1>3, PolicyAssumption DEF Bounded, Restart
<1>4. ASSUME NEW r, NEW P, Free(r, P), crashes' = crashes
      PROVE  Bounded'
  <2>1. PICK F \in SUBSET Waiters(P) : Fault(Cardinality(F))
    BY <1>4 DEF Free
  <2>2. F \in SUBSET Requests
    BY DEF Waiters
  <2>3. Cardinality(F) \in Nat
    BY <2>2, FS_Subset, FS_CardinalityType
  <2> QED BY <1>4, <2>1, <2>3, PolicyAssumption DEF Bounded, Fault
<1>5. ASSUME NEW r \in Requests, Release(r) \/ Park(r) \/ Retry(r)
      PROVE  Bounded'
  BY <1>1, <1>2, <1>4, <1>5 DEF Release, Park, Retry, GiveBack, GiveBackAgain, Unsaved, Go
<1>6. ASSUME NEW r \in Requests, \/ Acquire(r) \/ AcquireWaits(r) \/ TurnAway(r) \/ AcquireUnsaved(r) \/ Abort(r)
                                 \/ Resume(r) \/ ResumeWaits(r) \/ ResumeTurnedAway(r) \/ ResumeUnsaved(r)
                                 \/ AbortResume(r) \/ Discard(r)
      PROVE  Bounded'
  BY <1>1, <1>2, <1>6 DEF Acquire, AcquireWaits, TurnAway, AcquireUnsaved, Abort, Resume, ResumeWaits,
                          ResumeTurnedAway, ResumeUnsaved, AbortResume, Discard, Go, Stand
<1>7. CASE UNCHANGED vars
  BY <1>1, <1>7 DEF vars
<1> QED BY <1>3, <1>5, <1>6, <1>7 DEF Next

\* All of it holds in every state the gate reaches.
LEMMA QueueAlways == Spec => []QueueInv
<1>1. Init => QueueInv
  <2> SUFFICES ASSUME Init PROVE QueueInv
    OBVIOUS
  <2>1. Queued = {}
    BY DEF Init, Queued, Queueing
  <2>2. Line
    BY <2>1 DEF Line, Init, Before
  <2>3. \A c : CountedBy(c, {}) = {}
    BY DEF CountedBy
  <2>4. WithinLimits
    BY <2>3, FS_EmptySet, PolicyAssumption DEF Init, WithinLimits
  <2> QED BY <2>2, <2>4, InitInv, PolicyAssumption DEF QueueInv, Init, Bounded
<1>2. QueueInv /\ [Next]_vars => QueueInv'
  BY StepInv, LineStep, LimitsStep, BoundsStep DEF QueueInv
<1> QED BY <1>1, <1>2, PTL DEF Spec

\* The gate keeps its type: who is queued and who is ahead of whom included.
THEOREM GateTyped == Spec => []TypeOK
<1>1. QueueInv => TypeOK
  <2> SUFFICES ASSUME QueueInv PROVE TypeOK
    OBVIOUS
  <2>1. \A c \in Counters : Cardinality(CountedBy(c, held)) \in Int
    BY CountedFinite DEF QueueInv, GateInv
  <2>2. active \in [Counters -> Int] /\ disk \in [Counters -> Int]
    BY <2>1 DEF QueueInv, GateInv, Counted
  <2> QED BY <2>2 DEF QueueInv, GateInv, Line, Bounded, TypeOK
<1> QED BY <1>1, QueueAlways, PTL

\* The tickets that are out never exceed the limit of the program, of the
\* background or of a lane, though a scan grants several slots in one step.
THEOREM LimitsHold == Spec => []WithinLimits
<1>1. QueueInv => WithinLimits
  BY DEF QueueInv
<1> QED BY <1>1, QueueAlways, PTL

\* A request that fits leaves its like no reason not to fit with as many or fewer.
LEMMA LikeFits ==
  ASSUME NEW q \in Requests, NEW r \in Requests, Alike(q, r),
         NEW S \in SUBSET Requests, NEW T \in SUBSET S, Fits(r, CountsOf(S))
  PROVE  Fits(q, CountsOf(T))
<1>1. Fits(r, CountsOf(T))
  BY FitsFewer
<1> QED BY <1>1 DEF Fits, Alike

\* Nobody overtakes its like: a slot that a later one could have the earlier
\* was offered first, in the scan, and beside the queue there is none to have.
LEMMA OvertakeStep ==
  ASSUME GateInv, Line, [Next]_vars, NEW q \in Waiters(place), NEW r \in Requests,
         Alike(q, r), place[r] # "running", place'[r] = "running", r \in Queued => Before(q, r)
  PROVE  place'[q] \notin {"waiting", "resuming"}
<1> USE DEF GateInv
<1>1. q \in Requests /\ q \in Queued /\ place[q] \in {"waiting", "resuming"}
  BY DEF Waiters, Queued, Queueing
<1>2. ASSUME NEW x \in Requests, NEW p, place' = [place EXCEPT ![x] = p], p # "running" \/ place[x] = "running"
      PROVE  FALSE
  BY <1>2
<1>3. CASE UNCHANGED vars
  BY <1>3 DEF vars
<1>4. CASE Restart
  BY <1>4 DEF Restart
<1>5. ASSUME NEW x \in Requests, Acquire(x) \/ Resume(x)
      PROVE  FALSE
  <2>1. x = r /\ Fits(r, active)
    BY <1>5 DEF Acquire, Resume, Start
  <2>2. ~Fits(q, active)
    BY DEF NobodyIdles
  <2> QED BY <2>1, <2>2 DEF Fits, Alike
<1>6. ASSUME NEW x \in held, NEW P \in [Requests -> Places], \A y \in Requests \ {x} : P[y] = place[y],
             P[x] \in {"running", "over", "parked"}, P[x] = "running" => place[x] = "running", Free(x, P)
      PROVE  place'[q] \notin {"waiting", "resuming"}
  <2> SUFFICES ASSUME place'[q] \in {"waiting", "resuming"} PROVE FALSE
    OBVIOUS
  <2> DEFINE H == held \ {x}
  <2>1. PICK F, G : Scan(x, P, F, G)
    BY <1>6, ScanOf
  <2>3. q \notin G /\ q \notin F
    BY <1>1, <2>1 DEF Scan, Scanned
  <2>4. r \in G
    BY <1>6, <2>1 DEF Scan, Scanned
  <2>5. r \in Waiters(place) /\ r \in Queued /\ G \in SUBSET Requests
    BY <2>1, <2>4 DEF Scan, Waiters, Queued, Queueing
  <2>6. ahead[q] \subseteq ahead[r]
    BY <1>1, <2>5 DEF Line
  <2> DEFINE S == H \cup {z \in G : Before(z, r)}
             T == H \cup {z \in G : Before(z, q)}
  <2>7. S \in SUBSET Requests /\ T \in SUBSET S
    BY <2>5, <2>6 DEF Before
  <2>8. Fits(r, CountsOf(S)) /\ ~Fits(q, CountsOf(T))
    BY <2>1, <2>3, <2>4, <2>5 DEF Scan
  <2> QED BY <1>1, <2>7, <2>8, LikeFits
<1>7. ASSUME NEW x \in Requests, NEW to \in {"over", "parked"}, GiveBack(x, to)
      PROVE  place'[q] \notin {"waiting", "resuming"}
  BY <1>6, <1>7 DEF GiveBack, Places
<1>8. ASSUME NEW x \in Requests, Retry(x)
      PROVE  place'[q] \notin {"waiting", "resuming"}
  BY <1>6, <1>8 DEF Retry, LateReleases
<1>9. ASSUME NEW x \in Requests, NEW p \in {"over", "parked", "stale"}, Go(x, p)
      PROVE  FALSE
  BY <1>2, <1>9 DEF Go
<1>10. ASSUME NEW x \in Requests, NEW p \in {"over", "running"}, Unsaved(x, p)
       PROVE  FALSE
  BY <1>2, <1>10 DEF Unsaved
<1>11. ASSUME NEW x \in Requests, AcquireWaits(x) \/ ResumeWaits(x) \/ AcquireUnsaved(x) \/ ResumeUnsaved(x)
       PROVE  FALSE
  BY <1>2, <1>11 DEF AcquireWaits, ResumeWaits, AcquireUnsaved, ResumeUnsaved, Stand
<1>12. ASSUME NEW x \in Requests, TurnAway(x) \/ Abort(x) \/ ResumeTurnedAway(x) \/ AbortResume(x) \/ Discard(x)
       PROVE  FALSE
  BY <1>9, <1>12 DEF TurnAway, Abort, ResumeTurnedAway, AbortResume, Discard
<1>13. ASSUME NEW x \in Requests, Release(x) \/ Park(x)
       PROVE  place'[q] \notin {"waiting", "resuming"}
  BY <1>7, <1>9, <1>10, <1>13 DEF Release, Park, GiveBackAgain
<1> QED BY <1>3, <1>4, <1>5, <1>8, <1>11, <1>12, <1>13 DEF Next

\* Of two requests of one lane and priority the later never gets a slot while
\* the earlier goes on waiting, whoever of them waits to start or to come back.
THEOREM NobodyOvertakes == Spec => NoOvertaking
<1>1. ASSUME QueueInv, [Next]_vars
      PROVE  [\A q \in Waiters(place), r \in Requests :
                /\ Alike(q, r) /\ place[r] # "running" /\ place'[r] = "running"
                /\ r \in Queued => Before(q, r)
                => place'[q] \notin {"waiting", "resuming"}]_vars
  BY <1>1, OvertakeStep DEF QueueInv
<1> QED BY <1>1, QueueAlways, PTL DEF Spec, NoOvertaking
=============================================================================
