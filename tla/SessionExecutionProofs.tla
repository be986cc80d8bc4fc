----------------------- MODULE SessionExecutionProofs -----------------------
(***************************************************************************)
(* The execution of a session, for any number of turns, crashes and        *)
(* failures: its lease, its transcript and its recovery. The invariant is  *)
(* about a database d, the places A of the turns, the versions B they were *)
(* read at, the registry a, and f failures and c crashes, so that it can   *)
(* be stated of what a recovery leaves between two transactions.           *)
(***************************************************************************)
EXTENDS SessionExecution, TLAPS

Typed(d, A, B, a, f, c) ==
  /\ A \in [Turns -> Holding \cup {"new", "waiting", "gone"}]
  /\ B \in [Turns -> Nat] /\ a \in BOOLEAN /\ d \in Databases
  /\ f \in 0..MaxFaults /\ c \in 0..MaxCrashes

\* LeaseStands, and what it needs: who holds the session has its claim, and
\* rows and claim agree.
Allowed(s) ==
  CASE s = "claimed" -> {"claimed"}
    [] s = "executing" -> {"executing"}
    [] s = "settled" -> {"executing", "committed"}
    [] s = "closing" -> {"claimed", "executing", "committed"}
    [] s = "keeping" -> {"executing", "committed", "uncertain"}
Leased(d, A, a) ==
  \A t \in Turns : A[t] \in Holding => a /\ d.claim.turn = t /\ d.claim.status \in Allowed(A[t])
Agreed(d) ==
  /\ \A t \in Turns : d.row[t] \notin {"none", "queued"} => d.claim = [turn |-> t, status |-> d.row[t]]
  /\ d.claim.status # "queued" => d.claim.turn \in Turns /\ d.row[d.claim.turn] = d.claim.status
  /\ d.claim.status = "queued" => d.claim = Free
Left(d, A, f, c) == \A t \in Turns : d.row[t] = "queued" /\ A[t] # "waiting" => c + f > 0

\* A turn that has not started has left nothing.
Fresh(d, A) ==
  /\ \A t \in Turns : A[t] = "new" => d.row[t] = "none"
  /\ \A t \in Turns : A[t] \in {"new", "waiting", "claimed"} => d.hist[t] = "none"
  /\ d.claim.status = "claimed" => d.hist[d.claim.turn] = "none"
  /\ d.claim.status # "queued" => A[d.claim.turn] \in Holding \cup {"gone"}

Fits(d, t, f) ==
  \/ d.hist[t] \in {"none", "plain"} \/ Has(d, t)
  \/ d.hist[t] \in {"parked", "failed"} /\ f > 1

\* A turn that can still commit has the version of the session.
Versioned(d, A, B, f) ==
  /\ \A t \in Turns : A[t] \in {"claimed", "executing"} => ~Blocked(d) /\ ~Has(d, t)
  /\ \A t \in Turns : A[t] \in {"claimed", "executing", "settled"} /\ ~Has(d, t) => d.ckpt.version = B[t]
  /\ \A t \in Turns : A[t] = "closing" => Fits(d, t, f)

\* An uncertain session waits for the turn that has the claim; what that turn
\* has committed is the version of the session.
Uncertain(d) ==
  /\ Blocked(d) => d.claim = [turn |-> d.ckpt.last, status |-> "uncertain"]
  /\ \A r \in d.receipts : d.claim.status # "queued" /\ r.turn = d.claim.turn => r.version = d.ckpt.version

\* The transcript is what History says, and what is missing there has the claim.
Written(d) ==
  /\ {r.version : r \in d.receipts} = 1..d.ckpt.version
  /\ \A r, s \in d.receipts : (r.version = s.version \/ r.turn = s.turn) => r = s
  /\ \A r \in d.receipts : d.hist[r.turn] = r.kind
Missing(d, f) ==
  \A t \in Turns : /\ ~Fits(d, t, f) => d.claim.turn = t
                   /\ d.hist[t] \in {"parked", "failed"} /\ ~Has(d, t) => f > 0

Inv(d, A, B, a, f, c) ==
  /\ Typed(d, A, B, a, f, c) /\ Leased(d, A, a) /\ Agreed(d) /\ Left(d, A, f, c) /\ Fresh(d, A)
  /\ Versioned(d, A, B, f) /\ Uncertain(d) /\ Written(d) /\ Missing(d, f)

\* The fields of a database have their types.
LEMMA Fields ==
  ASSUME NEW d \in Databases
  PROVE  /\ d.row \in [Turns -> Statuses \cup {"none"}] /\ d.since \in [Turns -> Nat] /\ d.clock \in Nat
         /\ d.claim \in [turn : Turns \cup {None}, status : Statuses]
         /\ d.claim.turn \in Turns \cup {None} /\ d.claim.status \in Statuses
         /\ d.ckpt \in [version : Nat, last : Turns \cup {None}, status : {"none", "ready", "uncertain"}]
         /\ d.ckpt.version \in Nat /\ d.ckpt.last \in Turns \cup {None} /\ d.ckpt.status \in {"none", "ready", "uncertain"}
         /\ d.receipts \in SUBSET [turn : Turns, version : Nat, kind : Terminals]
         /\ d.hist \in [Turns -> Terminals \cup {"none", "open"}]
<1>1. /\ d.row \in [Turns -> Statuses \cup {"none"}] /\ d.since \in [Turns -> Nat] /\ d.clock \in Nat
      /\ d.claim \in [turn : Turns \cup {None}, status : Statuses]
      /\ d.ckpt \in [version : Nat, last : Turns \cup {None}, status : {"none", "ready", "uncertain"}]
      /\ d.receipts \in SUBSET [turn : Turns, version : Nat, kind : Terminals]
      /\ d.hist \in [Turns -> Terminals \cup {"none", "open"}]
  BY DEF Databases
<1>2. d.claim.turn \in Turns \cup {None} /\ d.claim.status \in Statuses
  BY <1>1
<1>3. d.ckpt.version \in Nat /\ d.ckpt.last \in Turns \cup {None} /\ d.ckpt.status \in {"none", "ready", "uncertain"}
  BY <1>1
<1> QED BY <1>1, <1>2, <1>3

\* Letting go of a claim that did not start, or doubting one that did, keeps
\* the invariant while nobody runs the session.
LEMMA StaleKeeps ==
  ASSUME NEW d, NEW A, NEW B, NEW f, NEW c, Inv(d, A, B, FALSE, f, c)
  PROVE  Inv(Stale(d), A, B, FALSE, f, c)
<1> DEFINE e == Stale(d)
           t == d.claim.turn
<1>0. d \in Databases
  BY DEF Inv, Typed
<1>1. \A u \in Turns : A[u] \notin Holding
  BY DEF Inv, Leased
<1>2. CASE d.claim.status = "queued"
  BY <1>2 DEF Stale
<1>3. CASE d.claim.status = "claimed"
  <2>1. t \in Turns /\ d.row[t] = "claimed" /\ ~Blocked(d) /\ d.hist[t] = "none"
    BY <1>3, <1>0, Fields DEF Inv, Agreed, Uncertain, Fresh
  <2>2. e = [d EXCEPT !.claim = Free, !.row[t] = "none"]
    BY <1>3, <2>1 DEF Stale
  <2>3. /\ e \in Databases /\ e.claim = Free /\ e.row = [d.row EXCEPT ![t] = "none"]
        /\ e.ckpt = d.ckpt /\ e.receipts = d.receipts /\ e.hist = d.hist
    <3>1. [d.row EXCEPT ![t] = "none"] \in [Turns -> Statuses \cup {"none"}]
          /\ Free \in [turn : Turns \cup {None}, status : Statuses]
      BY <2>1, <1>0, Fields DEF Free, Statuses
    <3>2. e = [d EXCEPT !.claim = Free, !.row = [d.row EXCEPT ![t] = "none"]]
      BY <2>2, <1>0 DEF Databases
    <3>3. e \in Databases
      BY <3>1, <3>2, <1>0 DEF Databases
    <3> QED BY <3>2, <3>3, <1>0 DEF Databases
  <2>4. Typed(e, A, B, FALSE, f, c) /\ Leased(e, A, FALSE)
    BY <2>3, <1>1 DEF Inv, Typed, Leased
  <2>5. Agreed(e) /\ Left(e, A, f, c) /\ Fresh(e, A)
    BY <2>1, <2>3, <1>0, <1>3, Fields DEF Inv, Agreed, Left, Fresh, Free
  <2>6. Versioned(e, A, B, f) /\ Uncertain(e) /\ Written(e)
    BY <2>1, <2>3, <1>3 DEF Inv, Versioned, Uncertain, Written, Fits, Has, Blocked, Free
  <2>7. Missing(e, f)
    BY <2>1, <2>3 DEF Inv, Missing, Fits, Has
  <2> QED BY <2>4, <2>5, <2>6, <2>7 DEF Inv
<1>4. CASE d.claim.status \notin {"queued", "claimed"}
  <2>1. t \in Turns /\ d.row[t] = d.claim.status /\ d.row[t] \in {"executing", "committed", "uncertain"}
    BY <1>4, <1>0, Fields DEF Inv, Agreed, Statuses
  <2>2. Blocked(d) => d.ckpt.last = t
    BY DEF Inv, Uncertain
  <2>3. e = [d EXCEPT !.claim.status = "uncertain",
                   !.row[t] = IF @ \in {"executing", "committed"} THEN "uncertain" ELSE @,
                   !.ckpt = IF @.status = "uncertain" THEN @ ELSE [@ EXCEPT !.last = t, !.status = "uncertain"]]
    BY <1>4 DEF Stale
  <2>4. /\ e \in Databases /\ e.claim = [turn |-> t, status |-> "uncertain"]
        /\ e.row = [d.row EXCEPT ![t] = "uncertain"]
        /\ e.ckpt = [version |-> d.ckpt.version, last |-> t, status |-> "uncertain"]
        /\ e.receipts = d.receipts /\ e.hist = d.hist
    <3> DEFINE K == [version |-> d.ckpt.version, last |-> t, status |-> "uncertain"]
               C == [turn |-> t, status |-> "uncertain"]
               R == [d.row EXCEPT ![t] = "uncertain"]
    <3>1. /\ R \in [Turns -> Statuses \cup {"none"}]
          /\ C \in [turn : Turns \cup {None}, status : Statuses]
          /\ K \in [version : Nat, last : Turns \cup {None}, status : {"none", "ready", "uncertain"}]
      BY <2>1, <1>0, Fields DEF Statuses
    <3>2. [d.claim EXCEPT !.status = "uncertain"] = C
      BY <1>0, Fields
    <3>3. (IF d.ckpt.status = "uncertain" THEN d.ckpt ELSE [d.ckpt EXCEPT !.last = t, !.status = "uncertain"]) = K
      BY <2>2, <1>0, Fields DEF Blocked
    <3>4. [d.row EXCEPT ![t] = IF d.row[t] \in {"executing", "committed"} THEN "uncertain" ELSE d.row[t]] = R
      BY <2>1, <1>0, Fields
    <3>5. e = [d EXCEPT !.claim = C, !.row = R, !.ckpt = K]
      <4>1. e = [d EXCEPT !.claim = [d.claim EXCEPT !.status = "uncertain"],
                          !.row = [d.row EXCEPT ![t] = IF d.row[t] \in {"executing", "committed"} THEN "uncertain" ELSE d.row[t]],
                          !.ckpt = IF d.ckpt.status = "uncertain" THEN d.ckpt ELSE [d.ckpt EXCEPT !.last = t, !.status = "uncertain"]]
        BY <2>3, <1>0 DEF Databases
      <4> QED BY <4>1, <3>2, <3>3, <3>4
    <3> HIDE DEF K, C, R
    <3>6. e \in Databases /\ e.claim = C /\ e.row = R /\ e.ckpt = K /\ e.receipts = d.receipts /\ e.hist = d.hist
      <4>1. e \in Databases
        BY <3>1, <3>5, <1>0 DEF Databases
      <4>2. e.claim = C /\ e.row = R /\ e.ckpt = K
        BY <3>5, <1>0 DEF Databases
      <4>3. e.receipts = d.receipts /\ e.hist = d.hist
        BY <3>5, <1>0 DEF Databases
      <4> QED BY <4>1, <4>2, <4>3
    <3> QED BY <3>6 DEF K, C, R
  <2>5. Typed(e, A, B, FALSE, f, c) /\ Leased(e, A, FALSE)
    BY <2>4, <1>1 DEF Inv, Typed, Leased
  <2>6. Agreed(e) /\ Left(e, A, f, c) /\ Fresh(e, A)
    BY <2>1, <2>4, <1>0, <1>4, Fields DEF Inv, Agreed, Left, Fresh, Free
  <2>7. Versioned(e, A, B, f)
    BY <2>4, <1>1 DEF Inv, Versioned, Fits, Has, Holding
  <2>8. Uncertain(e) /\ Written(e) /\ Missing(e, f)
    BY <2>1, <2>4, <1>4 DEF Inv, Uncertain, Written, Missing, Fits, Has, Blocked
  <2> QED BY <2>5, <2>6, <2>7, <2>8 DEF Inv
<1> QED BY <1>2, <1>3, <1>4

\* A session that waits for its recovery waits for one turn, which has its claim.
LEMMA BlockedBy ==
  ASSUME NEW d, NEW A, NEW B, NEW a, NEW f, NEW c, Inv(d, A, B, a, f, c), Blocked(d)
  PROVE  /\ d.ckpt.last \in Turns /\ d.claim = [turn |-> d.ckpt.last, status |-> "uncertain"]
         /\ d.row[d.ckpt.last] = "uncertain" /\ d.claim.turn = d.ckpt.last /\ d.claim.status = "uncertain"
         /\ A[d.ckpt.last] \in Holding \cup {"gone"}
<1>1. d.claim = [turn |-> d.ckpt.last, status |-> "uncertain"]
  BY DEF Inv, Uncertain
<1>2. d.claim.turn = d.ckpt.last /\ d.claim.status = "uncertain"
  BY <1>1
<1> QED BY <1>1, <1>2 DEF Inv, Agreed, Fresh

\* The end of a turn that a restart cut off keeps the invariant.
LEMMA RestartKeeps ==
  ASSUME NEW d, NEW A, NEW B, NEW f, NEW c, Inv(d, A, B, FALSE, f, c)
  PROVE  Inv(RestartTerminal(d), A, B, FALSE, f, c)
<1> DEFINE e == RestartTerminal(d)
           t == d.ckpt.last
<1>0. d \in Databases
  BY DEF Inv, Typed
<1>1. \A u \in Turns : A[u] \notin Holding
  BY DEF Inv, Leased
<1>2. CASE ~(Blocked(d) /\ d.hist[t] = "open")
  BY <1>2 DEF RestartTerminal
<1>3. CASE Blocked(d) /\ d.hist[t] = "open"
  <2>1. t \in Turns /\ d.claim.turn = t /\ d.claim.status = "uncertain" /\ A[t] \in Holding \cup {"gone"}
    BY <1>3, BlockedBy
  <2>2. e = [d EXCEPT !.hist = [d.hist EXCEPT ![t] = "restart"]]
    BY <1>3, <1>0 DEF RestartTerminal, Databases
  <2>3. [d.hist EXCEPT ![t] = "restart"] \in [Turns -> Terminals \cup {"none", "open"}]
    BY <2>1, <1>0, Fields DEF Terminals
  <2>4. /\ e \in Databases /\ e.hist = [d.hist EXCEPT ![t] = "restart"]
        /\ e.row = d.row /\ e.claim = d.claim /\ e.ckpt = d.ckpt /\ e.receipts = d.receipts
    BY <2>2, <2>3, <1>0 DEF Databases
  <2>5. \A r \in d.receipts : r.turn # t
    BY <1>3, <1>0, Fields DEF Inv, Written, Terminals
  <2>6. Typed(e, A, B, FALSE, f, c) /\ Leased(e, A, FALSE) /\ Agreed(e) /\ Left(e, A, f, c)
    BY <2>4 DEF Inv, Typed, Leased, Agreed, Left
  <2>7. Fresh(e, A)
    <3>1. \A u \in Turns : u # t => e.hist[u] = d.hist[u]
      BY <2>4, <1>0, Fields
    <3>2. A[t] \notin {"new", "waiting", "claimed"}
      BY <1>3, <2>1 DEF Inv, Fresh
    <3> QED BY <2>1, <2>4, <3>1, <3>2 DEF Inv, Fresh
  <2>8. Versioned(e, A, B, f)
    BY <2>4, <1>1 DEF Inv, Versioned, Holding
  <2>9. Uncertain(e) /\ Written(e)
    BY <2>4, <2>5, <1>0, Fields DEF Inv, Uncertain, Written, Blocked
  <2>10. Missing(e, f)
    <3>1. \A u \in Turns : u # t => e.hist[u] = d.hist[u]
      BY <2>4, <1>0, Fields
    <3>2. \A u \in Turns : u # t => (Fits(e, u, f) <=> Fits(d, u, f)) /\ (Has(e, u) <=> Has(d, u))
      BY <2>4, <3>1 DEF Fits, Has
    <3>3. e.hist[t] = "restart"
      BY <2>1, <2>4, <1>0, Fields
    <3> QED BY <2>1, <2>4, <3>1, <3>2, <3>3 DEF Inv, Missing
  <2> QED BY <2>6, <2>7, <2>8, <2>9, <2>10 DEF Inv
<1> QED BY <1>2, <1>3

\* What Ready does to the session that waits for its recovery.
LEMMA ReadyFields ==
  ASSUME NEW d \in Databases, NEW v \in Nat, d.ckpt.last \in Turns,
         d.claim = [turn |-> d.ckpt.last, status |-> "uncertain"], d.row[d.ckpt.last] = "uncertain"
  PROVE  LET e == Ready(d, v) IN
         /\ e \in Databases /\ e.claim = Free
         /\ e.row = [d.row EXCEPT ![d.ckpt.last] = "none"]
         /\ e.ckpt = [version |-> v, last |-> d.ckpt.last, status |-> "ready"]
         /\ e.receipts = d.receipts /\ e.hist = d.hist
<1> DEFINE e == Ready(d, v)
           R == [d.row EXCEPT ![d.ckpt.last] = "none"]
           K == [version |-> v, last |-> d.ckpt.last, status |-> "ready"]
<1>1. /\ R \in [Turns -> Statuses \cup {"none"}]
      /\ Free \in [turn : Turns \cup {None}, status : Statuses]
      /\ K \in [version : Nat, last : Turns \cup {None}, status : {"none", "ready", "uncertain"}]
  <2>1. R \in [Turns -> Statuses \cup {"none"}]
    BY Fields
  <2>2. Free \in [turn : Turns \cup {None}, status : Statuses]
    BY DEF Free, Statuses
  <2>3. K \in [version : Nat, last : Turns \cup {None}, status : {"none", "ready", "uncertain"}]
    OBVIOUS
  <2> QED BY <2>1, <2>2, <2>3
<1>2. [d.ckpt EXCEPT !.version = v, !.status = "ready"] = K
  <2>1. d.ckpt \in [version : Nat, last : Turns \cup {None}, status : {"none", "ready", "uncertain"}]
    BY Fields
  <2> DEFINE k == [d.ckpt EXCEPT !.version = v, !.status = "ready"]
  <2>2. k \in [version : Nat, last : Turns \cup {None}, status : {"none", "ready", "uncertain"}]
    BY <2>1
  <2>3. k.version = v /\ k.last = d.ckpt.last /\ k.status = "ready"
    BY <2>1
  <2> HIDE DEF k
  <2>4. k = K
    BY <2>2, <2>3
  <2> QED BY <2>4 DEF k
<1>3. e = [d EXCEPT !.ckpt = [d.ckpt EXCEPT !.version = v, !.status = "ready"], !.claim = Free,
                    !.row = [d.row EXCEPT ![d.ckpt.last] = "none"]]
  <2>1. (IF d.claim = [turn |-> d.ckpt.last, status |-> "uncertain"] THEN Free ELSE d.claim) = Free
    OBVIOUS
  <2>2. e = [d EXCEPT !.ckpt = [d.ckpt EXCEPT !.version = v, !.status = "ready"],
                      !.claim = IF d.claim = [turn |-> d.ckpt.last, status |-> "uncertain"] THEN Free ELSE d.claim,
                      !.row = [d.row EXCEPT ![d.ckpt.last] = IF d.row[d.ckpt.last] = "uncertain" THEN "none" ELSE d.row[d.ckpt.last]]]
    BY DEF Ready, Databases
  <2> QED BY <2>1, <2>2
<1>4. e = [d EXCEPT !.ckpt = K, !.claim = Free, !.row = R]
  BY <1>2, <1>3
<1> HIDE DEF e, R, K
<1>5. e \in Databases
  BY <1>1, <1>4 DEF Databases
<1>6. e.claim = Free /\ e.row = R /\ e.ckpt = K
  BY <1>4 DEF Databases
<1>7. e.receipts = d.receipts /\ e.hist = d.hist
  BY <1>4 DEF Databases
<1> QED BY <1>5, <1>6, <1>7 DEF e, R, K

\* A receipt of the next version, for a turn that has none.
LEMMA OneMore ==
  ASSUME NEW v \in Nat, NEW x, x.version = v + 1,
         NEW R \in SUBSET [turn : Turns, version : Nat, kind : Terminals],
         {r.version : r \in R} = 1..v,
         \A r, s \in R : (r.version = s.version \/ r.turn = s.turn) => r = s,
         \A r \in R : r.turn # x.turn
  PROVE  /\ {r.version : r \in R \cup {x}} = 1..(v + 1)
         /\ \A r, s \in R \cup {x} : (r.version = s.version \/ r.turn = s.turn) => r = s
<1>1. \A r \in R : r.version \in 1..v
  OBVIOUS
<1>2. \A n \in 1..(v + 1) : n \in 1..v \/ n = x.version
  OBVIOUS
<1>3. \A n \in 1..v : \E r \in R : n = r.version
  OBVIOUS
<1>4. \A r \in R : r.version # x.version
  BY <1>1
<1>5. \A r \in R \cup {x} : r.version \in 1..(v + 1)
  BY <1>1
<1>6. \A n \in 1..(v + 1) : \E r \in R \cup {x} : n = r.version
  BY <1>2, <1>3
<1> QED BY <1>4, <1>5, <1>6

\* A session that is reconciled is ready for the next turn, and misses nothing.
LEMMA ReconcileKeeps ==
  ASSUME NEW d, NEW A, NEW B, NEW f, NEW c, Inv(d, A, B, FALSE, f, c)
  PROVE  Inv(Reconcile(d), A, B, FALSE, f, c)
<1> DEFINE e == Reconcile(d)
           t == d.ckpt.last
           v == d.ckpt.version
<1>0. d \in Databases
  BY DEF Inv, Typed
<1>1. \A u \in Turns : A[u] \notin Holding
  BY DEF Inv, Leased
<1>2. ASSUME Blocked(d), e # d
      PROVE  \E R \in SUBSET [turn : Turns, version : Nat, kind : Terminals], w \in Nat :
               /\ d.receipts \subseteq R /\ e \in Databases /\ e.claim = Free
               /\ e.row = [d.row EXCEPT ![t] = "none"]
               /\ e.ckpt = [version |-> w, last |-> t, status |-> "ready"]
               /\ e.receipts = R /\ e.hist = d.hist /\ \E r \in R : r.turn = t
               /\ {r.version : r \in R} = 1..w
               /\ \A r, s \in R : (r.version = s.version \/ r.turn = s.turn) => r = s
               /\ \A r \in R : d.hist[r.turn] = r.kind
  <2>1. t \in Turns /\ d.claim = [turn |-> t, status |-> "uncertain"] /\ d.row[t] = "uncertain"
    BY <1>2, BlockedBy
  <2>2. CASE d.hist[t] = "restart" /\ ~Has(d, t)
    <3> DEFINE x == [turn |-> t, version |-> v + 1, kind |-> "restart"]
               R == d.receipts \cup {x}
               g == [d EXCEPT !.receipts = R]
    <3>1. x \in [turn : Turns, version : Nat, kind : Terminals] /\ x.version = v + 1 /\ x.turn = t /\ x.kind = "restart" /\ v \in Nat
      BY <2>1, <1>0, Fields DEF Terminals
    <3>2. R \in SUBSET [turn : Turns, version : Nat, kind : Terminals]
      BY <3>1, <1>0, Fields
    <3>3. {r.version : r \in R} = 1..(v + 1) /\ \A r, s \in R : (r.version = s.version \/ r.turn = s.turn) => r = s
      <4>1. \A r \in d.receipts : r.turn # x.turn
        BY <2>2, <3>1 DEF Has
      <4> HIDE DEF x
      <4> QED BY <4>1, <3>1, <1>0, Fields, OneMore DEF Inv, Written
    <3>4. \A r \in R : d.hist[r.turn] = r.kind
      BY <3>1, <2>2 DEF Inv, Written
    <3>5. e = Ready(g, v + 1)
      BY <1>2, <2>2 DEF Reconcile
    <3>6. g \in Databases /\ g.ckpt = d.ckpt /\ g.claim = d.claim /\ g.row = d.row /\ g.receipts = R /\ g.hist = d.hist
      <4> HIDE DEF R
      <4> QED BY <3>2, <1>0 DEF Databases
    <3> HIDE DEF g
    <3>7. /\ e \in Databases /\ e.claim = Free /\ e.row = [d.row EXCEPT ![t] = "none"]
          /\ e.ckpt = [version |-> v + 1, last |-> t, status |-> "ready"] /\ e.receipts = R /\ e.hist = d.hist
      <4>1. /\ g.ckpt.last \in Turns /\ g.claim = [turn |-> g.ckpt.last, status |-> "uncertain"]
            /\ g.row[g.ckpt.last] = "uncertain" /\ v + 1 \in Nat /\ g.ckpt.last = t
        BY <3>1, <3>6, <2>1
      <4> HIDE DEF R, e
      <4>2. /\ Ready(g, v + 1) \in Databases /\ Ready(g, v + 1).claim = Free
            /\ Ready(g, v + 1).row = [g.row EXCEPT ![g.ckpt.last] = "none"]
            /\ Ready(g, v + 1).ckpt = [version |-> v + 1, last |-> g.ckpt.last, status |-> "ready"]
            /\ Ready(g, v + 1).receipts = g.receipts /\ Ready(g, v + 1).hist = g.hist
        BY <3>6, <4>1, ReadyFields
      <4> QED BY <3>5, <3>6, <4>1, <4>2
    <3>8. \E r \in R : r.turn = t
      BY <3>1
    <3>9. d.receipts \subseteq R /\ v + 1 \in Nat
      BY <3>1
    <3> HIDE DEF R
    <3> QED BY <3>2, <3>3, <3>4, <3>7, <3>8, <3>9
  <2>3. CASE ~(d.hist[t] = "restart" /\ ~Has(d, t)) /\ \E r \in d.receipts : r.turn = t /\ r.version = v
    <3>1. e = Ready(d, v)
      BY <1>2, <2>3 DEF Reconcile
    <3>2. /\ e \in Databases /\ e.claim = Free /\ e.row = [d.row EXCEPT ![t] = "none"]
          /\ e.ckpt = [version |-> v, last |-> t, status |-> "ready"] /\ e.receipts = d.receipts /\ e.hist = d.hist
      BY <3>1, <2>1, <1>0, Fields, ReadyFields
    <3>3. d.receipts \in SUBSET [turn : Turns, version : Nat, kind : Terminals] /\ v \in Nat
      BY <1>0, Fields
    <3>4. /\ {r.version : r \in d.receipts} = 1..v
          /\ \A r, s \in d.receipts : (r.version = s.version \/ r.turn = s.turn) => r = s
          /\ \A r \in d.receipts : d.hist[r.turn] = r.kind
      BY DEF Inv, Written
    <3>5. \E r \in d.receipts : r.turn = t
      BY <2>3
    <3> QED BY <3>2, <3>3, <3>4, <3>5
  <2> QED BY <1>2, <2>2, <2>3 DEF Reconcile
<1>3. CASE e = d
  BY <1>3
<1>4. CASE e # d
  <2>1. Blocked(d)
    BY <1>4 DEF Reconcile
  <2>2. t \in Turns /\ d.claim.turn = t /\ d.claim.status = "uncertain" /\ A[t] \in Holding \cup {"gone"}
    BY <2>1, BlockedBy
  <2>3. PICK R \in SUBSET [turn : Turns, version : Nat, kind : Terminals], w \in Nat :
               /\ d.receipts \subseteq R /\ e \in Databases /\ e.claim = Free
               /\ e.row = [d.row EXCEPT ![t] = "none"]
               /\ e.ckpt = [version |-> w, last |-> t, status |-> "ready"]
               /\ e.receipts = R /\ e.hist = d.hist /\ \E r \in R : r.turn = t
               /\ {r.version : r \in R} = 1..w
               /\ \A r, s \in R : (r.version = s.version \/ r.turn = s.turn) => r = s
               /\ \A r \in R : d.hist[r.turn] = r.kind
    BY <1>2, <1>4, <2>1
  <2> HIDE DEF e
  <2>4. Typed(e, A, B, FALSE, f, c) /\ Leased(e, A, FALSE)
    BY <2>3, <1>1 DEF Inv, Typed, Leased
  <2>5. Agreed(e) /\ Left(e, A, f, c) /\ Fresh(e, A)
    BY <2>2, <2>3, <1>0, Fields DEF Inv, Agreed, Left, Fresh, Free
  <2>6. Versioned(e, A, B, f)
    BY <1>1 DEF Versioned, Holding
  <2>7. Uncertain(e) /\ Written(e)
    BY <2>3 DEF Uncertain, Written, Blocked, Free
  <2>8. Missing(e, f)
    <3>1. \A u \in Turns : Has(d, u) => Has(e, u)
      BY <2>3 DEF Has
    <3>2. Has(e, t)
      BY <2>3 DEF Has
    <3>3. \A u \in Turns : Fits(d, u, f) => Fits(e, u, f)
      BY <3>1, <2>3 DEF Fits
    <3>4. Fits(e, t, f)
      BY <3>2 DEF Fits
    <3>5. \A u \in Turns : ~Fits(d, u, f) => u = t
      BY <2>2 DEF Inv, Missing
    <3>6. \A u \in Turns : d.hist[u] \in {"parked", "failed"} /\ ~Has(d, u) => f > 0
      BY DEF Inv, Missing
    <3> QED BY <3>1, <3>3, <3>4, <3>5, <3>6, <2>3 DEF Missing
  <2> QED BY <2>4, <2>5, <2>6, <2>7, <2>8 DEF Inv, e
<1> QED BY <1>3, <1>4

\* A recovery keeps the invariant, and so does one that ends half-way.
LEMMA RecoveryKeeps ==
  ASSUME NEW d, NEW A, NEW B, NEW f, NEW c, Inv(d, A, B, FALSE, f, c)
  PROVE  /\ Inv(Recovered(d), A, B, FALSE, f, c)
         /\ Inv(Stale(d), A, B, FALSE, f, c) /\ Inv(RestartTerminal(Stale(d)), A, B, FALSE, f, c)
<1>1. Inv(Stale(d), A, B, FALSE, f, c)
  BY StaleKeeps
<1>2. Inv(RestartTerminal(Stale(d)), A, B, FALSE, f, c)
  BY <1>1, RestartKeeps
<1>3. Inv(Reconcile(RestartTerminal(Stale(d))), A, B, FALSE, f, c)
  BY <1>2, ReconcileKeeps
<1> QED BY <1>1, <1>2, <1>3 DEF Recovered

\* What a waiting turn sees of the session.
LEMMA SeenKeeps ==
  ASSUME Inv(db, at, base, active, faults, crashes)
  PROVE  Inv(Seen, at, base, active, faults, crashes)
<1>1. CASE active
  BY <1>1 DEF Seen
<1>2. CASE ~active
  <2>1. active = FALSE
    BY <1>2 DEF Inv, Typed
  <2> QED BY <2>1, RecoveryKeeps DEF Seen
<1> QED BY <1>1, <1>2

\* One more failure disturbs nothing.
LEMMA OneMoreFault ==
  ASSUME NEW d, NEW A, NEW B, NEW a, NEW f, NEW c, NEW g \in 0..MaxFaults, g >= f, Inv(d, A, B, a, f, c)
  PROVE  Inv(d, A, B, a, g, c)
<1>1. f \in Nat /\ c \in Nat /\ g \in Nat
  BY SessionAssumption DEF Inv, Typed
<1>2. Typed(d, A, B, a, g, c) /\ Leased(d, A, a) /\ Agreed(d) /\ Fresh(d, A) /\ Uncertain(d) /\ Written(d)
  BY DEF Inv, Typed
<1>3. Left(d, A, g, c)
  BY <1>1 DEF Inv, Left
<1>4. \A t \in Turns : Fits(d, t, f) => Fits(d, t, g)
  BY <1>1 DEF Fits
<1>5. Versioned(d, A, B, g)
  BY <1>4 DEF Inv, Versioned
<1>6. Missing(d, g)
  BY <1>1, <1>4 DEF Inv, Missing
<1> QED BY <1>2, <1>3, <1>5, <1>6 DEF Inv

\* A waiting turn enters the queue.
LEMMA EnqueuedKeeps ==
  ASSUME NEW d, NEW A, NEW B, NEW a, NEW f, NEW c, Inv(d, A, B, a, f, c), NEW t \in Turns, A[t] = "waiting"
  PROVE  /\ Inv(Enqueued(d, t), A, B, a, f, c) /\ Enqueued(d, t).claim = d.claim
         /\ Enqueued(d, t).ckpt = d.ckpt /\ Enqueued(d, t).receipts = d.receipts /\ Enqueued(d, t).hist = d.hist
<1> DEFINE e == Enqueued(d, t)
<1>0. d \in Databases
  BY DEF Inv, Typed
<1>1. CASE d.row[t] # "none"
  BY <1>1 DEF Enqueued
<1>2. CASE d.row[t] = "none"
  <2> DEFINE R == [d.row EXCEPT ![t] = "queued"]
             S == [d.since EXCEPT ![t] = d.clock]
  <2>1. R \in [Turns -> Statuses \cup {"none"}] /\ S \in [Turns -> Nat] /\ d.clock + 1 \in Nat
    BY <1>0, Fields DEF Statuses
  <2>2. e = [d EXCEPT !.row = R, !.since = S, !.clock = d.clock + 1]
    BY <1>2, <1>0 DEF Enqueued, Databases
  <2> HIDE DEF R, S
  <2>3. e \in Databases
    BY <2>1, <2>2, <1>0 DEF Databases
  <2>4. e.row = R /\ e.claim = d.claim /\ e.ckpt = d.ckpt /\ e.receipts = d.receipts /\ e.hist = d.hist
    BY <2>2, <1>0 DEF Databases
  <2>5. \A u \in Turns : R[u] = IF u = t THEN "queued" ELSE d.row[u]
    BY <1>0, Fields DEF R
  <2>6. Typed(e, A, B, a, f, c) /\ Leased(e, A, a) /\ Uncertain(e) /\ Written(e)
    BY <2>3, <2>4 DEF Inv, Typed, Leased, Uncertain, Written, Blocked
  <2>7. Agreed(e) /\ Left(e, A, f, c) /\ Fresh(e, A)
    BY <2>4, <2>5, <1>0, <1>2, Fields DEF Inv, Agreed, Left, Fresh, Statuses
  <2>8. Versioned(e, A, B, f) /\ Missing(e, f)
    BY <2>4 DEF Inv, Versioned, Missing, Fits, Has, Blocked
  <2> QED BY <2>4, <2>6, <2>7, <2>8 DEF Inv
<1> QED BY <1>1, <1>2

\* A turn leaves the queue, or its row stays there by a failure or a crash.
LEMMA LeavesKeeps ==
  ASSUME NEW d, NEW A, NEW B, NEW a, NEW f, NEW c, Inv(d, A, B, a, f, c), NEW t \in Turns, A[t] = "waiting"
  PROVE  LET G == [A EXCEPT ![t] = "gone"] IN
         Inv(Dequeued(d, t), G, B, a, f, c) /\ (c + f > 0 => Inv(d, G, B, a, f, c))
<1> DEFINE G == [A EXCEPT ![t] = "gone"]
           e == Dequeued(d, t)
           R == [d.row EXCEPT ![t] = IF d.row[t] = "queued" THEN "none" ELSE d.row[t]]
<1>0. d \in Databases /\ A \in [Turns -> Holding \cup {"new", "waiting", "gone"}]
  BY DEF Inv, Typed
<1>1. /\ G \in [Turns -> Holding \cup {"new", "waiting", "gone"}]
      /\ \A u \in Turns : G[u] = IF u = t THEN "gone" ELSE A[u]
  BY <1>0
<1>2. A[t] = "waiting" /\ t \in Turns
  OBVIOUS
<1> HIDE DEF G
<1>3. \A b \in Databases :
        b.claim = d.claim /\ b.ckpt = d.ckpt /\ b.receipts = d.receipts /\ b.hist = d.hist =>
        Typed(b, G, B, a, f, c) /\ Leased(b, G, a) /\ Versioned(b, G, B, f) /\ Uncertain(b) /\ Written(b) /\ Missing(b, f)
  <2> SUFFICES ASSUME NEW b \in Databases,
                      b.claim = d.claim /\ b.ckpt = d.ckpt /\ b.receipts = d.receipts /\ b.hist = d.hist
               PROVE  Typed(b, G, B, a, f, c) /\ Leased(b, G, a) /\ Versioned(b, G, B, f) /\ Uncertain(b) /\ Written(b) /\ Missing(b, f)
    OBVIOUS
  <2>1. Typed(b, G, B, a, f, c) /\ Uncertain(b) /\ Written(b)
    BY <1>1 DEF Inv, Typed, Uncertain, Written, Blocked
  <2>2. Leased(b, G, a)
    BY <1>1, <1>2 DEF Inv, Leased, Holding
  <2>3. \A u \in Turns : (Fits(b, u, f) <=> Fits(d, u, f)) /\ (Has(b, u) <=> Has(d, u)) /\ (Blocked(b) <=> Blocked(d))
    BY DEF Fits, Has, Blocked
  <2>4. Missing(b, f)
    BY <2>3 DEF Inv, Missing
  <2>5. \A u \in Turns : G[u] \in {"claimed", "executing", "settled", "closing"} => G[u] = A[u]
    BY <1>1
  <2>6. Versioned(b, G, B, f)
    BY <2>3, <2>5 DEF Inv, Versioned
  <2> QED BY <2>1, <2>2, <2>4, <2>6
<1>4. R \in [Turns -> Statuses \cup {"none"}] /\ \A u \in Turns : R[u] = IF u = t /\ d.row[t] = "queued" THEN "none" ELSE d.row[u]
  BY <1>0, Fields
<1>5. e = [d EXCEPT !.row = R]
  BY <1>0 DEF Dequeued, Databases
<1> HIDE DEF R, e
<1>6. e \in Databases /\ e.row = R /\ e.claim = d.claim /\ e.ckpt = d.ckpt /\ e.receipts = d.receipts /\ e.hist = d.hist
  BY <1>0, <1>4, <1>5 DEF Databases
<1>7. d.claim.status # "queued" => d.claim.turn # t
  BY <1>2 DEF Inv, Fresh, Holding
<1>8. Agreed(e) /\ Left(e, G, f, c)
  BY <1>1, <1>2, <1>4, <1>6, <1>7 DEF Inv, Agreed, Left
<1>9. Fresh(e, G)
  BY <1>1, <1>4, <1>6 DEF Inv, Fresh, Agreed
<1>10. Inv(e, G, B, a, f, c)
  BY <1>3, <1>6, <1>8, <1>9 DEF Inv
<1>11. ASSUME c + f > 0 PROVE Inv(d, G, B, a, f, c)
  <2>1. Agreed(d) /\ Left(d, G, f, c)
    BY <1>11 DEF Inv, Left
  <2>2. Fresh(d, G)
    BY <1>1 DEF Inv, Fresh, Agreed
  <2> QED BY <2>1, <2>2, <1>0, <1>3 DEF Inv
<1> QED BY <1>10, <1>11 DEF G, e

SInv == Inv(db, at, base, active, faults, crashes)

\* The invariant holds at the start.
LEMMA InitInv == Init => SInv
<1> SUFFICES ASSUME Init PROVE SInv
  OBVIOUS
<1> DEFINE R == [t \in Turns |-> "none"]
           S == [t \in Turns |-> 0]
           K == [version |-> 0, last |-> None, status |-> "none"]
<1>1. /\ R \in [Turns -> Statuses \cup {"none"}] /\ S \in [Turns -> Nat]
      /\ R \in [Turns -> Terminals \cup {"none", "open"}]
      /\ Free \in [turn : Turns \cup {None}, status : Statuses]
      /\ K \in [version : Nat, last : Turns \cup {None}, status : {"none", "ready", "uncertain"}]
  BY DEF Free, Statuses
<1>2. Free.status = "queued" /\ Free.turn = None
  BY DEF Free
<1>3. K.status = "none" /\ K.version = 0
  OBVIOUS
<1>4. \A t \in Turns : R[t] = "none"
  OBVIOUS
<1>5. db = [row |-> R, since |-> S, clock |-> 0, claim |-> Free, ckpt |-> K, receipts |-> {}, hist |-> R]
  BY DEF Init
<1> HIDE DEF R, S, K
<1>6. db \in Databases
  BY <1>1, <1>5 DEF Databases
<1>7. db.row = R /\ db.claim = Free /\ db.ckpt = K /\ db.receipts = {} /\ db.hist = R
  BY <1>5
<1>8. at \in [Turns -> Holding \cup {"new", "waiting", "gone"}] /\ base \in [Turns -> Nat] /\ \A t \in Turns : at[t] = "new"
  BY DEF Init
<1>9. Typed(db, at, base, active, faults, crashes)
  <2>1. active = FALSE /\ faults = 0 /\ crashes = 0
    BY DEF Init
  <2>2. 0 \in 0..MaxFaults /\ 0 \in 0..MaxCrashes
    BY SessionAssumption
  <2> QED BY <1>6, <1>8, <2>1, <2>2 DEF Typed
<1>10. Leased(db, at, active) /\ Agreed(db) /\ Left(db, at, faults, crashes) /\ Fresh(db, at)
  BY <1>2, <1>4, <1>7, <1>8 DEF Leased, Agreed, Left, Fresh, Holding
<1>11. Versioned(db, at, base, faults) /\ Uncertain(db) /\ Missing(db, faults)
  BY <1>2, <1>3, <1>4, <1>7, <1>8 DEF Versioned, Uncertain, Missing, Fits, Blocked
<1>12. Written(db)
  BY <1>3, <1>7 DEF Written
<1> QED BY <1>9, <1>10, <1>11, <1>12 DEF SInv, Inv

\* Who runs the session is alone.
LEMMA Alone ==
  ASSUME SInv, NEW t \in Turns, at[t] \in Holding
  PROVE  /\ active /\ db.claim.turn = t /\ db.claim.status \in Allowed(at[t]) /\ db \in Databases
         /\ \A u \in Turns : u # t => at[u] \notin Holding
  BY DEF SInv, Inv, Leased, Typed

\* How a turn moves on.
LEMMA Moves ==
  ASSUME SInv, NEW t \in Turns, NEW s \in Holding \cup {"new", "waiting", "gone"}, at' = [at EXCEPT ![t] = s]
  PROVE  /\ at' \in [Turns -> Holding \cup {"new", "waiting", "gone"}]
         /\ at'[t] = s /\ \A u \in Turns : u # t => at'[u] = at[u]
  BY DEF SInv, Inv, Typed

\* A fault is counted.
LEMMA Counted == SInv /\ Fault => faults' \in 0..MaxFaults /\ faults' = faults + 1 /\ faults \in Nat /\ crashes \in Nat
  BY SessionAssumption DEF SInv, Inv, Typed, Fault

\* Each way a turn waits, and stops waiting, keeps the invariant.
LEMMA WaitingKeeps ==
  ASSUME SInv, NEW t \in Turns, Arrive(t) \/ PollBlocked(t) \/ PollWaits(t) \/ PollFails(t) \/ GiveUp(t)
  PROVE  SInv'
<1>1. CASE Arrive(t)
  <2>1. /\ at' \in [Turns -> Holding \cup {"new", "waiting", "gone"}]
        /\ at'[t] = "waiting" /\ \A u \in Turns : u # t => at'[u] = at[u]
    BY <1>1, Moves DEF Arrive
  <2>2. db' = db /\ base' = base /\ active' = active /\ faults' = faults /\ crashes' = crashes /\ at[t] = "new"
    BY <1>1 DEF Arrive
  <2>3. db.row[t] = "none" /\ (db.claim.status # "queued" => db.claim.turn # t /\ db.claim.turn \in Turns)
    BY <2>2 DEF SInv, Inv, Fresh, Agreed, Holding
  <2>4. Typed(db, at', base, active, faults, crashes) /\ Leased(db, at', active) /\ Left(db, at', faults, crashes)
    BY <2>1, <2>3 DEF SInv, Inv, Typed, Leased, Left, Holding
  <2>5. Fresh(db, at')
    BY <2>1, <2>2, <2>3 DEF SInv, Inv, Fresh
  <2>6. Versioned(db, at', base, faults)
    BY <2>1 DEF SInv, Inv, Versioned
  <2> QED BY <2>2, <2>4, <2>5, <2>6 DEF SInv, Inv
<1>2. CASE PollBlocked(t)
  <2>1. Inv(Seen, at, base, active, faults, crashes) /\ at[t] = "waiting"
    BY <1>2, SeenKeeps DEF SInv, PollBlocked
  <2>2. Inv(Dequeued(Seen, t), [at EXCEPT ![t] = "gone"], base, active, faults, crashes)
    BY <2>1, LeavesKeeps
  <2> QED BY <1>2, <2>2 DEF SInv, PollBlocked
<1>3. CASE PollWaits(t)
  <2>1. Inv(Seen, at, base, active, faults, crashes) /\ at[t] = "waiting"
    BY <1>3, SeenKeeps DEF SInv, PollWaits
  <2>2. Inv(Enqueued(Seen, t), at, base, active, faults, crashes)
    BY <2>1, EnqueuedKeeps
  <2> QED BY <1>3, <2>2 DEF SInv, PollWaits
<1>4. CASE PollFails(t)
  <2>1. PICK d \in Halfway : db' = Dequeued(d, t)
    BY <1>4 DEF PollFails
  <2>2. at[t] = "waiting" /\ Fault
    BY <1>4 DEF PollFails
  <2>3. Inv(d, at, base, active, faults, crashes)
    <3>1. CASE active
      BY <3>1 DEF Halfway, SInv
    <3>2. CASE ~active
      <4>1. active = FALSE
        BY <3>2 DEF SInv, Inv, Typed
      <4> QED BY <4>1, RecoveryKeeps DEF Halfway, SInv
    <3> QED BY <3>1, <3>2
  <2>4. Inv(d, at, base, active, faults', crashes)
    BY <2>2, <2>3, Counted, OneMoreFault
  <2>5. Inv(Dequeued(d, t), [at EXCEPT ![t] = "gone"], base, active, faults', crashes)
    BY <2>2, <2>4, LeavesKeeps
  <2> QED BY <1>4, <2>1, <2>5 DEF SInv, PollFails
<1>5. CASE GiveUp(t)
  <2>1. at[t] = "waiting" /\ Inv(db, at, base, active, faults, crashes)
    BY <1>5 DEF SInv, GiveUp
  <2>2. CASE db' = Dequeued(db, t) /\ UNCHANGED faults
    <3>1. Inv(Dequeued(db, t), [at EXCEPT ![t] = "gone"], base, active, faults, crashes)
      BY <2>1, LeavesKeeps
    <3> QED BY <1>5, <2>2, <3>1 DEF SInv, GiveUp
  <2>3. CASE db' = db /\ Fault
    <3>1. Inv(db, at, base, active, faults', crashes) /\ crashes + faults' > 0
      BY <2>1, <2>3, Counted, OneMoreFault
    <3>2. Inv(db, [at EXCEPT ![t] = "gone"], base, active, faults', crashes)
      BY <2>1, <3>1, LeavesKeeps
    <3> QED BY <1>5, <2>3, <3>2 DEF SInv, GiveUp
  <2> QED BY <1>5, <2>2, <2>3 DEF GiveUp
<1> QED BY <1>1, <1>2, <1>3, <1>4, <1>5

\* A claim is had by one turn, which starts from what the session has reached.
LEMMA ClaimKeeps ==
  ASSUME SInv, NEW t \in Turns, PollClaims(t)
  PROVE  SInv'
<1> DEFINE d == Enqueued(Seen, t)
           C == [turn |-> t, status |-> "claimed"]
           R == [d.row EXCEPT ![t] = "claimed"]
<1>0. at[t] = "waiting" /\ ~Blocked(Seen) /\ Claimable(d, t) /\ active' = TRUE /\ faults' = faults /\ crashes' = crashes
      /\ base' = [base EXCEPT ![t] = db'.ckpt.version] /\ db' = [d EXCEPT !.row[t] = "claimed", !.claim = C]
  BY DEF PollClaims
<1>1. Inv(d, at, base, active, faults, crashes) /\ d.ckpt = Seen.ckpt
  BY <1>0, SeenKeeps, EnqueuedKeeps DEF SInv
<1>2. d.claim.status = "queued" /\ ~Blocked(d)
  BY <1>0, <1>1 DEF Claimable, Blocked
<1> HIDE DEF d
<1>3. d \in Databases
  BY <1>1 DEF Inv, Typed
<1>4. \A u \in Turns : at[u] \notin Holding
  BY <1>1, <1>2 DEF Inv, Leased, Allowed, Holding
<1>5. /\ at' \in [Turns -> Holding \cup {"new", "waiting", "gone"}]
      /\ at'[t] = "claimed" /\ \A u \in Turns : u # t => at'[u] = at[u]
  BY Moves DEF PollClaims, Holding
<1>6. R \in [Turns -> Statuses \cup {"none"}] /\ C \in [turn : Turns \cup {None}, status : Statuses]
      /\ (\A u \in Turns : R[u] = IF u = t THEN "claimed" ELSE d.row[u]) /\ C.turn = t /\ C.status = "claimed"
  BY <1>3, Fields DEF Statuses
<1>7. db' = [d EXCEPT !.row = R, !.claim = C]
  BY <1>0, <1>3 DEF Databases
<1>8. C = [turn |-> t, status |-> "claimed"]
  OBVIOUS
<1> HIDE DEF R, C
<1>9. db' \in Databases /\ db'.row = R /\ db'.claim = C /\ db'.ckpt = d.ckpt /\ db'.receipts = d.receipts /\ db'.hist = d.hist
  BY <1>3, <1>6, <1>7 DEF Databases
<1>10. /\ base' \in [Turns -> Nat] /\ base'[t] = d.ckpt.version
  BY <1>0, <1>3, <1>9, <1>1, Fields DEF Inv, Typed
<1>11. d.hist[t] = "none" /\ \A r \in d.receipts : r.turn # t
  BY <1>0, <1>1, <1>3, Fields DEF Inv, Fresh, Written, Terminals
<1>12. \A u \in Turns : (Fits(db', u, faults) <=> Fits(d, u, faults)) /\ (Has(db', u) <=> Has(d, u))
  BY <1>9 DEF Fits, Has
<1>13. \A u \in Turns : Fits(d, u, faults)
  BY <1>1, <1>2, SessionAssumption DEF Inv, Missing, Agreed, Free
<1>14. Typed(db', at', base', active', faults', crashes')
  BY <1>0, <1>1, <1>5, <1>9, <1>10 DEF Inv, Typed
<1>15. Leased(db', at', active')
  BY <1>0, <1>4, <1>5, <1>6, <1>9 DEF Leased, Allowed
<1>16. Agreed(db')
  BY <1>1, <1>2, <1>6, <1>8, <1>9, SessionAssumption DEF Inv, Agreed, Free
<1>17. Left(db', at', faults', crashes') /\ Fresh(db', at')
  BY <1>0, <1>1, <1>5, <1>6, <1>9, <1>11 DEF Inv, Left, Fresh, Holding
<1>18. Versioned(db', at', base', faults')
  BY <1>0, <1>2, <1>4, <1>5, <1>9, <1>10, <1>11 DEF Versioned, Has, Blocked, Holding
<1>19. Uncertain(db') /\ Written(db')
  BY <1>1, <1>2, <1>6, <1>9, <1>11 DEF Inv, Uncertain, Written, Blocked
<1>20. Missing(db', faults')
  BY <1>0, <1>1, <1>9, <1>12, <1>13 DEF Inv, Missing
<1> QED BY <1>14, <1>15, <1>16, <1>17, <1>18, <1>19, <1>20 DEF SInv, Inv

\* The steps of a running turn that leave the database alone.
LEMMA PlaceKeeps ==
  ASSUME SInv, NEW t \in Turns, at[t] \in Holding, NEW s \in Holding, at' = [at EXCEPT ![t] = s],
         UNCHANGED <<base, active, db, crashes>>, faults' \in 0..MaxFaults, faults' >= faults,
         db.claim.status \in Allowed(s), s \notin {"claimed", "executing"},
         s = "settled" => at[t] = "executing",
         s = "closing" => Fits(db, t, faults')
  PROVE  SInv'
<1>1. Inv(db, at, base, active, faults', crashes)
  BY OneMoreFault DEF SInv
<1>2. /\ active /\ db.claim.turn = t /\ \A u \in Turns : u # t => at[u] \notin Holding
  BY Alone
<1>3. /\ at' \in [Turns -> Holding \cup {"new", "waiting", "gone"}]
      /\ at'[t] = s /\ \A u \in Turns : u # t => at'[u] = at[u]
  BY Moves
<1>4. Typed(db, at', base, active, faults', crashes) /\ Leased(db, at', active)
  BY <1>1, <1>2, <1>3 DEF Inv, Typed, Leased
<1>5. Left(db, at', faults', crashes) /\ Fresh(db, at')
  <2>1. at[t] # "waiting" /\ at[t] # "new" /\ s \notin {"new", "waiting", "claimed"}
    BY DEF Holding
  <2> QED BY <1>1, <1>2, <1>3, <2>1 DEF Inv, Left, Fresh
<1>6. Versioned(db, at', base, faults')
  <2>1. \A u \in Turns : u # t => at'[u] \notin {"claimed", "executing", "settled", "closing"}
    BY <1>2, <1>3 DEF Holding
  <2>2. at'[t] = "settled" /\ ~Has(db, t) => db.ckpt.version = base[t]
    BY <1>1, <1>3 DEF Inv, Versioned
  <2> QED BY <1>3, <2>1, <2>2 DEF Versioned
<1> QED BY <1>1, <1>4, <1>5, <1>6 DEF SInv, Inv

\* The steps of a running turn that write the database.
LEMMA WriteKeeps ==
  ASSUME SInv, NEW t \in Turns, at[t] \in Holding, NEW s \in Holding, at' = [at EXCEPT ![t] = s],
         UNCHANGED <<base, active, crashes>>, faults' \in 0..MaxFaults, faults' >= faults,
         NEW st, st # "queued", st \in Allowed(s), db' \in Databases,
         db'.claim = [turn |-> t, status |-> st], db'.row[t] = st,
         \A u \in Turns : u # t => /\ db'.row[u] = db.row[u] /\ db'.hist[u] = db.hist[u]
                                   /\ (Has(db', u) <=> Has(db, u)),
         s = "claimed" \/ st = "claimed" => db'.hist[t] = "none",
         s \in {"claimed", "executing"} => ~Blocked(db') /\ ~Has(db', t),
         s \in {"claimed", "executing", "settled"} /\ ~Has(db', t) => db'.ckpt.version = base[t],
         s # "closing",
         db'.hist[t] \in {"parked", "failed"} /\ ~Has(db', t) => faults' > 0,
         Uncertain(db'), Written(db')
  PROVE  SInv'
<1>1. Inv(db, at, base, active, faults', crashes)
  BY OneMoreFault DEF SInv
<1>2. /\ active /\ db.claim.turn = t /\ \A u \in Turns : u # t => at[u] \notin Holding
  BY Alone
<1>3. /\ at' \in [Turns -> Holding \cup {"new", "waiting", "gone"}]
      /\ at'[t] = s /\ \A u \in Turns : u # t => at'[u] = at[u]
  BY Moves
<1>4. db'.claim.turn = t /\ db'.claim.status = st
  OBVIOUS
<1>5. Typed(db', at', base', active', faults', crashes') /\ Leased(db', at', active')
  BY <1>1, <1>2, <1>3, <1>4 DEF Inv, Typed, Leased
<1>6. Agreed(db')
  <2>1. \A u \in Turns : u # t => db.row[u] \in {"none", "queued"}
    <3>1. \A u \in Turns : db.row[u] \notin {"none", "queued"} => db.claim.turn = u
      <4>1. Agreed(db)
        BY DEF SInv, Inv
      <4>2. \A u \in Turns : [turn |-> u, status |-> db.row[u]].turn = u
        OBVIOUS
      <4> QED BY <4>1, <4>2 DEF Agreed
    <3> QED BY <3>1, <1>2
  <2> QED BY <1>4, <2>1 DEF Agreed
<1>7. Left(db', at', faults', crashes')
  BY <1>1, <1>3 DEF Inv, Left
<1>8. Fresh(db', at')
  <2>1. at'[t] \notin {"new", "waiting"} /\ at'[t] \in Holding
    BY <1>3 DEF Holding
  <2> QED BY <1>1, <1>2, <1>3, <1>4, <2>1 DEF Inv, Fresh, Holding
<1>9. Versioned(db', at', base', faults')
  <2>1. \A u \in Turns : u # t => at'[u] \notin {"claimed", "executing", "settled", "closing"}
    BY <1>2, <1>3 DEF Holding
  <2> QED BY <1>3, <2>1 DEF Versioned
<1>10. Missing(db', faults')
  <2>1. \A u \in Turns : u # t => (Fits(db', u, faults') <=> Fits(db, u, faults'))
    BY DEF Fits
  <2>2. \A u \in Turns : u # t => Fits(db, u, faults')
    BY <1>1, <1>2 DEF Inv, Missing
  <2> QED BY <1>1, <1>4, <2>1, <2>2 DEF Inv, Missing
<1> QED BY <1>5, <1>6, <1>7, <1>8, <1>9, <1>10 DEF SInv, Inv

\* The steps of a running turn that change nothing but its place.
LEMMA StepsKeep ==
  ASSUME SInv, NEW t \in Turns, Abandon(t) \/ Unwritten(t) \/ Fine(t) \/ MarkFails(t)
  PROVE  SInv'
<1>0. faults \in 0..MaxFaults /\ faults \in Nat
  BY SessionAssumption DEF SInv, Inv, Typed
<1>1. CASE Abandon(t)
  <2>1. at[t] = "claimed" /\ at' = [at EXCEPT ![t] = "closing"] /\ UNCHANGED <<base, active, db, faults, crashes>>
    BY <1>1 DEF Abandon, To
  <2>2. at[t] \in Holding /\ "closing" \in Holding /\ db.claim.status \in Allowed("closing")
    BY <2>1, Alone DEF Holding, Allowed
  <2>3. Fits(db, t, faults)
    BY <2>1 DEF SInv, Inv, Fresh, Fits
  <2>4. faults' \in 0..MaxFaults /\ faults' >= faults /\ Fits(db, t, faults')
    BY <1>0, <2>1, <2>3
  <2> QED BY <2>1, <2>2, <2>4, PlaceKeeps
<1>2. CASE Unwritten(t)
  <2>1. at[t] = "executing" /\ at' = [at EXCEPT ![t] = "settled"] /\ Fault /\ UNCHANGED <<base, active, db, crashes>>
    BY <1>2 DEF Unwritten, To
  <2>2. at[t] \in Holding /\ "settled" \in Holding /\ db.claim.status \in Allowed("settled")
    BY <2>1, Alone DEF Holding, Allowed
  <2>3. faults' \in 0..MaxFaults /\ faults' >= faults
    BY <1>0, <2>1, Counted
  <2> QED BY <2>1, <2>2, <2>3, PlaceKeeps
<1>3. CASE Fine(t)
  <2>1. at[t] = "settled" /\ at' = [at EXCEPT ![t] = "closing"] /\ UNCHANGED <<base, active, db, faults, crashes>>
        /\ (Committed(t) \/ db.hist[t] = "plain")
    BY <1>3 DEF Fine, To
  <2>2. at[t] \in Holding /\ "closing" \in Holding /\ db.claim.status \in Allowed("closing")
    BY <2>1, Alone DEF Holding, Allowed
  <2>3. Fits(db, t, faults)
    <3>1. CASE db.hist[t] = "plain"
      BY <3>1 DEF Fits
    <3>2. CASE Committed(t)
      <4>1. db.ckpt.version = base[t] + 1 /\ base[t] \in Nat
        BY <3>2 DEF Committed, SInv, Inv, Typed
      <4>2. ~Has(db, t) => db.ckpt.version = base[t]
        BY <2>1 DEF SInv, Inv, Versioned
      <4> QED BY <4>1, <4>2 DEF Fits
    <3> QED BY <2>1, <3>1, <3>2
  <2>4. faults' \in 0..MaxFaults /\ faults' >= faults /\ Fits(db, t, faults')
    BY <1>0, <2>1, <2>3
  <2> QED BY <2>1, <2>2, <2>4, PlaceKeeps
<1>4. CASE MarkFails(t)
  <2>1. PICK unread \in BOOLEAN :
          /\ Doubtful(t, unread, 1)
          /\ To(t, IF ~unread /\ db.hist[t] \in {"parked", "failed"} THEN "closing" ELSE "keeping")
    BY <1>4 DEF MarkFails
  <2>2. at[t] = "settled" /\ UNCHANGED <<base, active, db, crashes>>
    BY <1>4, <2>1 DEF MarkFails, Doubtful
  <2>3. faults' \in 0..MaxFaults /\ faults' >= faults + 1 /\ faults' >= faults
    BY <1>0, <2>1, SessionAssumption DEF Doubtful
  <2>4. at[t] \in Holding /\ "closing" \in Holding /\ "keeping" \in Holding /\ db.claim.status \in Allowed("closing")
        /\ db.claim.status \in Allowed("keeping")
    BY <2>2, Alone DEF Holding, Allowed
  <2>5. CASE ~unread /\ db.hist[t] \in {"parked", "failed"}
    <3>1. at' = [at EXCEPT ![t] = "closing"]
      BY <2>1, <2>5 DEF To
    <3>2. Fits(db, t, faults')
      <4>1. ~Has(db, t) => faults > 0
        BY <2>5 DEF SInv, Inv, Missing
      <4> QED BY <1>0, <2>3, <2>5, <4>1 DEF Fits
    <3> QED BY <2>2, <2>3, <2>4, <3>1, <3>2, PlaceKeeps
  <2>6. CASE ~(~unread /\ db.hist[t] \in {"parked", "failed"})
    <3>1. at' = [at EXCEPT ![t] = "keeping"]
      BY <2>1, <2>6 DEF To
    <3> QED BY <2>2, <2>3, <2>4, <3>1, PlaceKeeps
  <2> QED BY <2>5, <2>6
<1> QED BY <1>1, <1>2, <1>3, <1>4

\* The start of a turn and its first event keep the invariant.
LEMMA BeginsKeep ==
  ASSUME SInv, NEW t \in Turns, Start(t) \/ Open(t)
  PROVE  SInv'
<1>0. faults \in 0..MaxFaults /\ faults \in Nat /\ db \in Databases
  BY SessionAssumption DEF SInv, Inv, Typed
<1>1. CASE Start(t)
  <2> DEFINE R == [db.row EXCEPT ![t] = "executing"]
             C == [turn |-> t, status |-> "executing"]
  <2>1. /\ at[t] = "claimed" /\ at' = [at EXCEPT ![t] = "executing"] /\ db.claim = [turn |-> t, status |-> "claimed"]
        /\ UNCHANGED <<base, active, faults, crashes>>
    BY <1>1 DEF Start, To
  <2>2. db.row[t] = "claimed" /\ ~Blocked(db) /\ ~Has(db, t) /\ db.ckpt.version = base[t] /\ db.hist[t] = "none"
    BY <2>1 DEF SInv, Inv, Agreed, Versioned, Fresh
  <2>3. R \in [Turns -> Statuses \cup {"none"}] /\ C \in [turn : Turns \cup {None}, status : Statuses]
        /\ \A u \in Turns : R[u] = IF u = t THEN "executing" ELSE db.row[u]
    BY <1>0, Fields DEF Statuses
  <2>4. [db.claim EXCEPT !.status = "executing"] = C
    BY <2>1
  <2>5. db' = [db EXCEPT !.claim = [db.claim EXCEPT !.status = "executing"],
                         !.row = [db.row EXCEPT ![t] = IF db.row[t] = "claimed" THEN "executing" ELSE db.row[t]]]
    BY <1>0, <1>1 DEF Start, Databases
  <2>6. db' = [db EXCEPT !.claim = C, !.row = R]
    BY <2>2, <2>4, <2>5
  <2>7. C = [turn |-> t, status |-> "executing"]
    OBVIOUS
  <2> HIDE DEF R, C
  <2>8. /\ db' \in Databases /\ db'.claim = C /\ db'.row = R
        /\ db'.ckpt = db.ckpt /\ db'.receipts = db.receipts /\ db'.hist = db.hist
    BY <1>0, <2>3, <2>6 DEF Databases
  <2>9. "executing" \in Holding /\ at[t] \in Holding /\ "executing" \in Allowed("executing")
    BY <2>1 DEF Holding, Allowed
  <2>10. Uncertain(db') /\ Written(db')
    BY <2>1, <2>2, <2>7, <2>8 DEF SInv, Inv, Uncertain, Written, Blocked, Has
  <2>11. ~Blocked(db') /\ ~Has(db', t) /\ \A u \in Turns : Has(db', u) <=> Has(db, u)
    BY <2>2, <2>8 DEF Blocked, Has
  <2>12. db'.claim = [turn |-> t, status |-> "executing"] /\ db'.row[t] = "executing" /\ db'.ckpt.version = base[t]
    BY <2>2, <2>3, <2>7, <2>8
  <2>13. \A u \in Turns : u # t => db'.row[u] = db.row[u] /\ db'.hist[u] = db.hist[u] /\ (Has(db', u) <=> Has(db, u))
    BY <2>3, <2>8, <2>11
  <2>14. db'.hist[t] = "none" /\ db' \in Databases
    BY <2>2, <2>8
  <2>15. faults' \in 0..MaxFaults /\ faults' >= faults /\ UNCHANGED <<base, active, crashes>>
    BY <1>0, <2>1
  <2>16. at' = [at EXCEPT ![t] = "executing"]
    BY <2>1
  <2> QED BY <2>9, <2>10, <2>11, <2>12, <2>13, <2>14, <2>15, <2>16, WriteKeeps
<1>2. CASE Open(t)
  <2> DEFINE H == [db.hist EXCEPT ![t] = "open"]
  <2>1. at[t] = "executing" /\ db.hist[t] = "none" /\ UNCHANGED <<at, base, active, faults, crashes>>
    BY <1>2 DEF Open
  <2>2. H \in [Turns -> Terminals \cup {"none", "open"}] /\ \A u \in Turns : H[u] = IF u = t THEN "open" ELSE db.hist[u]
    BY <1>0, Fields
  <2>3. db' = [db EXCEPT !.hist = H]
    BY <1>0, <1>2 DEF Open, Databases
  <2> HIDE DEF H
  <2>4. /\ db' \in Databases /\ db'.hist = H
        /\ db'.claim = db.claim /\ db'.row = db.row /\ db'.ckpt = db.ckpt /\ db'.receipts = db.receipts
    BY <1>0, <2>2, <2>3 DEF Databases
  <2>5. "executing" \in Holding /\ at[t] \in Holding /\ "executing" \in Allowed("executing")
    BY <2>1 DEF Holding, Allowed
  <2>6. db.claim.turn = t /\ db.claim.status = "executing" /\ at = [at EXCEPT ![t] = "executing"]
    <3>1. db.claim.turn = t /\ db.claim.status \in Allowed("executing")
      BY <2>1, <2>5, Alone
    <3>2. at = [at EXCEPT ![t] = "executing"]
      BY <2>1 DEF SInv, Inv, Typed
    <3> QED BY <3>1, <3>2 DEF Allowed
  <2>7. db.row[t] = "executing" /\ db.claim = [turn |-> t, status |-> "executing"]
    BY <2>6 DEF SInv, Inv, Agreed
  <2>8. ~Blocked(db) /\ ~Has(db, t) /\ db.ckpt.version = base[t]
    BY <2>1 DEF SInv, Inv, Versioned
  <2>9. ~Blocked(db') /\ ~Has(db', t) /\ \A u \in Turns : Has(db', u) <=> Has(db, u)
    BY <2>4, <2>8 DEF Blocked, Has
  <2>10. Uncertain(db')
    BY <2>4, <2>9 DEF SInv, Inv, Uncertain
  <2>11. Written(db')
    <3>1. \A r \in db.receipts : r.turn \in Turns /\ r.turn # t
      BY <1>0, <2>8, Fields DEF Has
    <3> QED BY <2>2, <2>4, <3>1 DEF SInv, Inv, Written
  <2>12. at' = [at EXCEPT ![t] = "executing"]
    BY <2>1, <2>6
  <2>13. db'.claim = [turn |-> t, status |-> "executing"] /\ db'.row[t] = "executing" /\ db'.ckpt.version = base[t]
    BY <2>4, <2>7, <2>8
  <2>14. \A u \in Turns : u # t => db'.row[u] = db.row[u] /\ db'.hist[u] = db.hist[u] /\ (Has(db', u) <=> Has(db, u))
    BY <2>2, <2>4, <2>9
  <2>15. db'.hist[t] = "open" /\ db' \in Databases
    BY <2>2, <2>4
  <2>16. faults' \in 0..MaxFaults /\ faults' >= faults /\ UNCHANGED <<base, active, crashes>>
    BY <1>0, <2>1
  <2> QED BY <2>5, <2>9, <2>10, <2>11, <2>12, <2>13, <2>14, <2>15, <2>16, WriteKeeps
<1> QED BY <1>1, <1>2

\* The end of a turn, with its transcript or alone, keeps the invariant.
LEMMA EndsKeep ==
  ASSUME SInv, NEW t \in Turns, NEW k \in Terminals \ {"restart"}, Commit(t, k) \/ Bare(t, k)
  PROVE  SInv'
<1> DEFINE H == [db.hist EXCEPT ![t] = k]
<1>0. faults \in 0..MaxFaults /\ faults \in Nat /\ db \in Databases /\ base[t] \in Nat
  BY SessionAssumption DEF SInv, Inv, Typed
<1>1. at[t] = "executing" /\ at' = [at EXCEPT ![t] = "settled"] /\ UNCHANGED <<base, active, crashes>>
  BY DEF Commit, Bare, Ends, To
<1>2. at[t] \in Holding /\ "settled" \in Holding /\ Allowed("settled") = {"executing", "committed"}
  BY <1>1 DEF Holding, Allowed
<1>3. db.claim.turn = t /\ db.claim.status = "executing"
  <2>1. db.claim.turn = t /\ db.claim.status \in Allowed("executing")
    BY <1>1, <1>2, Alone
  <2> QED BY <2>1 DEF Allowed
<1>4. db.row[t] = "executing" /\ db.claim = [turn |-> t, status |-> "executing"]
  BY <1>3 DEF SInv, Inv, Agreed
<1>5. ~Blocked(db) /\ ~Has(db, t) /\ db.ckpt.version = base[t]
  BY <1>1 DEF SInv, Inv, Versioned
<1>6. H \in [Turns -> Terminals \cup {"none", "open"}] /\ \A u \in Turns : H[u] = IF u = t THEN k ELSE db.hist[u]
  BY <1>0, Fields
<1>7. \A r \in db.receipts : r.turn \in Turns /\ r.turn # t
  BY <1>0, <1>5, Fields DEF Has
<1>8. CASE Bare(t, k)
  <2>1. db' = [db EXCEPT !.hist = H]
    BY <1>0, <1>8 DEF Bare, Databases
  <2> HIDE DEF H
  <2>2. /\ db' \in Databases /\ db'.hist = H
        /\ db'.claim = db.claim /\ db'.row = db.row /\ db'.ckpt = db.ckpt /\ db'.receipts = db.receipts
    BY <1>0, <1>6, <2>1 DEF Databases
  <2>3. faults' \in 0..MaxFaults /\ faults' >= faults /\ (k # "plain" => faults' > 0)
    BY <1>0, <1>8, Counted DEF Bare
  <2>4. ~Has(db', t) /\ \A u \in Turns : Has(db', u) <=> Has(db, u)
    BY <1>5, <2>2 DEF Has
  <2>5. Uncertain(db')
    BY <1>5, <2>2 DEF SInv, Inv, Uncertain, Blocked
  <2>6. Written(db')
    BY <1>6, <1>7, <2>2 DEF SInv, Inv, Written
  <2>7. db'.hist[t] = k /\ \A u \in Turns : u # t => db'.hist[u] = db.hist[u] /\ db'.row[u] = db.row[u]
    BY <1>6, <2>2
  <2> QED BY <1>1, <1>2, <1>4, <1>5, <2>2, <2>3, <2>4, <2>5, <2>6, <2>7, WriteKeeps
<1>9. CASE Commit(t, k)
  <2> DEFINE x == [turn |-> t, version |-> base[t] + 1, kind |-> k]
             Q == db.receipts \cup {x}
             K == [version |-> base[t] + 1, last |-> t, status |-> "ready"]
             C == [turn |-> t, status |-> "committed"]
             R == [db.row EXCEPT ![t] = "committed"]
  <2>1. x \in [turn : Turns, version : Nat, kind : Terminals] /\ x.turn = t /\ x.version = db.ckpt.version + 1 /\ x.kind = k
    BY <1>0, <1>5
  <2>2. /\ Q \in SUBSET [turn : Turns, version : Nat, kind : Terminals]
        /\ K \in [version : Nat, last : Turns \cup {None}, status : {"none", "ready", "uncertain"}]
        /\ C \in [turn : Turns \cup {None}, status : Statuses]
    <3>1. db.receipts \in SUBSET [turn : Turns, version : Nat, kind : Terminals]
      BY <1>0, Fields
    <3>2. C \in [turn : Turns \cup {None}, status : Statuses]
      BY DEF Statuses
    <3> HIDE DEF x
    <3> QED BY <1>0, <2>1, <3>1, <3>2
  <2>3. R \in [Turns -> Statuses \cup {"none"}] /\ \A u \in Turns : R[u] = IF u = t THEN "committed" ELSE db.row[u]
    BY <1>0, Fields DEF Statuses
  <2>4. db' = [db EXCEPT !.hist = H, !.receipts = Q, !.ckpt = K,
                         !.claim = [db.claim EXCEPT !.status = "committed"], !.row = R]
    BY <1>0, <1>9 DEF Commit, Databases
  <2>5. [db.claim EXCEPT !.status = "committed"] = C
    BY <1>4
  <2>6. db' = [db EXCEPT !.hist = H, !.receipts = Q, !.ckpt = K, !.claim = C, !.row = R]
    BY <2>4, <2>5
  <2>7. K.version = db.ckpt.version + 1 /\ K.status = "ready" /\ C = [turn |-> t, status |-> "committed"]
    BY <1>5
  <2>8. {r.version : r \in Q} = 1..(db.ckpt.version + 1) /\ \A r, s \in Q : (r.version = s.version \/ r.turn = s.turn) => r = s
    <3>1. db.receipts \in SUBSET [turn : Turns, version : Nat, kind : Terminals] /\ db.ckpt.version \in Nat
      BY <1>0, Fields
    <3>2. /\ {r.version : r \in db.receipts} = 1..db.ckpt.version
          /\ \A r, s \in db.receipts : (r.version = s.version \/ r.turn = s.turn) => r = s
      BY DEF SInv, Inv, Written
    <3> HIDE DEF x
    <3>3. \A r \in db.receipts : r.turn # x.turn
      BY <1>7, <2>1
    <3> QED BY <2>1, <3>1, <3>2, <3>3, OneMore
  <2>9. /\ \A r \in Q : H[r.turn] = r.kind
        /\ \A r \in Q : r.turn = t => r.version = db.ckpt.version + 1
        /\ \E r \in Q : r.turn = t
        /\ \A u \in Turns : u # t => ((\E r \in Q : r.turn = u) <=> Has(db, u))
    <3> HIDE DEF x, H
    <3>1. \A r \in db.receipts : db.hist[r.turn] = r.kind
      BY DEF SInv, Inv, Written
    <3> QED BY <1>6, <1>7, <2>1, <3>1 DEF Has
  <2> HIDE DEF H, Q, K, C, R
  <2>10. db' \in Databases
    BY <1>0, <1>6, <2>2, <2>3, <2>6 DEF Databases
  <2>11. db'.hist = H /\ db'.receipts = Q /\ db'.ckpt = K
    BY <1>0, <2>6 DEF Databases
  <2>12. db'.claim = C /\ db'.row = R
    BY <1>0, <2>6 DEF Databases
  <2>13. /\ Has(db', t) /\ \A u \in Turns : u # t => /\ db'.row[u] = db.row[u] /\ db'.hist[u] = db.hist[u]
                                                     /\ (Has(db', u) <=> Has(db, u))
    BY <1>6, <2>3, <2>9, <2>11, <2>12 DEF Has
  <2>14. Uncertain(db')
    <3>1. ~Blocked(db') /\ db'.claim.turn = t
      BY <2>7, <2>11, <2>12 DEF Blocked
    <3> QED BY <2>7, <2>9, <2>11, <3>1 DEF Uncertain
  <2>15. Written(db')
    BY <2>7, <2>8, <2>9, <2>11 DEF Written
  <2>16. db'.claim = [turn |-> t, status |-> "committed"] /\ db'.row[t] = "committed" /\ faults' = faults
    BY <1>9, <2>3, <2>7, <2>12 DEF Commit
  <2>17. faults' \in 0..MaxFaults /\ faults' >= faults
    BY <1>0, <2>16
  <2>18. "committed" \in Allowed("settled")
    BY <1>2
  <2> HIDE DEF K
  <2> QED BY <1>1, <1>2, <2>10, <2>13, <2>14, <2>15, <2>16, <2>17, <2>18, WriteKeeps
<1> QED BY <1>8, <1>9

\* A turn that is marked uncertain keeps the invariant.
LEMMA MarksKeep ==
  ASSUME SInv, NEW t \in Turns, Mark(t) \/ MarkClaimOnly(t)
  PROVE  SInv'
<1> DEFINE C == [turn |-> t, status |-> "uncertain"]
           R == [db.row EXCEPT ![t] = "uncertain"]
           K == [version |-> db.ckpt.version, last |-> t, status |-> "uncertain"]
<1>0. faults \in 0..MaxFaults /\ faults \in Nat /\ db \in Databases
  BY SessionAssumption DEF SInv, Inv, Typed
<1>1. /\ at[t] = "settled" /\ at' = [at EXCEPT ![t] = "keeping"] /\ Live(db, t) /\ UNCHANGED <<base, active, crashes>>
  BY DEF Mark, MarkClaimOnly, Doubtful, To
<1>2. at[t] \in Holding /\ "keeping" \in Holding /\ "uncertain" \in Allowed("keeping")
  BY <1>1 DEF Holding, Allowed
<1>3. faults' \in 0..MaxFaults /\ faults' >= faults
  BY <1>0, SessionAssumption DEF Mark, MarkClaimOnly, Doubtful
<1>4. db.claim.turn = t /\ db.claim.status # "uncertain" /\ db.claim.status # "queued" /\ ~Blocked(db)
  <2>1. db.claim.turn = t /\ db.claim.status # "uncertain" /\ db.claim.status # "queued"
    BY <1>1 DEF Live
  <2>2. Blocked(db) => db.claim.status = "uncertain"
    BY DEF SInv, Inv, Uncertain
  <2> QED BY <2>1, <2>2
<1>5. [db.claim EXCEPT !.status = "uncertain"] = C
  BY <1>0, <1>4, Fields
<1>6. /\ C \in [turn : Turns \cup {None}, status : Statuses]
      /\ K \in [version : Nat, last : Turns \cup {None}, status : {"none", "ready", "uncertain"}]
      /\ R \in [Turns -> Statuses \cup {"none"}] /\ \A u \in Turns : R[u] = IF u = t THEN "uncertain" ELSE db.row[u]
  BY <1>0, Fields DEF Statuses
<1>7. C = [turn |-> t, status |-> "uncertain"] /\ C.turn = t /\ C.status = "uncertain"
      /\ K.last = t /\ K.version = db.ckpt.version
  OBVIOUS
<1>8. MarkedClaim(db, t) = [db EXCEPT !.claim = C, !.row = R]
  <2>1. MarkedClaim(db, t) = [db EXCEPT !.claim = [db.claim EXCEPT !.status = "uncertain"], !.row = R]
    BY <1>0 DEF MarkedClaim, Databases
  <2> QED BY <1>5, <2>1
<1> DEFINE m == MarkedClaim(db, t)
<1>9. /\ m \in Databases /\ m.claim = C /\ m.row = R /\ m.ckpt = db.ckpt /\ m.receipts = db.receipts /\ m.hist = db.hist
  <2> HIDE DEF C, R, m
  <2>1. m = [db EXCEPT !.claim = C, !.row = R]
    BY <1>8 DEF m
  <2> QED BY <1>0, <1>6, <2>1 DEF Databases
<1>10. /\ db' \in Databases /\ db'.claim = C /\ db'.row = R /\ db'.receipts = db.receipts /\ db'.hist = db.hist
       /\ db'.ckpt \in {db.ckpt, K}
  <2>1. CASE MarkClaimOnly(t)
    BY <1>9, <2>1 DEF MarkClaimOnly
  <2>2. CASE Mark(t)
    <3> DEFINE k == [db.ckpt EXCEPT !.last = t, !.status = "uncertain"]
    <3>1. k = K
      <4>1. db.ckpt \in [version : Nat, last : Turns \cup {None}, status : {"none", "ready", "uncertain"}]
        BY <1>0, Fields
      <4>2. k \in [version : Nat, last : Turns \cup {None}, status : {"none", "ready", "uncertain"}]
            /\ k.version = db.ckpt.version /\ k.last = t /\ k.status = "uncertain"
        BY <4>1
      <4> HIDE DEF k
      <4> QED BY <4>2
    <3>2. db' = [m EXCEPT !.ckpt = [m.ckpt EXCEPT !.last = t, !.status = "uncertain"]]
      <4> HIDE DEF m, k, K, C, R
      <4> QED BY <2>2, <1>9 DEF Mark, Marked, Databases, m
    <3> HIDE DEF k, K, C, R, m
    <3>3. db' = [m EXCEPT !.ckpt = K]
      BY <3>1, <3>2, <1>9 DEF k
    <3> QED BY <1>6, <1>9, <3>3 DEF Databases
  <2> QED BY <2>1, <2>2
<1> HIDE DEF C, R, K, m
<1>11. \A u \in Turns : Has(db', u) <=> Has(db, u)
  BY <1>10 DEF Has
<1>12. db'.claim.turn = t /\ db'.claim.status = "uncertain" /\ db'.ckpt.version = db.ckpt.version
       /\ (Blocked(db') => db'.ckpt.last = t)
  BY <1>4, <1>7, <1>10 DEF Blocked
<1>13. Uncertain(db')
  <2>1. \A r \in db.receipts : r.turn = t => r.version = db.ckpt.version
    BY <1>4 DEF SInv, Inv, Uncertain
  <2> QED BY <1>7, <1>10, <1>12, <2>1 DEF Uncertain
<1>14. Written(db')
  BY <1>10, <1>12 DEF SInv, Inv, Written
<1>15. db'.claim = [turn |-> t, status |-> "uncertain"] /\ db'.row[t] = "uncertain"
  BY <1>6, <1>7, <1>10
<1>16. \A u \in Turns : u # t => db'.row[u] = db.row[u] /\ db'.hist[u] = db.hist[u] /\ (Has(db', u) <=> Has(db, u))
  BY <1>6, <1>10, <1>11
<1>17. db'.hist[t] \in {"parked", "failed"} /\ ~Has(db', t) => faults' > 0
  BY <1>0, <1>3, <1>10, <1>11 DEF SInv, Inv, Missing
<1> QED BY <1>1, <1>2, <1>3, <1>10, <1>13, <1>14, <1>15, <1>16, <1>17, WriteKeeps

\* A turn that leaves misses nothing, or leaves its claim behind.
LEMMA CloseKeeps ==
  ASSUME SInv, NEW t \in Turns, Close(t)
  PROVE  SInv'
<1>0. /\ at[t] \in {"closing", "keeping"} /\ at' = [at EXCEPT ![t] = "gone"] /\ active' = FALSE
      /\ UNCHANGED <<base, crashes>>
      /\ \/ db' = (IF at[t] = "closing" THEN Released(db, t) ELSE db) /\ UNCHANGED faults
         \/ at[t] = "closing" /\ db' = db /\ Fault
  BY DEF Close, To
<1>1. /\ active /\ db.claim.turn = t /\ db.claim.status \in Allowed(at[t]) /\ db \in Databases
      /\ \A u \in Turns : u # t => at[u] \notin Holding
  BY <1>0, Alone DEF Holding
<1>2. /\ at' \in [Turns -> Holding \cup {"new", "waiting", "gone"}]
      /\ at'[t] = "gone" /\ \A u \in Turns : u # t => at'[u] = at[u]
  BY <1>0, Moves
<1>3. \A u \in Turns : at'[u] \notin Holding
  BY <1>1, <1>2 DEF Holding
<1>4. faults' \in 0..MaxFaults /\ faults' >= faults
  BY <1>0, Counted, SessionAssumption DEF SInv, Inv, Typed
<1>5. Inv(db, at, base, active, faults', crashes)
  BY <1>4, OneMoreFault DEF SInv
<1>6. Leased(db', at', active') /\ Versioned(db', at', base', faults')
  BY <1>3 DEF Leased, Versioned, Holding
<1>7. at[t] # "waiting" /\ at[t] # "new" /\ at[t] # "claimed"
  BY <1>0
<1>8. CASE db' = db
  <2>1. Typed(db', at', base', active', faults', crashes')
    BY <1>0, <1>2, <1>5, <1>8 DEF Inv, Typed
  <2>2. Left(db', at', faults', crashes')
    BY <1>0, <1>2, <1>5, <1>7, <1>8 DEF Inv, Left
  <2>3. Fresh(db', at')
    BY <1>1, <1>2, <1>5, <1>8 DEF Inv, Fresh
  <2> QED BY <1>5, <1>6, <1>8, <2>1, <2>2, <2>3 DEF SInv, Inv
<1>9. CASE at[t] = "closing" /\ db' = Released(db, t) /\ faults' = faults
  <2> DEFINE R == [db.row EXCEPT ![t] = "none"]
  <2>1. R \in [Turns -> Statuses \cup {"none"}] /\ Free \in [turn : Turns \cup {None}, status : Statuses]
        /\ Free.turn = None /\ Free.status = "queued" /\ \A u \in Turns : R[u] = IF u = t THEN "none" ELSE db.row[u]
    BY <1>1, Fields DEF Free, Statuses
  <2>2. db' = [db EXCEPT !.claim = Free, !.row = R]
    <3>1. Live(db, t)
      BY <1>1, <1>9 DEF Allowed, Live
    <3> QED BY <3>1, <1>1, <1>9 DEF Released, Databases
  <2> HIDE DEF R
  <2>3. /\ db' \in Databases /\ db'.claim = Free /\ db'.row = R
        /\ db'.ckpt = db.ckpt /\ db'.receipts = db.receipts /\ db'.hist = db.hist
    BY <1>1, <2>1, <2>2 DEF Databases
  <2>4. Typed(db', at', base', active', faults', crashes')
    BY <1>0, <1>2, <1>5, <2>3 DEF Inv, Typed
  <2>5. Agreed(db')
    <3>1. \A u \in Turns : u # t => db.row[u] \in {"none", "queued"}
      <4>1. Agreed(db)
        BY <1>5 DEF Inv
      <4>2. \A u \in Turns : [turn |-> u, status |-> db.row[u]].turn = u
        OBVIOUS
      <4> QED BY <1>1, <4>1, <4>2 DEF Agreed
    <3> QED BY <2>1, <2>3, <3>1 DEF Agreed
  <2>6. Left(db', at', faults', crashes') /\ Fresh(db', at')
    BY <1>0, <1>2, <1>5, <1>7, <2>1, <2>3 DEF Inv, Left, Fresh
  <2>7. ~Blocked(db)
    <3>1. db.claim.status # "uncertain"
      BY <1>1, <1>9 DEF Allowed
    <3>2. Blocked(db) => db.claim.status = "uncertain"
      BY <1>5 DEF Inv, Uncertain
    <3> QED BY <3>1, <3>2
  <2>8. Uncertain(db') /\ Written(db')
    BY <1>5, <2>1, <2>3, <2>7 DEF Inv, Uncertain, Written, Blocked
  <2>9. Missing(db', faults')
    <3>1. \A u \in Turns : (Fits(db', u, faults') <=> Fits(db, u, faults')) /\ (Has(db', u) <=> Has(db, u))
      BY <2>3 DEF Fits, Has
    <3>2. \A u \in Turns : Fits(db, u, faults')
      BY <1>1, <1>5, <1>9 DEF Inv, Missing, Versioned
    <3> QED BY <1>5, <2>3, <3>1, <3>2 DEF Inv, Missing
  <2> QED BY <1>6, <2>4, <2>5, <2>6, <2>8, <2>9 DEF SInv, Inv
<1> QED BY <1>0, <1>8, <1>9

\* The end of the program leaves the database to the next one.
LEMMA CrashKeeps ==
  ASSUME SInv, Crash
  PROVE  SInv'
<1>0. /\ crashes < MaxCrashes /\ crashes' = crashes + 1 /\ active' = FALSE /\ base' = base /\ faults' = faults
      /\ at' = [t \in Turns |-> IF at[t] = "new" THEN "new" ELSE "gone"] /\ db' \in Halfway
  BY DEF Crash
<1>1. faults \in Nat /\ crashes \in Nat /\ crashes' \in 0..MaxCrashes /\ crashes' + faults > 0
  BY <1>0, SessionAssumption DEF SInv, Inv, Typed
<1>2. at' \in [Turns -> Holding \cup {"new", "waiting", "gone"}] /\ \A t \in Turns : at'[t] = IF at[t] = "new" THEN "new" ELSE "gone"
  BY <1>0
<1>3. \A t \in Turns : at'[t] \notin Holding /\ at'[t] \notin {"waiting", "claimed"}
  BY <1>2 DEF Holding
<1>4. Inv(db, at', base, FALSE, faults, crashes')
  <2>1. Typed(db, at', base, FALSE, faults, crashes')
    BY <1>1, <1>2 DEF SInv, Inv, Typed
  <2>2. Leased(db, at', FALSE) /\ Versioned(db, at', base, faults)
    BY <1>3 DEF Leased, Versioned, Holding
  <2>3. Left(db, at', faults, crashes')
    BY <1>1 DEF Left
  <2>4. Fresh(db, at')
    <3>1. db.claim.status # "queued" => db.claim.turn \in Turns /\ at[db.claim.turn] # "new"
      BY DEF SInv, Inv, Fresh, Agreed, Holding
    <3> QED BY <1>2, <3>1 DEF SInv, Inv, Fresh
  <2> QED BY <2>1, <2>2, <2>3, <2>4 DEF SInv, Inv
<1>5. Inv(db', at', base, FALSE, faults, crashes')
  <2>1. db' \in {db, Stale(db), RestartTerminal(Stale(db))}
    BY <1>0 DEF Halfway
  <2> QED BY <1>4, <2>1, RecoveryKeeps
<1> QED BY <1>0, <1>5 DEF SInv

\* Every step keeps the invariant.
LEMMA StepInv == SInv /\ [Next]_vars => SInv'
<1> SUFFICES ASSUME SInv, [Next]_vars PROVE SInv'
  OBVIOUS
<1>1. CASE UNCHANGED vars
  BY <1>1 DEF vars, SInv
<1>2. CASE Visit
  <2>1. active = FALSE
    BY <1>2 DEF Visit, SInv, Inv, Typed
  <2>2. Inv(Recovered(db), at, base, FALSE, faults, crashes)
    BY <2>1, RecoveryKeeps DEF SInv
  <2> QED BY <1>2, <2>1, <2>2 DEF Visit, SInv
<1>3. CASE Crash
  BY <1>3, CrashKeeps
<1>4. ASSUME NEW t \in Turns, Arrive(t) \/ PollBlocked(t) \/ PollWaits(t) \/ PollFails(t) \/ GiveUp(t)
      PROVE  SInv'
  BY <1>4, WaitingKeeps
<1>5. ASSUME NEW t \in Turns, PollClaims(t)
      PROVE  SInv'
  BY <1>5, ClaimKeeps
<1>6. ASSUME NEW t \in Turns, Abandon(t) \/ Unwritten(t) \/ Fine(t) \/ MarkFails(t)
      PROVE  SInv'
  BY <1>6, StepsKeep
<1>7. ASSUME NEW t \in Turns, Start(t) \/ Open(t)
      PROVE  SInv'
  BY <1>7, BeginsKeep
<1>8. ASSUME NEW t \in Turns, NEW k \in Terminals \ {"restart"}, Commit(t, k) \/ Bare(t, k)
      PROVE  SInv'
  BY <1>8, EndsKeep
<1>9. ASSUME NEW t \in Turns, Mark(t) \/ MarkClaimOnly(t)
      PROVE  SInv'
  BY <1>9, MarksKeep
<1>10. ASSUME NEW t \in Turns, Close(t)
       PROVE  SInv'
  BY <1>10, CloseKeeps
<1> QED BY <1>1, <1>2, <1>3, <1>4, <1>5, <1>6, <1>7, <1>8, <1>9, <1>10 DEF Next

\* The invariant holds in every state.
LEMMA Invariance == Spec => []SInv
<1>1. Init => SInv
  BY InitInv
<1>2. SInv /\ [Next]_vars => SInv'
  BY StepInv
<1> QED BY <1>1, <1>2, PTL DEF Spec

\* Every variable keeps its type.
THEOREM Typing == Spec => []TypeOK
<1>1. SInv => TypeOK
  BY DEF SInv, Inv, Typed, TypeOK
<1> QED BY <1>1, Invariance, PTL

\* A running turn, and no other, has the claim and the row it will commit with,
\* whatever fails or crashes.
THEOREM OneLease == Spec => []LeaseStands
<1>1. SInv => LeaseStands
  <2> SUFFICES ASSUME SInv PROVE LeaseStands
    OBVIOUS
  <2>1. Leased(db, at, active) /\ Agreed(db) /\ Left(db, at, faults, crashes)
    BY DEF SInv, Inv
  <2>2. \A t \in Turns : at[t] \in Holding =>
          active /\ db.claim.turn = t /\ db.claim.status \in Allowed(at[t])
    BY <2>1 DEF Leased
  <2>3. crashes + faults = faults + crashes
    BY SessionAssumption DEF SInv, Inv, Typed
  <2> QED BY <2>1, <2>2, <2>3 DEF LeaseStands, Allowed, Agreed, Left
<1> QED BY <1>1, Invariance, PTL

\* The transcript has one version after the other, as History says, and no turn
\* runs while the end of another is missing there.
THEOREM NothingIsSkipped == Spec => []NothingSkipped
<1>1. SInv => NothingSkipped
  <2> SUFFICES ASSUME SInv PROVE NothingSkipped
    OBVIOUS
  <2>1. Recorded
    BY DEF SInv, Inv, Written, Recorded
  <2>2. ASSUME NEW t \in Turns, NEW u \in Turns, at[t] \in {"claimed", "executing"}, u # t
        PROVE  Accounted(u)
    <3>1. at[t] \in Holding
      BY <2>2 DEF Holding
    <3>2. db.claim.turn # u
      BY <3>1, <2>2, Alone
    <3>3. Fits(db, u, faults)
      BY <3>2 DEF SInv, Inv, Missing
    <3> QED BY <3>3 DEF Fits, Accounted
  <2> QED BY <2>1, <2>2 DEF NothingSkipped
<1> QED BY <1>1, Invariance, PTL

\* Whatever failed or crashed, the next turn can run, but for a turn that left
\* no event, or an end and no transcript.
THEOREM CanRecover == Spec => []Recoverable
<1>1. SInv => Recoverable
  <2> DEFINE e == RestartTerminal(Stale(db))
             d == Recovered(db)
             t == d.ckpt.last
  <2> SUFFICES ASSUME SInv, ~active, Blocked(d), d.hist[t] # "none"
               PROVE  d.hist[t] \in Terminals \ {"restart"} /\ ~Has(d, t)
    BY DEF Recoverable
  <2>1. active = FALSE
    BY DEF SInv, Inv, Typed
  <2>2. Inv(e, at, base, FALSE, faults, crashes)
    BY <2>1, RecoveryKeeps DEF SInv
  <2>3. d = Reconcile(e)
    BY DEF Recovered
  <2>4. e \in Databases /\ Stale(db) \in Databases
    BY <2>1, <2>2, RecoveryKeeps DEF SInv, Inv, Typed
  <2>5. Blocked(e)
    BY <2>3 DEF Reconcile
  <2>6. e.ckpt.last \in Turns /\ e.claim.turn = e.ckpt.last /\ e.claim.status = "uncertain"
    BY <2>2, <2>5, BlockedBy
  <2>7. e.hist[e.ckpt.last] # "open"
    <3> DEFINE q == Stale(db)
    <3>1. Inv(q, at, base, FALSE, faults, crashes)
      BY <2>1, RecoveryKeeps DEF SInv
    <3>2. CASE ~(Blocked(q) /\ q.hist[q.ckpt.last] = "open")
      BY <2>5, <3>2 DEF RestartTerminal
    <3>3. CASE Blocked(q) /\ q.hist[q.ckpt.last] = "open"
      <4>1. e = [q EXCEPT !.hist = [q.hist EXCEPT ![q.ckpt.last] = "restart"]] /\ q.ckpt.last \in Turns
        BY <2>4, <3>1, <3>3, BlockedBy DEF RestartTerminal, Databases
      <4> HIDE DEF q
      <4>2. q \in Databases
        BY <2>4 DEF q
      <4>3. e.ckpt = q.ckpt /\ e.hist = [q.hist EXCEPT ![q.ckpt.last] = "restart"]
        BY <4>1, <4>2 DEF Databases
      <4>4. e.hist[e.ckpt.last] = "restart"
        BY <4>1, <4>2, <4>3, Fields
      <4> QED BY <4>4
    <3> QED BY <3>2, <3>3
  <2>8. ASSUME e.hist[e.ckpt.last] = "restart" \/ Has(e, e.ckpt.last)
        PROVE  FALSE
    <3>1. \A v \in Nat : \A b \in Databases : b.ckpt = e.ckpt /\ b.claim = e.claim /\ b.row = e.row => ~Blocked(Ready(b, v))
      <4> SUFFICES ASSUME NEW v \in Nat, NEW b \in Databases, b.ckpt = e.ckpt /\ b.claim = e.claim /\ b.row = e.row
                   PROVE  ~Blocked(Ready(b, v))
        OBVIOUS
      <4>1. b.ckpt.last \in Turns /\ b.claim = [turn |-> b.ckpt.last, status |-> "uncertain"] /\ b.row[b.ckpt.last] = "uncertain"
        BY <2>2, <2>5, BlockedBy
      <4>2. Ready(b, v).ckpt = [version |-> v, last |-> b.ckpt.last, status |-> "ready"]
        BY <4>1, ReadyFields
      <4>3. [version |-> v, last |-> b.ckpt.last, status |-> "ready"].status = "ready"
        OBVIOUS
      <4> QED BY <4>2, <4>3 DEF Blocked
    <3> HIDE DEF e
    <3>2. CASE e.hist[e.ckpt.last] = "restart" /\ ~Has(e, e.ckpt.last)
      <4> DEFINE x == [turn |-> e.ckpt.last, version |-> e.ckpt.version + 1, kind |-> "restart"]
                 Q == e.receipts \cup {x}
                 g == [e EXCEPT !.receipts = Q]
      <4>1. d = Ready(g, e.ckpt.version + 1)
        BY <2>3, <2>5, <3>2 DEF Reconcile
      <4>2. Q \in SUBSET [turn : Turns, version : Nat, kind : Terminals] /\ e.ckpt.version + 1 \in Nat
        BY <2>4, <2>6, Fields DEF Terminals
      <4> HIDE DEF Q
      <4>3. g \in Databases /\ g.ckpt = e.ckpt /\ g.claim = e.claim /\ g.row = e.row
        BY <2>4, <4>2 DEF Databases
      <4> HIDE DEF g, d
      <4>4. ~Blocked(d)
        BY <3>1, <4>1, <4>2, <4>3
      <4> QED BY <4>4
    <3>3. CASE Has(e, e.ckpt.last)
      <4>1. \E r \in e.receipts : r.turn = e.ckpt.last /\ r.version = e.ckpt.version
        BY <2>2, <2>6, <3>3 DEF Has, Inv, Uncertain
      <4>2. d = Ready(e, e.ckpt.version)
        BY <2>3, <2>5, <3>3, <4>1 DEF Reconcile
      <4>3. e.ckpt.version \in Nat
        BY <2>4, Fields
      <4> HIDE DEF d
      <4>4. ~Blocked(d)
        BY <2>4, <3>1, <4>2, <4>3
      <4> QED BY <4>4
    <3> QED BY <2>8, <3>2, <3>3
  <2>9. d = e
    BY <2>3, <2>8 DEF Reconcile, Has
  <2>10. e.hist[e.ckpt.last] \in Terminals \cup {"none", "open"}
    BY <2>4, <2>6, Fields
  <2> HIDE DEF e, d
  <2> QED BY <2>7, <2>8, <2>9, <2>10 DEF Terminals
<1> QED BY <1>1, Invariance, PTL
=============================================================================
