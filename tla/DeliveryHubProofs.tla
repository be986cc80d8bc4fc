-------------------------- MODULE DeliveryHubProofs -------------------------
(***************************************************************************)
(* A result is handed to the driver once, not behind a newer one of its    *)
(* task, and journal, backlog and runs agree on what waits: for any number *)
(* of runs, tasks, flushes, failed writes and restarts.                    *)
(*                                                                         *)
(* SentOnce is not inductive by itself: a claim must know that what waits  *)
(* in the journal was not sent, and a refusal that what it takes back is   *)
(* in flight at one place only (HubInv). For the other two, HandInv says   *)
(* of each run where it is and what may be said of it there.               *)
(***************************************************************************)
EXTENDS DeliveryHub, SequenceTheorems, WellFoundedInduction, TLAPS

Statuses == {"none", "deferred", "delivering"} \cup Final
Awaits(f) == flush[f].step = "await"

Typed ==
  /\ row \in [Runs -> Statuses] /\ sent \in [Runs -> {0, 1}]
  /\ told = [r \in Runs |-> told[r]] /\ direct \subseteq Runs
  /\ flush = [f \in Flushes |-> [step |-> flush[f].step, rest |-> flush[f].rest, item |-> flush[f].item]]

Unsent == \A r \in Runs :
  /\ row[r] \in {"none", "deferred"} \/ told[r] = "new" => sent[r] = 0
  /\ row[r] = "deferred" => told[r] # "new"

InFlight ==
  /\ \A r \in direct : sent[r] = 1
  /\ \A f \in Flushes : Awaits(f) => /\ flush[f].item \in Runs /\ flush[f].item \notin direct
                                     /\ sent[flush[f].item] = 1
  /\ \A f, g \in Flushes : f # g /\ Awaits(f) /\ Awaits(g) => flush[f].item # flush[g].item

HubInv == Typed /\ Unsent /\ InFlight

\* The invariant holds at the start.
LEMMA InitInv == Init => HubInv
BY DEF Init, HubInv, Typed, Unsent, InFlight, Awaits, Statuses, Idle

\* Summing up makes no run a new one, and leaves a new one alone.
LEMMA SyncedNew ==
  ASSUME NEW rows \in [Runs -> Statuses], NEW said, NEW r \in Runs, Synced(rows, said)[r] = "new"
  PROVE  said[r] = "new"
BY DEF Synced, Summary, Statuses, Final

\* The journal writes one of the statuses, or nothing.
LEMMA JournalWrites ==
  ASSUME NEW r \in Runs, NEW statuses, NEW n, Journal(r, statuses, n)
  PROVE  row' = row \/ row' = [row EXCEPT ![r] = statuses[n + 1]]
BY DEF Journal

\* A step that sends nothing and takes nothing back keeps the invariant, if what
\* it leaves waiting was not sent.
LEMMA QuietKeeps ==
  ASSUME HubInv, Typed', Unsent', sent' = sent, direct' \subseteq direct,
         \A f \in Flushes : Awaits(f)' => Awaits(f) /\ flush'[f].item = flush[f].item
  PROVE  HubInv'
BY DEF HubInv, Typed, InFlight, Awaits

\* What becomes of the flushes.
LEMMA GoesOnKeeps ==
  ASSUME Typed, NEW f \in Flushes, GoesOn(f) \/ Aborts(f), flush[f].step = "loop" \/ Aborts(f)
  PROVE  /\ flush' = [g \in Flushes |-> [step |-> flush'[g].step, rest |-> flush'[g].rest, item |-> flush'[g].item]]
         /\ \A g \in Flushes : flush'[g].step = "await" => flush[g].step = "await" /\ flush'[g].item = flush[g].item
BY DEF Typed, GoesOn, Aborts, Idle

\* A flush that goes on after an answer no longer waits for it.
LEMMA ResumesKeeps ==
  ASSUME Typed, NEW f \in Flushes, Resumes(f) \/ Aborts(f)
  PROVE  /\ flush' = [g \in Flushes |-> [step |-> flush'[g].step, rest |-> flush'[g].rest, item |-> flush'[g].item]]
         /\ flush'[f].step # "await"
         /\ \A g \in Flushes : g # f => flush'[g] = flush[g]
BY DEF Typed, Resumes, Aborts, Idle

\* The invariant is kept by the delivery of a result.
LEMMA DeliverKeeps ==
  ASSUME HubInv, NEW r \in Runs, DeliverThrows(r) \/ Defer(r) \/ Send(r) \/ Answered(r)
  PROVE  HubInv'
<1>1. CASE DeliverThrows(r)
  <2>1. Typed'
    BY <1>1 DEF DeliverThrows, HubInv, Typed, Statuses, Final, Synced
  <2>2. \A x \in Runs : row'[x] \in {"none", "deferred"} => row[x] = row'[x]
    BY <1>1 DEF DeliverThrows, HubInv, Typed
  <2>4. PICK said \in {told, Synced(row', told)} : told' = [said EXCEPT ![r] = "failed"]
    BY <1>1 DEF DeliverThrows
  <2>5. said = [x \in Runs |-> said[x]] /\ \A x \in Runs : said[x] = "new" => told[x] = "new"
    BY <2>1, <2>4, SyncedNew DEF HubInv, Typed, Synced
  <2>3. \A x \in Runs : told'[x] = "new" => told[x] = "new"
    BY <2>4, <2>5
  <2> QED BY <1>1, <2>1, <2>2, <2>3, QuietKeeps DEF DeliverThrows, HubInv, Unsent, Awaits
<1>2. CASE Defer(r)
  <2>1. Typed'
    BY <1>2 DEF Defer, HubInv, Typed, Statuses, Final, Synced
  <2>2. \A x \in Runs : row'[x] \in {"none", "deferred"} => row[x] = row'[x] \/ x = r
    BY <1>2 DEF Defer, HubInv, Typed
  <2>5. PICK said \in {told, Synced(row', told)}, v \in {"pending", "failed"} :
          told' = [said EXCEPT ![r] = v]
    BY <1>2 DEF Defer
  <2>6. said = [x \in Runs |-> said[x]] /\ \A x \in Runs : said[x] = "new" => told[x] = "new"
    BY <2>1, SyncedNew DEF HubInv, Typed, Synced
  <2>3. \A x \in Runs : told'[x] = "new" => told[x] = "new"
    BY <2>5, <2>6
  <2>4. told[r] = "new" /\ sent' = sent /\ direct' = direct /\ flush' = flush
    BY <1>2 DEF Defer, Asks
  <2>7. told'[r] # "new"
    BY <2>5, <2>6
  <2> QED BY <2>1, <2>2, <2>3, <2>4, <2>7, QuietKeeps DEF HubInv, Unsent, Awaits
<1>3. CASE Send(r)
  <2>1. told[r] = "new" /\ flush' = flush /\ told'[r] # "new"
    BY <1>3 DEF Send, Asks, HubInv, Typed, Synced
  <2>2. sent[r] = 0
    BY <2>1 DEF HubInv, Unsent
  <2>a. PICK n \in 0..2, said \in {told, Synced(row', told)} :
          /\ row' = [x \in Runs |-> IF x = r THEN CASE n = 0 -> "delivering" [] n = 1 -> "failed" [] n = 2 -> row[r]
                                   ELSE IF Contains(Older(r), x) THEN "superseded" ELSE row[x]]
          /\ told' = [said EXCEPT ![r] = CASE n = 0 -> "running" [] n = 1 -> "degraded" [] n = 2 -> "failed"]
          /\ IF n = 0 THEN direct' = direct \cup {r} /\ sent' = [sent EXCEPT ![r] = @ + 1]
             ELSE UNCHANGED <<direct, sent>>
    BY <1>3 DEF Send
  <2>b. row' \in [Runs -> Statuses]
    BY <2>a DEF HubInv, Typed, Statuses, Final
  <2>c. said = [x \in Runs |-> said[x]] /\ \A x \in Runs : said[x] = "new" => told[x] = "new"
    BY <2>a, <2>b, SyncedNew DEF HubInv, Typed, Synced
  <2>3. Typed'
    BY <2>1, <2>2, <2>a, <2>b, <2>c DEF HubInv, Typed
  <2>4. \A x \in Runs : row'[x] \in {"none", "deferred"} => row[x] = row'[x]
    BY <2>a DEF HubInv, Typed
  <2>5. \A x \in Runs : told'[x] = "new" => told[x] = "new"
    BY <2>a, <2>c
  <2>6. \/ sent' = sent /\ direct' = direct
        \/ /\ sent' = [sent EXCEPT ![r] = @ + 1] /\ direct' = direct \cup {r}
           /\ row'[r] = "delivering"
    <3>1. CASE n = 0
      <4>1. direct' = direct \cup {r} /\ sent' = [sent EXCEPT ![r] = @ + 1]
        BY <2>a, <3>1
      <4>2. \A x \in Runs : x = r => row'[x] = "delivering"
        BY <2>a, <3>1
      <4> QED BY <4>1, <4>2
    <3>2. CASE n # 0
      <4>1. UNCHANGED <<direct, sent>>
        BY <2>a, <3>2
      <4> QED BY <4>1
    <3> QED BY <3>1, <3>2
  <2>7. CASE sent' = sent /\ direct' = direct
    BY <2>1, <2>3, <2>4, <2>5, <2>7, QuietKeeps DEF HubInv, Unsent, Awaits
  <2>8. CASE /\ sent' = [sent EXCEPT ![r] = @ + 1] /\ direct' = direct \cup {r}
             /\ row'[r] = "delivering"
    <3>1. sent'[r] = 1 /\ \A x \in Runs : x # r => sent'[x] = sent[x]
      BY <2>2, <2>8 DEF HubInv, Typed
    <3>2. Unsent'
      BY <2>1, <2>4, <2>5, <2>8, <3>1 DEF HubInv, Unsent
    <3>3. \A f \in Flushes : Awaits(f) => flush[f].item # r
      BY <2>2 DEF HubInv, InFlight
    <3>4. InFlight'
      BY <2>1, <2>8, <3>1, <3>3 DEF HubInv, Typed, InFlight, Awaits
    <3> QED BY <2>3, <3>2, <3>4 DEF HubInv
  <2> QED BY <2>6, <2>7, <2>8
<1>4. CASE Answered(r)
  <2>1. /\ r \in direct /\ direct' = direct \ {r} /\ flush' = flush
        /\ told' = [told EXCEPT ![r] = told'[r]] /\ told'[r] # "new"
    BY <1>4 DEF Answered, Returns, HubInv, Typed
  <2>2. sent[r] = 1
    BY <2>1 DEF HubInv, InFlight
  <2>3. /\ row' = [row EXCEPT ![r] = row'[r]]
        /\ row'[r] \in Statuses /\ (row'[r] = row[r] \/ row'[r] \in Final)
    BY <1>4 DEF Answered, Journal, HubInv, Typed, Statuses, Final
  <2>4. sent' = sent \/ sent' = [sent EXCEPT ![r] = @ - 1]
    BY <1>4 DEF Answered
  <2>5. Typed'
    BY <2>1, <2>2, <2>3, <2>4 DEF HubInv, Typed
  <2>6. \A x \in Runs : sent'[x] = sent[x] \/ (x = r /\ sent'[x] = 0)
    BY <2>2, <2>4 DEF HubInv, Typed
  <2>7. Unsent'
    BY <2>1, <2>3, <2>5, <2>6 DEF HubInv, Typed, Unsent, Final
  <2>8. \A f \in Flushes : Awaits(f) => flush[f].item # r
    BY <2>1 DEF HubInv, InFlight
  <2>9. InFlight'
    BY <2>1, <2>6, <2>8 DEF HubInv, Typed, InFlight, Awaits
  <2> QED BY <2>5, <2>7, <2>9 DEF HubInv
<1> QED BY <1>1, <1>2, <1>3, <1>4

\* The invariant is kept by a flush.
LEMMA FlushKeepsInv ==
  ASSUME HubInv, NEW f \in Flushes, FlushStep(f)
  PROVE  HubInv'
<1>1. CASE FlushEnds(f)
  <2>1. Typed'
    BY <1>1, GoesOnKeeps DEF FlushEnds, HubInv, Typed, Synced, journal
  <2>2. \A x \in Runs : told'[x] = "new" => told[x] = "new"
    BY <1>1, SyncedNew DEF FlushEnds, HubInv, Typed
  <2> QED BY <1>1, <2>1, <2>2, QuietKeeps, GoesOnKeeps DEF FlushEnds, HubInv, Unsent, Awaits, journal
<1>2. ASSUME NEW r \in Runs, FlushSettles(f, r) \/ FlushSkips(f, r) \/ FlushKeeps(f, r)
      PROVE  HubInv'
  <2>1. /\ GoesOn(f) \/ Aborts(f)
        /\ sent' = sent /\ told' = told /\ direct' = direct
    BY <1>2 DEF FlushSettles, FlushSkips, FlushKeeps, Current, At
  <2>2. flush[f].step = "loop"
    BY <1>2 DEF FlushSettles, FlushSkips, FlushKeeps, Current, At
  <2>3. row' = row \/ row' = [row EXCEPT ![r] = "expired"] \/ row' = [row EXCEPT ![r] = "superseded"]
    BY <1>2 DEF FlushSettles, FlushSkips, FlushKeeps, Journal, journal
  <2>4. Typed'
    BY <2>1, <2>2, <2>3, GoesOnKeeps DEF HubInv, Typed, Statuses, Final
  <2>5. Unsent'
    BY <2>1, <2>3 DEF HubInv, Typed, Unsent
  <2> QED BY <2>1, <2>2, <2>4, <2>5, QuietKeeps, GoesOnKeeps DEF HubInv, Awaits
<1>3. ASSUME NEW r \in Runs, FlushSends(f, r)
      PROVE  HubInv'
  <2>1. /\ row[r] = "deferred" /\ flush[f].step = "loop" /\ told' = told /\ direct' = direct
    BY <1>3 DEF FlushSends, Current, At
  <2>2. sent[r] = 0
    BY <2>1 DEF HubInv, Unsent
  <2>3. \/ /\ GoesOn(f) \/ Aborts(f)
           /\ sent' = sent /\ (row' = row \/ row' = [row EXCEPT ![r] = "deferred"])
        \/ /\ flush' = [flush EXCEPT ![f] = [step |-> "await", rest |-> Tail(flush[f].rest), item |-> r]]
           /\ sent' = [sent EXCEPT ![r] = @ + 1] /\ row' = [row EXCEPT ![r] = "delivering"]
    <3>1. PICK n \in 0..2 :
            /\ Journal(r, <<"delivering", "deferred">>, n)
            /\ CASE n = 0 -> /\ flush' = [flush EXCEPT ![f] = [step |-> "await", rest |-> Tail(@.rest), item |-> r]]
                             /\ sent' = [sent EXCEPT ![r] = @ + 1]
                             /\ UNCHANGED deferred
                 [] n = 1 -> GoesOn(f) /\ deferred' = Append(deferred, r) /\ UNCHANGED sent
                 [] n = 2 -> Aborts(f) /\ UNCHANGED <<deferred, sent>>
      BY <1>3 DEF FlushSends
    <3>2. CASE n = 0
      BY <3>1, <3>2 DEF Journal
    <3>3. CASE n = 1
      BY <3>1, <3>3 DEF Journal
    <3>4. CASE n = 2
      BY <3>1, <3>4 DEF Journal
    <3> QED BY <3>2, <3>3, <3>4
  <2>4. CASE /\ GoesOn(f) \/ Aborts(f)
             /\ sent' = sent /\ (row' = row \/ row' = [row EXCEPT ![r] = "deferred"])
    <3>1. Typed'
      BY <2>1, <2>4, GoesOnKeeps DEF HubInv, Typed, Statuses
    <3>2. Unsent'
      BY <2>1, <2>2, <2>4 DEF HubInv, Typed, Unsent
    <3> QED BY <2>1, <2>4, <3>1, <3>2, QuietKeeps, GoesOnKeeps DEF HubInv, Awaits
  <2>5. CASE /\ flush' = [flush EXCEPT ![f] = [step |-> "await", rest |-> Tail(flush[f].rest), item |-> r]]
             /\ sent' = [sent EXCEPT ![r] = @ + 1] /\ row' = [row EXCEPT ![r] = "delivering"]
    <3>1. sent'[r] = 1 /\ \A x \in Runs : x # r => sent'[x] = sent[x]
      BY <2>2, <2>5 DEF HubInv, Typed
    <3>2. Typed'
      BY <2>1, <2>5, <3>1 DEF HubInv, Typed, Statuses
    <3>3. Unsent'
      <4>1. \A x \in Runs : x # r => row'[x] = row[x]
        BY <2>5 DEF HubInv, Typed
      <4>2. row'[r] = "delivering" /\ told'[r] # "new"
        BY <2>1, <2>5 DEF HubInv, Typed, Unsent
      <4> QED BY <2>1, <3>1, <4>1, <4>2 DEF HubInv, Unsent
    <3>4. r \notin direct /\ \A g \in Flushes : Awaits(g) => flush[g].item # r
      BY <2>2 DEF HubInv, InFlight
    <3>5. /\ flush'[f].step = "await" /\ flush'[f].item = r
          /\ \A g \in Flushes : g # f => flush'[g] = flush[g]
      BY <2>5 DEF HubInv, Typed
    <3>6. InFlight'
      <4>1. \A x \in direct : sent'[x] = 1
        BY <3>1, <3>4 DEF HubInv, Typed, InFlight
      <4>2. \A g \in Flushes : flush'[g].step = "await" =>
              flush'[g].item \in Runs /\ flush'[g].item \notin direct /\ sent'[flush'[g].item] = 1
        BY <3>1, <3>4, <3>5 DEF HubInv, InFlight, Awaits
      <4>3. \A g, h \in Flushes : g # h /\ flush'[g].step = "await" /\ flush'[h].step = "await"
              => flush'[g].item # flush'[h].item
        BY <3>4, <3>5 DEF HubInv, InFlight, Awaits
      <4> QED BY <2>1, <4>1, <4>2, <4>3 DEF InFlight, Awaits
    <3> QED BY <3>2, <3>3, <3>6 DEF HubInv
  <2> QED BY <2>3, <2>4, <2>5
<1> QED BY <1>1, <1>2, <1>3 DEF FlushStep

\* The invariant is kept by the answer a flush waits for.
LEMMA FlushAnsweredKeeps ==
  ASSUME HubInv, NEW f \in Flushes, NEW r \in Runs, FlushAnswered(f, r)
  PROVE  HubInv'
<1>1. Awaits(f) /\ r = flush[f].item /\ told' = told /\ direct' = direct /\ (Resumes(f) \/ Aborts(f))
  BY DEF FlushAnswered, Awaits
<1>2. sent[r] = 1 /\ r \notin direct
  BY <1>1 DEF HubInv, InFlight
<1>3. /\ sent' = sent \/ sent' = [sent EXCEPT ![r] = @ - 1]
      /\ \/ row' = row \/ row' = [row EXCEPT ![r] = "delivered"] \/ row' = [row EXCEPT ![r] = "uncertain"]
         \/ row' = [row EXCEPT ![r] = "deferred"] /\ sent' = [sent EXCEPT ![r] = @ - 1]
  BY DEF FlushAnswered, Journal
<1>4. \A x \in Runs : sent'[x] = sent[x] \/ (x = r /\ sent'[x] = 0)
  BY <1>2, <1>3 DEF HubInv, Typed
<1>5. Typed'
  BY <1>1, <1>2, <1>3, ResumesKeeps DEF HubInv, Typed, Statuses, Final
<1>6. Unsent'
  BY <1>1, <1>2, <1>3, <1>4 DEF HubInv, Typed, Unsent
<1>7. \A g \in Flushes : g # f /\ Awaits(g) => flush[g].item # r
  BY <1>1 DEF HubInv, InFlight
<1>8. InFlight'
  <2>1. flush'[f].step # "await" /\ \A g \in Flushes : g # f => flush'[g] = flush[g]
    BY <1>1, ResumesKeeps DEF HubInv
  <2>2. \A x \in direct : sent'[x] = 1
    BY <1>2, <1>4 DEF HubInv, Typed, InFlight
  <2>3. \A g \in Flushes : flush'[g].step = "await" =>
          flush'[g].item \in Runs /\ flush'[g].item \notin direct /\ sent'[flush'[g].item] = 1
    BY <1>4, <1>7, <2>1 DEF HubInv, InFlight, Awaits
  <2>4. \A g, h \in Flushes : g # h /\ flush'[g].step = "await" /\ flush'[h].step = "await"
          => flush'[g].item # flush'[h].item
    BY <2>1 DEF HubInv, InFlight, Awaits
  <2> QED BY <1>1, <2>2, <2>3, <2>4 DEF InFlight, Awaits
<1> QED BY <1>5, <1>6, <1>8 DEF HubInv

\* Every step keeps the invariant.
LEMMA StepInv == HubInv /\ [Next]_vars => HubInv'
<1> SUFFICES ASSUME HubInv, [Next]_vars PROVE HubInv'
  OBVIOUS
<1>1. CASE UNCHANGED vars
  BY <1>1 DEF vars, journal, memory, HubInv, Typed, Unsent, InFlight, Awaits
<1>2. CASE Reach
  <2>1. Typed' /\ \A f \in Flushes : Awaits(f)' => Awaits(f) /\ flush'[f].item = flush[f].item
    BY <1>2 DEF Reach, journal, HubInv, Typed, Awaits, Idle
  <2> QED BY <1>2, <2>1, QuietKeeps DEF Reach, journal, HubInv, Unsent
<1>3. CASE Unreach \/ \E r \in Runs : TimePasses(r)
  BY <1>3 DEF Unreach, TimePasses, journal, memory, HubInv, Typed, Unsent, InFlight, Awaits
<1>4. CASE Expire
  <2>1. Typed'
    BY <1>4 DEF Expire, HubInv, Typed, Statuses, Final, Synced
  <2>2. \A x \in Runs : row'[x] \in {"none", "deferred"} => row[x] = row'[x]
    BY <1>4 DEF Expire, HubInv, Typed
  <2>3. \A x \in Runs : told'[x] = "new" => told[x] = "new"
    <3>1. told' \in {told, Synced(row', told)}
      BY <1>4 DEF Expire
    <3> QED BY <2>1, <3>1, SyncedNew DEF Typed
  <2> QED BY <1>4, <2>1, <2>2, <2>3, QuietKeeps DEF Expire, HubInv, Unsent, Awaits
<1>5. CASE Restart
  <2>1. Typed'
    BY <1>5 DEF Restart, Recovered, HubInv, Typed, Statuses, Final, Synced, Idle
  <2>2. \A x \in Runs : row'[x] \in {"none", "deferred"} => row[x] = row'[x]
    BY <1>5 DEF Restart, Recovered, HubInv, Typed
  <2>3. \A x \in Runs : told'[x] = "new" => told[x] = "new"
    BY <1>5, <2>1, SyncedNew DEF Restart, HubInv, Typed
  <2>4. \A f \in Flushes : ~Awaits(f)'
    BY <1>5 DEF Restart, Awaits, Idle
  <2> QED BY <1>5, <2>1, <2>2, <2>3, <2>4, QuietKeeps DEF Restart, HubInv, Unsent
<1> QED BY <1>1, <1>2, <1>3, <1>4, <1>5, DeliverKeeps, FlushKeepsInv, FlushAnsweredKeeps DEF Next

\* The invariant holds in every state of the program.
LEMMA HubAlways == Spec => []HubInv
BY InitInv, StepInv, PTL DEF Spec

\* No result is handed to the driver again unless the driver refused it: not by
\* another flush, nor after a restart, nor when the journal fails.
THEOREM SentAtMostOnce == Spec => []SentOnce
<1>1. HubInv => SentOnce
  BY DEF HubInv, Typed, SentOnce
<1> QED BY <1>1, HubAlways, PTL

-----------------------------------------------------------------------------
(* Sequences: what is kept of them, reversed, joined and searched.         *)

KeptAt(s, S, g, i) ==
  IF i = 0 THEN << >> ELSE IF s[i] \in S THEN Append(g[i - 1], s[i]) ELSE g[i - 1]

\* A set of naturals has a least element: what is proved by induction is proved from it.
LEMMA Least == ASSUME NEW T \in SUBSET Nat, T # {} PROVE \E n \in T : \A k \in T : n <= k
<1>1. IsWellFoundedOn(OpToRel(<, Nat), Nat)
  BY NatLessThanWellFounded
<1>2. PICK n \in T : \A k \in T : ~(<<k, n>> \in OpToRel(<, Nat))
  BY <1>1, WFMin
<1>3. \A k \in T : ~(k < n)
  BY <1>2 DEF OpToRel
<1> QED BY <1>3

\* Keep is what its recursion says, position by position.
LEMMA KeepIs ==
  ASSUME NEW T, NEW s \in Seq(T), NEW S
  PROVE  \E g \in [0..Len(s) -> Seq(T)] :
           /\ \A i \in 0..Len(s) : g[i] = KeptAt(s, S, g, i)
           /\ Keep(s, S) = g[Len(s)]
<1> DEFINE Good(n, g) == \A i \in 0..n : g[i] = KeptAt(s, S, g, i)
<1> DEFINE Bad == {n \in 0..Len(s) : ~\E g \in [0..n -> Seq(T)] : Good(n, g)}
<1>0. Len(s) \in Nat
  OBVIOUS
<1>1. Bad = {}
  <2> SUFFICES ASSUME Bad # {} PROVE FALSE
    OBVIOUS
  <2>0. Bad \in SUBSET Nat
    BY <1>0
  <2>1. PICK n \in Bad : \A k \in Bad : n <= k
    <3> HIDE DEF Bad
    <3> QED BY <2>0, Least
  <2>2. n # 0
    <3> DEFINE e == [i \in 0..0 |-> << >>]
    <3>1. e \in [0..0 -> Seq(T)] /\ Good(0, e)
      BY DEF KeptAt
    <3> QED BY <3>1
  <2>b. n \in 0..Len(s)
    BY <2>1
  <2>3. n - 1 \in 0..Len(s) /\ n - 1 \notin Bad
    <3> HIDE DEF Bad
    <3> QED BY <2>1, <2>2, <2>b, <1>0
  <2>4. PICK g \in [0..(n - 1) -> Seq(T)] : Good(n - 1, g)
    BY <2>3
  <2> DEFINE h == [i \in 0..n |-> IF i = n THEN KeptAt(s, S, g, n) ELSE g[i]]
  <2>5. KeptAt(s, S, g, n) \in Seq(T)
    BY <2>1, <2>2, <2>4 DEF KeptAt
  <2>6. h \in [0..n -> Seq(T)]
    BY <2>5, <2>1, <2>3, <2>4
  <2>7. Good(n, h)
    <3> SUFFICES ASSUME NEW i \in 0..n PROVE h[i] = KeptAt(s, S, h, i)
      OBVIOUS
    <3>1. i # 0 => h[i - 1] = g[i - 1]
      BY <2>1
    <3>2. i # n => g[i] = KeptAt(s, S, g, i)
      BY <2>1, <2>4
    <3> QED BY <3>1, <3>2, <2>1 DEF KeptAt
  <2> QED BY <2>1, <2>6, <2>7
<1>2. PICK g \in [0..Len(s) -> Seq(T)] : Good(Len(s), g)
  <2>1. Len(s) \notin Bad
    BY <1>1
  <2> QED BY <2>1, <1>0
<1> DEFINE E(f) == f = [i \in 0..Len(s) |->
        IF i = 0 THEN << >> ELSE IF s[i] \in S THEN Append(f[i - 1], s[i]) ELSE f[i - 1]]
<1>3. E(g)
  BY <1>2 DEF KeptAt
<1> DEFINE F == CHOOSE f : E(f)
<1>4. E(F)
  BY <1>3
<1>5. Keep(s, S) = F[Len(s)]
  BY DEF Keep
<1> HIDE DEF F
<1> DEFINE Off == {n \in 0..Len(s) : F[n] # g[n]}
<1>6. Off = {}
  <2> SUFFICES ASSUME Off # {} PROVE FALSE
    OBVIOUS
  <2>0. Off \in SUBSET Nat
    BY <1>0
  <2>1. PICK n \in Off : \A k \in Off : n <= k
    <3> HIDE DEF Off
    <3> QED BY <2>0, Least
  <2>a. n \in 0..Len(s) /\ F[n] # g[n] /\ \A k \in 0..Len(s) : F[k] # g[k] => n <= k
    BY <2>1
  <2>2. F[n] = KeptAt(s, S, F, n)
    BY <1>4, <2>a DEF KeptAt
  <2>3. g[n] = KeptAt(s, S, g, n)
    BY <1>2, <2>a
  <2>4. n # 0 => F[n - 1] = g[n - 1]
    BY <1>0, <2>a
  <2> QED BY <2>a, <2>2, <2>3, <2>4 DEF KeptAt
<1> QED BY <1>2, <1>5, <1>6

\* m has the positions of o in the first n of s, in their order: those of S, and all of them.
Picks(o, s, S, n, m) ==
  /\ m \in [1..Len(o) -> 1..n]
  /\ \A k \in 1..Len(o) : o[k] = s[m[k]] /\ s[m[k]] \in S
  /\ \A k, l \in 1..Len(o) : k < l => m[k] < m[l]
  /\ \A i \in 1..n : s[i] \in S => \E k \in 1..Len(o) : m[k] = i

\* One more element that is in S is taken up.
LEMMA PicksMore ==
  ASSUME NEW T, NEW o \in Seq(T), NEW s \in Seq(T), NEW S, NEW n \in 1..Len(s), NEW m,
         Picks(o, s, S, n - 1, m), s[n] \in S
  PROVE  \E p : Picks(Append(o, s[n]), s, S, n, p)
<1> DEFINE L == Len(o)
           q == Append(o, s[n])
           p == [k \in 1..(L + 1) |-> IF k = L + 1 THEN n ELSE m[k]]
<1>1. /\ L \in Nat /\ Len(q) = L + 1 /\ q[L + 1] = s[n]
      /\ \A k \in 1..L : q[k] = o[k]
  BY ElementOfSeq, AppendProperties
<1>2. /\ \A k \in 1..L : m[k] \in 1..(n - 1) /\ o[k] = s[m[k]] /\ s[m[k]] \in S
      /\ \A k, l \in 1..L : k < l => m[k] < m[l]
      /\ \A i \in 1..(n - 1) : s[i] \in S => \E k \in 1..L : m[k] = i
  BY DEF Picks
<1> HIDE DEF L, q
<1>3. /\ p[L + 1] = n
      /\ \A k \in 1..L : p[k] = m[k] /\ m[k] \in 1..(n - 1)
  BY <1>1, <1>2
<1>4. p \in [1..(L + 1) -> 1..n]
  BY <1>1, <1>2
<1> HIDE DEF p
<1>5. \A k \in 1..(L + 1) : q[k] = s[p[k]] /\ s[p[k]] \in S
  BY <1>1, <1>2, <1>3
<1>6. \A k, l \in 1..(L + 1) : k < l => p[k] < p[l]
  <2> SUFFICES ASSUME NEW k \in 1..(L + 1), NEW l \in 1..(L + 1), k < l PROVE p[k] < p[l]
    OBVIOUS
  <2>1. k \in 1..L /\ (l = L + 1 \/ l \in 1..L)
    BY <1>1
  <2>2. p[k] = m[k] /\ m[k] < n
    BY <1>3, <2>1
  <2>3. CASE l = L + 1
    BY <1>3, <2>2, <2>3
  <2>4. CASE l \in 1..L
    BY <1>2, <1>3, <2>1, <2>4
  <2> QED BY <2>1, <2>3, <2>4
<1>7. \A i \in 1..n : s[i] \in S => \E k \in 1..(L + 1) : p[k] = i
  <2> SUFFICES ASSUME NEW i \in 1..n, s[i] \in S PROVE \E k \in 1..(L + 1) : p[k] = i
    OBVIOUS
  <2>1. CASE i = n
    BY <1>1, <1>3, <2>1
  <2>2. CASE i # n
    <3>1. PICK k \in 1..L : m[k] = i
      BY <1>2, <2>2
    <3> QED BY <1>1, <1>3, <3>1
  <2> QED BY <2>1, <2>2
<1>8. Picks(q, s, S, n, p)
  BY <1>1, <1>4, <1>5, <1>6, <1>7 DEF Picks
<1> QED BY <1>8 DEF q

\* Keep picks the positions of its elements, in order, and leaves none out.
LEMMA KeepPicks ==
  ASSUME NEW T, NEW s \in Seq(T), NEW S
  PROVE  Keep(s, S) \in Seq(T) /\ \E m : Picks(Keep(s, S), s, S, Len(s), m)
<1>1. PICK g \in [0..Len(s) -> Seq(T)] :
           /\ \A i \in 0..Len(s) : g[i] = KeptAt(s, S, g, i)
           /\ Keep(s, S) = g[Len(s)]
  BY KeepIs
<1>2. Len(s) \in Nat
  OBVIOUS
<1> DEFINE Bad == {n \in 0..Len(s) : ~\E m : Picks(g[n], s, S, n, m)}
<1>3. Bad = {}
  <2> SUFFICES ASSUME Bad # {} PROVE FALSE
    OBVIOUS
  <2>0. Bad \in SUBSET Nat
    BY <1>2
  <2>1. PICK n \in Bad : \A k \in Bad : n <= k
    <3> HIDE DEF Bad
    <3> QED BY <2>0, Least
  <2>2. n \in 0..Len(s) /\ ~\E m : Picks(g[n], s, S, n, m)
    BY <2>1
  <2>3. n # 0
    <3>1. g[0] = << >>
      BY <1>1, <1>2 DEF KeptAt
    <3>2. Picks(g[0], s, S, 0, << >>)
      BY <3>1 DEF Picks
    <3> QED BY <2>2, <3>2
  <2>4. n - 1 \in 0..Len(s) /\ n - 1 \notin Bad
    <3> HIDE DEF Bad
    <3> QED BY <2>1, <2>2, <2>3, <1>2
  <2>5. PICK m : Picks(g[n - 1], s, S, n - 1, m)
    BY <2>4
  <2>6. g[n] = IF s[n] \in S THEN Append(g[n - 1], s[n]) ELSE g[n - 1]
    BY <1>1, <2>2, <2>3 DEF KeptAt
  <2>7. g[n - 1] \in Seq(T) /\ n \in 1..Len(s) /\ s[n] \in T
    BY <1>1, <1>2, <2>2, <2>3, <2>4
  <2>8. CASE s[n] \notin S
    <3>1. m \in [1..Len(g[n]) -> 1..n]
      BY <2>5, <2>6, <2>7, <2>8 DEF Picks
    <3>2. Picks(g[n], s, S, n, m)
      BY <2>5, <2>6, <2>7, <2>8, <3>1 DEF Picks
    <3> QED BY <2>2, <3>2
  <2>9. CASE s[n] \in S
    <3>1. PICK p : Picks(g[n], s, S, n, p)
      BY <2>2, <2>3, <2>5, <2>6, <2>7, <2>9, PicksMore
    <3> QED BY <2>2, <3>1
  <2> QED BY <2>8, <2>9
<1>4. Len(s) \notin Bad
  BY <1>3
<1> QED BY <1>1, <1>2, <1>4

OneToOne(s) == \A i, j \in 1..Len(s) : s[i] = s[j] => i = j

\* What is in a sequence that was filtered, reversed, made longer, joined or cut.
LEMMA KeepHas ==
  ASSUME NEW T, NEW s \in Seq(T), NEW S
  PROVE  /\ Keep(s, S) \in Seq(T)
         /\ \A x : Contains(Keep(s, S), x) <=> Contains(s, x) /\ x \in S
         /\ OneToOne(s) => OneToOne(Keep(s, S))
<1> DEFINE o == Keep(s, S)
<1>1. o \in Seq(T) /\ \E m : Picks(o, s, S, Len(s), m)
  BY KeepPicks
<1>2. PICK m : Picks(o, s, S, Len(s), m)
  BY <1>1
<1> HIDE DEF o
<1>3. Len(o) \in Nat
  BY <1>1
<1>4. \A x : Contains(o, x) <=> Contains(s, x) /\ x \in S
  BY <1>2 DEF Picks, Contains
<1>5. OneToOne(s) => OneToOne(o)
  <2> SUFFICES ASSUME OneToOne(s), NEW i \in 1..Len(o), NEW j \in 1..Len(o), o[i] = o[j] PROVE i = j
    BY DEF OneToOne
  <2>1. m[i] = m[j]
    BY <1>2 DEF Picks, OneToOne
  <2>2. m[i] \in 1..Len(s) /\ m[j] \in 1..Len(s)
    BY <1>2 DEF Picks
  <2>3. ~(i < j) /\ ~(j < i)
    BY <1>2, <2>1, <2>2 DEF Picks
  <2> QED BY <1>3, <2>3
<1> QED BY <1>1, <1>4, <1>5 DEF o

\* The last of those kept has none of them behind it.
LEMMA LastKept ==
  ASSUME NEW T, NEW s \in Seq(T), NEW S
  PROVE  /\ Keep(s, S) = << >> => \A i \in 1..Len(s) : s[i] \notin S
         /\ Keep(s, S) # << >> =>
              \E i \in 1..Len(s) : /\ s[i] = Last(Keep(s, S)) /\ s[i] \in S
                                   /\ \A j \in 1..Len(s) : j > i => s[j] \notin S
<1> DEFINE o == Keep(s, S)
<1>1. o \in Seq(T) /\ \E m : Picks(o, s, S, Len(s), m)
  BY KeepPicks
<1>2. PICK m : Picks(o, s, S, Len(s), m)
  BY <1>1
<1> HIDE DEF o
<1>3. Len(o) \in Nat /\ Len(s) \in Nat
  BY <1>1
<1>4. CASE o = << >>
  <2>1. Len(o) = 0
    BY <1>4
  <2> QED BY <1>2, <1>4, <2>1 DEF Picks, o
<1>5. CASE o # << >>
  <2>1. Len(o) \in 1..Len(o)
    BY <1>1, <1>3, <1>5, EmptySeq
  <2>2. m[Len(o)] \in 1..Len(s) /\ s[m[Len(o)]] = Last(o) /\ s[m[Len(o)]] \in S
    BY <1>2, <2>1 DEF Picks, Last
  <2>3. ASSUME NEW j \in 1..Len(s), j > m[Len(o)], s[j] \in S PROVE FALSE
    <3>1. PICK k \in 1..Len(o) : m[k] = j
      BY <1>2, <2>3 DEF Picks
    <3>2. k < Len(o)
      BY <1>3, <2>2, <2>3, <3>1
    <3>3. m[k] < m[Len(o)]
      BY <1>2, <2>1, <3>2 DEF Picks
    <3> QED BY <2>2, <2>3, <3>1, <3>3
  <2> QED BY <1>5, <2>2, <2>3 DEF o
<1> QED BY <1>4, <1>5

\* A reversed sequence has the same elements.
LEMMA ReverseHas ==
  ASSUME NEW T, NEW s \in Seq(T)
  PROVE  /\ Reverse(s) \in Seq(T)
         /\ \A x : Contains(Reverse(s), x) <=> Contains(s, x)
         /\ OneToOne(s) => OneToOne(Reverse(s))
         /\ Reverse(s) = << >> <=> s = << >>
<1> DEFINE o == Reverse(s)
<1>1. Len(s) \in Nat /\ \A i \in 1..Len(s) : Len(s) - i + 1 \in 1..Len(s) /\ s[Len(s) - i + 1] \in T
  <2>1. Len(s) \in Nat
    OBVIOUS
  <2>2. \A i \in 1..Len(s) : Len(s) - i + 1 \in 1..Len(s)
    BY <2>1
  <2> QED BY <2>1, <2>2, ElementOfSeq
<1>2. o = [i \in 1..Len(s) |-> s[Len(s) - i + 1]]
  BY DEF Reverse
<1>3. o \in Seq(T) /\ Len(o) = Len(s)
  BY <1>1, <1>2
<1>4. \A i \in 1..Len(s) : o[i] = s[Len(s) - i + 1]
  BY <1>2
<1> HIDE DEF o
<1>5. ASSUME NEW x PROVE Contains(o, x) <=> Contains(s, x)
  <2>1. ASSUME NEW i \in 1..Len(s), s[i] = x PROVE Contains(o, x)
    <3>1. Len(s) - i + 1 \in 1..Len(s) /\ Len(s) - (Len(s) - i + 1) + 1 = i
      BY <1>1
    <3>2. o[Len(s) - i + 1] = x
      BY <1>4, <2>1, <3>1
    <3> QED BY <1>3, <3>1, <3>2 DEF Contains
  <2>2. ASSUME NEW i \in 1..Len(s), o[i] = x PROVE Contains(s, x)
    BY <1>1, <1>4, <2>2 DEF Contains
  <2> QED BY <1>3, <2>1, <2>2 DEF Contains
<1>6. OneToOne(s) => OneToOne(o)
  <2> SUFFICES ASSUME OneToOne(s), NEW i \in 1..Len(s), NEW j \in 1..Len(s), o[i] = o[j] PROVE i = j
    BY <1>3 DEF OneToOne
  <2>1. Len(s) - i + 1 = Len(s) - j + 1
    BY <1>1, <1>4 DEF OneToOne
  <2> QED BY <1>1, <2>1
<1>7. o = << >> <=> s = << >>
  BY <1>3, EmptySeq
<1> QED BY <1>3, <1>5, <1>6, <1>7 DEF o

\* What two sequences have, their concatenation has.
LEMMA ConcatHas ==
  ASSUME NEW T, NEW s \in Seq(T), NEW t \in Seq(T)
  PROVE  /\ s \o t \in Seq(T)
         /\ \A x : Contains(s \o t, x) <=> Contains(s, x) \/ Contains(t, x)
         /\ OneToOne(s) /\ OneToOne(t) /\ (\A x : Contains(s, x) => ~Contains(t, x)) => OneToOne(s \o t)
<1> DEFINE o == s \o t
<1>1. /\ o \in Seq(T) /\ Len(o) = Len(s) + Len(t) /\ Len(s) \in Nat /\ Len(t) \in Nat
      /\ \A i \in 1..(Len(s) + Len(t)) : o[i] = IF i <= Len(s) THEN s[i] ELSE t[i - Len(s)]
  BY ConcatProperties
<1> HIDE DEF o
<1>2. ASSUME NEW x PROVE Contains(o, x) <=> Contains(s, x) \/ Contains(t, x)
  <2>1. ASSUME NEW i \in 1..Len(o), o[i] = x PROVE Contains(s, x) \/ Contains(t, x)
    <3>1. CASE i <= Len(s)
      BY <1>1, <2>1, <3>1 DEF Contains
    <3>2. CASE ~(i <= Len(s))
      <4>1. i - Len(s) \in 1..Len(t) /\ t[i - Len(s)] = x
        BY <1>1, <2>1, <3>2
      <4> QED BY <4>1 DEF Contains
    <3> QED BY <3>1, <3>2
  <2>2. ASSUME NEW i \in 1..Len(s), s[i] = x PROVE Contains(o, x)
    BY <1>1, <2>2 DEF Contains
  <2>3. ASSUME NEW i \in 1..Len(t), t[i] = x PROVE Contains(o, x)
    <3>1. Len(s) + i \in 1..Len(o) /\ ~(Len(s) + i <= Len(s)) /\ (Len(s) + i) - Len(s) = i
      BY <1>1
    <3>2. o[Len(s) + i] = x
      BY <1>1, <2>3, <3>1
    <3> QED BY <3>1, <3>2 DEF Contains
  <2> QED BY <2>1, <2>2, <2>3 DEF Contains
<1>3. ASSUME OneToOne(s), OneToOne(t), \A x : Contains(s, x) => ~Contains(t, x) PROVE OneToOne(o)
  <2>0. \A i \in 1..Len(s), j \in 1..Len(t) : s[i] # t[j]
    BY <1>3 DEF Contains
  <2> SUFFICES ASSUME NEW i \in 1..Len(o), NEW j \in 1..Len(o), o[i] = o[j] PROVE i = j
    BY DEF OneToOne
  <2>1. CASE i <= Len(s) /\ j <= Len(s)
    BY <1>1, <1>3, <2>1 DEF OneToOne
  <2>2. CASE ~(i <= Len(s)) /\ ~(j <= Len(s))
    <3>1. i - Len(s) \in 1..Len(t) /\ j - Len(s) \in 1..Len(t) /\ t[i - Len(s)] = t[j - Len(s)]
      BY <1>1, <2>2
    <3>2. i - Len(s) = j - Len(s)
      BY <1>3, <3>1 DEF OneToOne
    <3> QED BY <1>1, <3>2
  <2>3. CASE i <= Len(s) /\ ~(j <= Len(s))
    <3>1. i \in 1..Len(s) /\ j - Len(s) \in 1..Len(t) /\ s[i] = t[j - Len(s)]
      BY <1>1, <2>3
    <3> QED BY <2>0, <3>1
  <2>4. CASE ~(i <= Len(s)) /\ j <= Len(s)
    <3>1. j \in 1..Len(s) /\ i - Len(s) \in 1..Len(t) /\ s[j] = t[i - Len(s)]
      BY <1>1, <2>4
    <3> QED BY <2>0, <3>1
  <2> QED BY <2>1, <2>2, <2>3, <2>4
<1> QED BY <1>1, <1>2, <1>3 DEF o

\* The sequences of one element and of none.
LEMMA OneHas ==
  ASSUME NEW T, NEW e \in T
  PROVE  /\ <<e>> \in Seq(T) /\ OneToOne(<<e>>)
         /\ \A x : Contains(<<e>>, x) <=> x = e
         /\ OneToOne(<< >>) /\ << >> \in Seq(T) /\ \A x : ~Contains(<< >>, x)
BY DEF OneToOne, Contains

\* Append adds its element.
LEMMA AppendHas ==
  ASSUME NEW T, NEW s \in Seq(T), NEW e \in T
  PROVE  /\ Append(s, e) \in Seq(T)
         /\ \A x : Contains(Append(s, e), x) <=> Contains(s, x) \/ x = e
         /\ OneToOne(s) /\ ~Contains(s, e) => OneToOne(Append(s, e))
<1> DEFINE t == <<e>>
<1>1. Append(s, e) = s \o t
  BY AppendIsConcat
<1>2. t \in Seq(T) /\ OneToOne(t) /\ \A x : Contains(t, x) <=> x = e
  BY OneHas
<1> HIDE DEF t
<1>3. /\ s \o t \in Seq(T)
      /\ \A x : Contains(s \o t, x) <=> Contains(s, x) \/ Contains(t, x)
      /\ OneToOne(s) /\ OneToOne(t) /\ (\A x : Contains(s, x) => ~Contains(t, x)) => OneToOne(s \o t)
  BY <1>2, ConcatHas
<1> QED BY <1>1, <1>2, <1>3

\* A sequence is its head and what its tail has.
LEMMA TailHas ==
  ASSUME NEW T, NEW s \in Seq(T), s # << >>
  PROVE  /\ Head(s) \in T /\ Tail(s) \in Seq(T)
         /\ \A x : Contains(s, x) <=> x = Head(s) \/ Contains(Tail(s), x)
         /\ OneToOne(s) => OneToOne(Tail(s)) /\ ~Contains(Tail(s), Head(s))
<1> DEFINE o == Tail(s)
<1>1. /\ Head(s) \in T /\ o \in Seq(T) /\ Len(o) = Len(s) - 1 /\ Len(s) \in Nat /\ Len(s) >= 1
      /\ \A i \in 1..Len(o) : o[i] = s[i + 1]
      /\ Head(s) = s[1]
  BY HeadTailProperties, EmptySeq
<1> HIDE DEF o
<1>2. ASSUME NEW x PROVE Contains(s, x) <=> x = Head(s) \/ Contains(o, x)
  <2>1. ASSUME NEW i \in 1..Len(s), s[i] = x, x # Head(s) PROVE Contains(o, x)
    <3>1. i # 1
      BY <1>1, <2>1
    <3>2. i - 1 \in 1..Len(o) /\ (i - 1) + 1 = i
      BY <1>1, <3>1
    <3>3. o[i - 1] = x
      BY <1>1, <2>1, <3>2
    <3> QED BY <3>2, <3>3 DEF Contains
  <2>2. Contains(s, Head(s))
    BY <1>1 DEF Contains
  <2>3. ASSUME NEW i \in 1..Len(o), o[i] = x PROVE Contains(s, x)
    <3>1. i + 1 \in 1..Len(s) /\ s[i + 1] = x
      BY <1>1, <2>3
    <3> QED BY <3>1 DEF Contains
  <2> QED BY <2>1, <2>2, <2>3 DEF Contains
<1>3. ASSUME OneToOne(s) PROVE OneToOne(o) /\ ~Contains(o, Head(s))
  <2>1. \A i \in 1..Len(o) : i + 1 \in 1..Len(s) /\ o[i] = s[i + 1]
    BY <1>1
  <2>2. ASSUME NEW i \in 1..Len(o), NEW j \in 1..Len(o), o[i] = o[j] PROVE i = j
    <3>1. i + 1 = j + 1
      BY <1>3, <2>1, <2>2 DEF OneToOne
    <3> QED BY <1>1, <3>1
  <2>3. ASSUME NEW i \in 1..Len(o), o[i] = Head(s) PROVE FALSE
    <3>1. 1 \in 1..Len(s) /\ s[i + 1] = s[1]
      BY <1>1, <2>1, <2>3
    <3>2. i + 1 = 1
      BY <1>3, <2>1, <3>1 DEF OneToOne
    <3> QED BY <1>1, <3>2
  <2> QED BY <2>2, <2>3 DEF OneToOne, Contains
<1> QED BY <1>1, <1>2, <1>3 DEF o

\* A prefix has elements of the sequence, and a shorter one no others.
LEMMA PrefixHas ==
  ASSUME NEW T, NEW s \in Seq(T), NEW i \in 1..Len(s)
  PROVE  /\ SubSeq(s, 1, i - 1) \in Seq(T)
         /\ \A x : Contains(SubSeq(s, 1, i - 1), x) => Contains(SubSeq(s, 1, i), x)
         /\ \A x : Contains(SubSeq(s, 1, i), x) => Contains(s, x)
         /\ OneToOne(s) => OneToOne(SubSeq(s, 1, i - 1))
<1> DEFINE o == SubSeq(s, 1, i - 1)
           p == SubSeq(s, 1, i)
<1>1. /\ o \in Seq(T) /\ Len(o) = i - 1 /\ \A k \in 1..(i - 1) : o[k] = s[k]
      /\ Len(p) = i /\ \A k \in 1..i : p[k] = s[k]
  <2>1. Len(s) \in Nat /\ \A k \in 1..Len(s) : s[k] \in T
    BY ElementOfSeq
  <2> QED BY <2>1, SubSeqProperties
<1> HIDE DEF o, p
<1>2. Len(s) \in Nat
  OBVIOUS
<1>3. \A x : Contains(o, x) => Contains(p, x)
  BY <1>1, <1>2 DEF Contains
<1>4. \A x : Contains(p, x) => Contains(s, x)
  BY <1>1, <1>2 DEF Contains
<1>5. OneToOne(s) => OneToOne(o)
  BY <1>1, <1>2 DEF OneToOne
<1> QED BY <1>1, <1>3, <1>4, <1>5 DEF o, p

-----------------------------------------------------------------------------
(* Where the results are. A run is in hand (Held: in the backlog or with a *)
(* flush), under way to the driver (Sending), or neither; what its row and *)
(* its delivery_status say follows from that, and from whether a write was *)
(* lost. The order of the journal says which of a task is the newest.      *)

Sending(x) == x \in direct \/ \E f \in Flushes : Awaits(f) /\ flush[f].item = x
Resting == \A f \in Flushes : flush[f] = Idle

\* A result is in hand at one place only.
Queues ==
  /\ deferred \in Seq(Runs) /\ OneToOne(deferred)
  /\ \A f \in Flushes : flush[f].rest \in Seq(Runs) /\ OneToOne(flush[f].rest)
  /\ \A x \in Runs : \A f \in Flushes : Contains(flush[f].rest, x) =>
       ~Contains(deferred, x) /\ \A g \in Flushes : Contains(flush[g].rest, x) => f = g

Fit(x) ==
  /\ Held(x) => /\ ~Sending(x) /\ row[x] \in {"none", "deferred"} /\ told[x] # "new"
                /\ row[x] = "none" => told[x] = "failed"
  /\ Sending(x) => row[x] = "delivering" /\ told[x] # "new" /\ (x \in direct => told[x] = "running")
  /\ told[x] = "new" => row[x] = "none"
  /\ told[x] = "pending" => row[x] # "none"
  /\ ~lost => /\ row[x] = "delivering" => Sending(x)
              /\ row[x] = "deferred" => Held(x)
              /\ Resting /\ told[x] = "pending" => row[x] = "deferred"

Recorded ==
  /\ order \in Seq(Runs) /\ OneToOne(order)
  /\ \A x \in Runs : row[x] # "none" <=> Contains(order, x)

\* A task that is done has its newest result settled.
DoneIs ==
  /\ latest \in [Keys -> Runs \cup {None}] /\ done \in [Keys -> BOOLEAN]
  /\ \A k \in Keys : done[k] => latest[k] \in Runs /\ row[latest[k]] \in Final

\* Behind the newest result that was accepted there are only those that failed.
Failed(x) == row[x] = "failed" \/ told[x] = "failed"
Fails(x) == row'[x] = "failed" \/ told'[x] = "failed"
NewestOf(k) ==
  /\ latest[k] = None => \A i \in 1..Len(order) : KeyOf[order[i]] = k => Failed(order[i])
  /\ latest[k] # None => \E i \in 1..Len(order) :
       /\ order[i] = latest[k]
       /\ \A j \in 1..Len(order) : j > i /\ KeyOf[order[j]] = k => Failed(order[j])

TimerSet == ~lost /\ deferred # << >> /\ Resting => armed

HandInv ==
  /\ Queues /\ (\A x \in Runs : Fit(x)) /\ Recorded /\ DoneIs
  /\ (\A k \in Keys : NewestOf(k)) /\ TimerSet

\* A run that is told something else has its row behind it.
Heard(x) ==
  /\ \A v \in {"new", "running", "failed"} : told'[x] = v <=> told[x] = v
  /\ told'[x] = "pending" =>
       row'[x] \in {"deferred", "delivering"} \/ (told[x] = "pending" /\ row'[x] \in {"none", row[x]})

\* What a step may do to a run that it is not about: settle it and let it go.
Aside(x) ==
  /\ row'[x] # row[x] => Held(x) /\ row'[x] \in Final /\ ~Held(x)'
  /\ Held(x)' => Held(x)
  /\ ~lost' /\ Held(x) /\ row'[x] = "deferred" => Held(x)'
  /\ (x \in direct' <=> x \in direct) /\ (Sending(x)' <=> Sending(x))
  /\ Heard(x)

\* Which statuses are final.
LEMMA KindsOfStatus == /\ Final \subseteq Statuses /\ "none" \notin Final /\ "deferred" \notin Final
                       /\ "delivering" \notin Final /\ "failed" \in Final
BY DEF Final, Statuses

\* A run that a step is not about keeps to what may be said of it.
LEMMA AsideFits ==
  ASSUME NEW x \in Runs, Fit(x), Aside(x), lost => lost', row' \in [Runs -> Statuses],
         ~lost' /\ Resting' => Resting \/ told' = Synced(row', told)
  PROVE  Fit(x)'
<1> USE KindsOfStatus
<1>1. Held(x)' => /\ ~Sending(x)' /\ row'[x] \in {"none", "deferred"} /\ told'[x] # "new"
                  /\ row'[x] = "none" => told'[x] = "failed"
  BY DEF Fit, Aside, Heard
<1>2. Sending(x)' => row'[x] = "delivering" /\ told'[x] # "new" /\ (x \in direct' => told'[x] = "running")
  BY DEF Fit, Aside, Heard
<1>3. told'[x] = "new" => row'[x] = "none"
  BY DEF Fit, Aside, Heard
<1>4. told'[x] = "pending" => row'[x] # "none"
  BY DEF Fit, Aside, Heard
<1>5. ~lost' => /\ row'[x] = "delivering" => Sending(x)'
                /\ row'[x] = "deferred" => Held(x)'
  BY DEF Fit, Aside
<1>6. ASSUME ~lost', Resting', told'[x] = "pending" PROVE row'[x] = "deferred"
  <2>1. row'[x] # "delivering"
    <3> SUFFICES ASSUME row'[x] = "delivering" PROVE FALSE
      OBVIOUS
    <3>1. Sending(x)'
      BY <1>5, <1>6
    <3>2. x \in direct'
      BY <1>6, <3>1 DEF Sending, Awaits, Resting, Idle
    <3> QED BY <1>2, <1>6, <3>1, <3>2
  <2>2. CASE Resting
    BY <1>4, <1>6, <2>1, <2>2 DEF Fit, Aside, Heard
  <2>3. CASE told' = Synced(row', told)
    <3>1. row'[x] # "none" => told'[x] = Summary(row'[x]) \/ told'[x] = told[x]
      BY <2>3 DEF Synced
    <3>2. told'[x] = IF told[x] \in {"pending", "delivered", "uncertain", "degraded"} /\ row'[x] # "none"
                     THEN Summary(row'[x]) ELSE told[x]
      BY <2>3 DEF Synced
    <3>3. Summary(row'[x]) = "pending"
      BY <1>4, <1>6, <3>2
    <3>4. row'[x] \in {"deferred", "delivering"} \/ row'[x] = "pending"
      BY <3>3 DEF Summary
    <3>5. row'[x] # "pending"
      BY DEF Statuses, Final
    <3> QED BY <2>1, <3>4, <3>5
  <2> QED BY <1>6, <2>2, <2>3
<1> QED BY <1>1, <1>2, <1>3, <1>4, <1>5, <1>6 DEF Fit

\* Summing up.
LEMMA SyncedIs ==
  ASSUME NEW rows \in [Runs -> Statuses], NEW said, NEW x \in Runs
  PROVE  /\ \A v \in {"new", "running", "failed", "interrupted"} : Synced(rows, said)[x] = v <=> said[x] = v
         /\ Synced(rows, said)[x] = "pending" =>
              rows[x] \in {"deferred", "delivering"} \/ (said[x] = "pending" /\ rows[x] = "none")
<1>1. Synced(rows, said)[x] =
        IF said[x] \in {"pending", "delivered", "uncertain", "degraded"} /\ rows[x] # "none"
        THEN Summary(rows[x]) ELSE said[x]
  BY DEF Synced
<1>2. rows[x] # "none" => Summary(rows[x]) \in {"pending", "degraded", "delivered", "uncertain"}
  BY DEF Summary, Statuses, Final
<1>3. rows[x] # "none" /\ Summary(rows[x]) = "pending" => rows[x] \in {"deferred", "delivering"}
  BY DEF Summary, Statuses, Final
<1> QED BY <1>1, <1>2, <1>3

\* A step tells its own run r what it tells it, and the others what their rows say.
LEMMA HeardOf ==
  ASSUME NEW x \in Runs, NEW r, x # r, HubInv, row' \in [Runs -> Statuses], NEW v,
         NEW said \in {told, Synced(row', told)}, told' = [said EXCEPT ![r] = v],
         said = told => row'[x] = row[x]
  PROVE  Heard(x)
<1>1. told'[x] = said[x]
  BY DEF HubInv, Typed, Synced
<1>2. CASE said = told
  BY <1>1, <1>2 DEF Heard
<1>3. CASE said = Synced(row', told)
  BY <1>1, <1>3, SyncedIs DEF Heard
<1> QED BY <1>2, <1>3

\* What is settled stays so.
LEMMA SettledStays ==
  ASSUME NEW x \in Runs, Fit(x), Aside(x)
  PROVE  /\ row[x] \in Final => row'[x] = row[x]
         /\ Failed(x) => Fails(x)
BY KindsOfStatus DEF Fit, Aside, Heard, Failed, Fails

\* The journal grows by the rows that were not there.
Grows(new) ==
  /\ new \in Seq(Runs) /\ OneToOne(new) /\ order' = order \o new
  /\ \A x \in Runs : /\ Contains(new, x) <=> row[x] = "none" /\ row'[x] # "none"
                     /\ row[x] # "none" => row'[x] # "none"

\* A step that writes no new row leaves the journal as it is.
LEMMA GrowsNot ==
  ASSUME Recorded, order' = order, \A x \in Runs : row[x] = "none" <=> row'[x] = "none"
  PROVE  Grows(<< >>)
<1>1. order \o << >> = order
  BY ConcatEmptySeq DEF Recorded
<1>2. << >> \in Seq(Runs) /\ OneToOne(<< >>) /\ \A x : ~Contains(<< >>, x)
  BY DEF OneToOne, Contains
<1> QED BY <1>1, <1>2 DEF Grows

\* What a step inserts are the rows it writes for the first time.
LEMMA InsertedGrows ==
  ASSUME NEW runs \in Seq(Runs), OneToOne(runs), order' = Inserted(runs),
         \A x \in Runs : /\ row[x] = "none" => (Contains(runs, x) <=> row'[x] # "none")
                         /\ row[x] # "none" => row'[x] # "none"
  PROVE  Grows(Keep(runs, {x \in Runs : row[x] = "none"}))
<1> DEFINE N == {x \in Runs : row[x] = "none"}
<1>1. /\ Keep(runs, N) \in Seq(Runs) /\ OneToOne(Keep(runs, N))
      /\ \A x : Contains(Keep(runs, N), x) <=> Contains(runs, x) /\ x \in N
  BY KeepHas
<1>2. order' = order \o Keep(runs, N)
  BY DEF Inserted
<1> QED BY <1>1, <1>2 DEF Grows

\* The journal keeps each row once.
LEMMA GrowsRecords ==
  ASSUME Recorded, NEW new, Grows(new)
  PROVE  Recorded'
<1>1. /\ order' \in Seq(Runs)
      /\ \A x : Contains(order', x) <=> Contains(order, x) \/ Contains(new, x)
      /\ (\A x : Contains(order, x) => ~Contains(new, x)) => OneToOne(order')
  BY ConcatHas DEF Recorded, Grows
<1>2. \A x : Contains(order, x) => x \in Runs
  BY ElementOfSeq DEF Recorded, Contains
<1>3. \A x : Contains(order, x) => ~Contains(new, x)
  BY <1>2 DEF Recorded, Grows
<1> QED BY <1>1, <1>3 DEF Recorded, Grows

\* What was in the journal stays where it was; behind it comes what is new.
LEMMA GrowsBehind ==
  ASSUME Recorded, NEW new, Grows(new)
  PROVE  /\ Len(order) \in Nat /\ Len(new) \in Nat /\ Len(order') = Len(order) + Len(new)
         /\ \A i \in 1..Len(order) : i \in 1..Len(order') /\ order'[i] = order[i] /\ order[i] \in Runs
         /\ \A i \in 1..Len(order') : i \notin 1..Len(order) =>
              /\ i - Len(order) \in 1..Len(new) /\ order'[i] = new[i - Len(order)]
              /\ order'[i] \in Runs /\ Contains(new, order'[i])
<1>1. order \in Seq(Runs) /\ new \in Seq(Runs) /\ order' = order \o new
  BY DEF Recorded, Grows
<1>2. /\ Len(order) \in Nat /\ Len(new) \in Nat /\ Len(order') = Len(order) + Len(new)
      /\ \A i \in 1..(Len(order) + Len(new)) :
           order'[i] = IF i <= Len(order) THEN order[i] ELSE new[i - Len(order)]
  BY <1>1, ConcatProperties
<1>3. \A i \in 1..Len(order) : i \in 1..Len(order') /\ order'[i] = order[i] /\ order[i] \in Runs
  BY <1>1, <1>2, ElementOfSeq
<1>4. ASSUME NEW i \in 1..Len(order'), i \notin 1..Len(order)
      PROVE  /\ i - Len(order) \in 1..Len(new) /\ order'[i] = new[i - Len(order)]
             /\ order'[i] \in Runs /\ Contains(new, order'[i])
  <2>1. i - Len(order) \in 1..Len(new) /\ order'[i] = new[i - Len(order)]
    BY <1>2, <1>4
  <2>2. new[i - Len(order)] \in Runs
    BY <1>1, <2>1, ElementOfSeq
  <2> QED BY <2>1, <2>2 DEF Contains
<1> QED BY <1>2, <1>3, <1>4

\* The newest result of a task stays the newest if what comes behind it failed.
LEMMA NewestStays ==
  ASSUME Recorded, NEW new, Grows(new), NEW k \in Keys, NewestOf(k), latest'[k] = latest[k],
         \A x \in Runs : Failed(x) => Fails(x),
         \A x \in Runs : Contains(new, x) /\ KeyOf[x] = k => Fails(x)
  PROVE  NewestOf(k)'
<1>1. /\ Len(order) \in Nat
      /\ \A i \in 1..Len(order) : i \in 1..Len(order') /\ order'[i] = order[i] /\ order[i] \in Runs
      /\ \A i \in 1..Len(order') : i \notin 1..Len(order) => order'[i] \in Runs /\ Contains(new, order'[i])
  BY GrowsBehind
<1>2. CASE latest[k] = None
  <2>1. ASSUME NEW i \in 1..Len(order'), KeyOf[order'[i]] = k PROVE Fails(order'[i])
    <3>1. CASE i \in 1..Len(order)
      BY <1>1, <1>2, <2>1, <3>1 DEF NewestOf, Failed, Fails
    <3>2. CASE i \notin 1..Len(order)
      BY <1>1, <2>1, <3>2
    <3> QED BY <3>1, <3>2
  <2> QED BY <1>2, <2>1 DEF NewestOf, Failed, Fails
<1>3. CASE latest[k] # None
  <2>1. PICK p \in 1..Len(order) :
          /\ order[p] = latest[k]
          /\ \A j \in 1..Len(order) : j > p /\ KeyOf[order[j]] = k => Failed(order[j])
    BY <1>3 DEF NewestOf, Failed, Fails
  <2>2. ASSUME NEW j \in 1..Len(order'), j > p, KeyOf[order'[j]] = k PROVE Fails(order'[j])
    <3>1. CASE j \in 1..Len(order)
      BY <1>1, <2>1, <2>2, <3>1
    <3>2. CASE j \notin 1..Len(order)
      BY <1>1, <2>2, <3>2
    <3> QED BY <3>1, <3>2
  <2>3. p \in 1..Len(order') /\ order'[p] = latest'[k]
    BY <1>1, <2>1
  <2> QED BY <1>3, <2>2, <2>3 DEF NewestOf, Failed, Fails
<1> QED BY <1>2, <1>3

\* A result that is accepted is the newest of its task: its row is the last.
LEMMA NewestTakes ==
  ASSUME Recorded, NEW r \in Runs, NEW runs \in Seq(Runs), row[r] = "none",
         Grows(Keep(Append(runs, r), {x \in Runs : row[x] = "none"})),
         NEW k, latest'[k] = r
  PROVE  NewestOf(k)'
<1> DEFINE N == {x \in Runs : row[x] = "none"}
           all == Append(runs, r)
           new == Keep(all, N)
<1>1. all \in Seq(Runs) /\ Len(all) \in Nat /\ Len(all) >= 1 /\ all[Len(all)] = r
  BY AppendProperties
<1> HIDE DEF all
<1>2. new # << >> /\ Last(new) = r
  <2>1. Len(all) \in 1..Len(all) /\ all[Len(all)] \in N
    BY <1>1
  <2>2. new # << >>
    BY <1>1, <2>1, LastKept
  <2>3. PICK i \in 1..Len(all) : all[i] = Last(new) /\ \A j \in 1..Len(all) : j > i => all[j] \notin N
    BY <1>1, <2>2, LastKept
  <2>4. i = Len(all)
    BY <1>1, <2>1, <2>3
  <2> QED BY <1>1, <2>2, <2>3, <2>4
<1>3. Grows(new)
  BY DEF all
<1> HIDE DEF new
<1>4. Len(new) \in Nat \ {0}
  BY <1>2, <1>3, EmptySeq DEF Grows
<1>5. Len(order) \in Nat /\ Len(order') = Len(order) + Len(new)
  BY <1>3, GrowsBehind
<1>6. Len(order') \in 1..Len(order') /\ Len(order') \notin 1..Len(order) /\ Len(order') - Len(order) = Len(new)
  BY <1>4, <1>5
<1>7. order'[Len(order')] = r
  BY <1>2, <1>3, <1>6, GrowsBehind DEF Last
<1>8. \A j \in 1..Len(order') : ~(j > Len(order'))
  BY <1>5, <1>4
<1> QED BY <1>6, <1>7, <1>8, DeliveryAssumption DEF NewestOf

\* A step that is about the runs S keeps all this, if it does what it must to them.
LEMMA StepKeeps ==
  ASSUME HandInv, NEW S \in SUBSET Runs, row' \in [Runs -> Statuses], Queues', TimerSet', lost => lost',
         ~lost' /\ Resting' => Resting \/ told' = Synced(row', told),
         \A x \in Runs \ S : Aside(x),
         \A x \in S : Fit(x)' /\ row[x] \notin Final /\ (Failed(x) => Fails(x)),
         NEW new, Grows(new),
         latest' \in [Keys -> Runs \cup {None}], done' \in [Keys -> BOOLEAN],
         \A k \in Keys : \/ NewestOf(k)'
                         \/ /\ latest'[k] = latest[k]
                            /\ \A x \in S : Contains(new, x) /\ KeyOf[x] = k => Fails(x),
         \A k \in Keys : done'[k] => \/ done[k] /\ latest'[k] = latest[k]
                                     \/ latest'[k] \in Runs /\ row'[latest'[k]] \in Final
  PROVE  HandInv'
<1>1. \A x \in Runs : Fit(x)'
  BY AsideFits DEF HandInv
<1>2. Recorded'
  BY GrowsRecords DEF HandInv
<1>3. \A x \in Runs : (row[x] \in Final => row'[x] = row[x]) /\ (Failed(x) => Fails(x))
  BY SettledStays DEF HandInv
<1>4. ASSUME NEW x \in Runs \ S, Contains(new, x) PROVE Fails(x)
  <2>1. row[x] = "none" /\ row'[x] # "none"
    BY <1>4 DEF Grows
  <2>2. told[x] = "failed"
    BY <2>1 DEF Aside, HandInv, Fit
  <2> QED BY <1>3, <2>2 DEF Failed
<1>5. ASSUME NEW k \in Keys PROVE NewestOf(k)'
  <2>1. CASE /\ latest'[k] = latest[k]
             /\ \A x \in S : Contains(new, x) /\ KeyOf[x] = k => Fails(x)
    <3>1. \A x \in Runs : Contains(new, x) /\ KeyOf[x] = k => Fails(x)
      BY <1>4, <2>1
    <3>2. Recorded /\ NewestOf(k)
      BY DEF HandInv
    <3>3. \A x \in Runs : Failed(x) => Fails(x)
      BY <1>3
    <3> QED BY <2>1, <3>1, <3>2, <3>3, NewestStays
  <2> QED BY <2>1
<1>6. DoneIs'
  BY <1>3 DEF HandInv, DoneIs
<1> QED BY <1>1, <1>2, <1>5, <1>6 DEF HandInv

\* Of S nothing: what was accepted last and what is done stay.
LEMMA QuietStep ==
  ASSUME HandInv, row' \in [Runs -> Statuses], Queues', TimerSet', lost => lost',
         ~lost' /\ Resting' => Resting \/ told' = Synced(row', told),
         \A x \in Runs : Aside(x), NEW new, Grows(new), latest' = latest, done' = done
  PROVE  HandInv'
<1>1. latest' \in [Keys -> Runs \cup {None}] /\ done' \in [Keys -> BOOLEAN]
  BY DEF HandInv, DoneIs
<1>2. \A x \in {} : Fit(x)' /\ row[x] \notin Final /\ (Failed(x) => Fails(x))
  OBVIOUS
<1>3. {} \in SUBSET Runs /\ \A x \in Runs \ {} : Aside(x)
  OBVIOUS
<1> QED BY <1>1, <1>2, <1>3, StepKeeps

\* A sequence that has an element is not empty.
LEMMA EmptyHas == ASSUME NEW s \in Seq(Runs) PROVE s # << >> <=> \E x \in Runs : Contains(s, x)
<1>1. s # << >> => Contains(s, s[1]) /\ s[1] \in Runs
  BY EmptySeq, ElementOfSeq DEF Contains
<1>2. s = << >> => \A x : ~Contains(s, x)
  BY DEF Contains
<1> QED BY <1>1, <1>2

\* The rows have their statuses.
LEMMA RowTyped == HubInv => row \in [Runs -> Statuses]
BY DEF HubInv, Typed

\* What a step that does not touch the flushes leaves in hand.
LEMMA SameFlush ==
  ASSUME flush' = flush, NEW x
  PROVE  /\ Held(x)' <=> Contains(deferred', x) \/ \E f \in Flushes : Contains(flush[f].rest, x)
         /\ direct' = direct => (Sending(x)' <=> Sending(x))
BY DEF Held, Sending, Awaits

\* The connection goes down, or time passes.
LEMMA NothingMoves ==
  ASSUME HandInv, UNCHANGED <<row, order, deferred, latest, done, direct, flush, armed, told, lost>>
  PROVE  HandInv'
<1>1. Queues' /\ TimerSet' /\ Recorded' /\ DoneIs'
  BY DEF HandInv, Queues, TimerSet, Resting, Recorded, DoneIs
<1>2. \A k \in Keys : NewestOf(k)'
  BY DEF HandInv, NewestOf, Failed
<1>3. \A x \in Runs : Fit(x)'
  BY DEF HandInv, Fit, Held, Sending, Awaits, Resting
<1> QED BY <1>1, <1>2, <1>3 DEF HandInv
-----------------------------------------------------------------------------
(* The steps of a flush.                                                   *)

\* A flush takes the backlog.
LEMMA ReachHands ==
  ASSUME HubInv, HandInv, Reach
  PROVE  HandInv'
<1>1. PICK f \in Flushes : /\ flush[f] = Idle
                           /\ flush' = [flush EXCEPT ![f] = [Idle EXCEPT !.step = "loop", !.rest = deferred]]
  BY DEF Reach
<1>2. /\ deferred' = << >> /\ direct' = direct /\ row' = row /\ order' = order /\ told' = told
      /\ lost' = lost /\ latest' = latest /\ done' = done
  BY DEF Reach, journal
<1>3. /\ flush'[f].step = "loop" /\ flush'[f].rest = deferred /\ flush[f].step = "idle" /\ flush[f].rest = << >>
      /\ \A g \in Flushes : g # f => flush'[g] = flush[g]
  <2> DEFINE taken == [Idle EXCEPT !.step = "loop", !.rest = deferred]
  <2>1. taken.step = "loop" /\ taken.rest = deferred /\ Idle.step = "idle" /\ Idle.rest = << >>
    BY DEF Idle
  <2>2. flush' = [flush EXCEPT ![f] = taken]
    BY <1>1
  <2> HIDE DEF taken
  <2>3. flush'[f] = taken /\ \A g \in Flushes : g # f => flush'[g] = flush[g]
    BY <2>2 DEF HubInv, Typed
  <2> QED BY <1>1, <2>1, <2>3
<1>4. \A x : ~Contains(<< >>, x)
  BY DEF Contains
<1>5. << >> \in Seq(Runs) /\ OneToOne(<< >>)
  BY DEF OneToOne
<1>6. Queues'
  BY <1>2, <1>3, <1>4, <1>5 DEF HandInv, Queues
<1>7. \A x \in Runs : Held(x)' <=> Held(x)
  BY <1>2, <1>3, <1>4 DEF Held
<1>8. \A x \in Runs : Sending(x)' <=> Sending(x)
  BY <1>2, <1>3 DEF Sending, Awaits
<1>9. ~Resting'
  BY <1>3 DEF Resting, Idle
<1>10. \A x \in Runs : Aside(x)
  BY <1>2, <1>7, <1>8 DEF Aside, Heard
<1>11. Grows(<< >>)
  BY <1>2, GrowsNot DEF HandInv
<1>12. TimerSet' /\ row' \in [Runs -> Statuses]
  BY <1>2, <1>9, RowTyped DEF TimerSet
<1> QED BY <1>2, <1>6, <1>9, <1>10, <1>11, <1>12, QuietStep

\* A flush is done: nothing is in its hands, and the runs are told.
LEMMA FlushEndsHands ==
  ASSUME HubInv, HandInv, NEW f \in Flushes, FlushEnds(f)
  PROVE  HandInv'
<1>1. /\ flush[f].step = "loop" /\ flush[f].rest = << >> /\ flush' = [flush EXCEPT ![f] = Idle]
      /\ armed' = (deferred # << >>) /\ told' = Synced(row, told)
      /\ deferred' = deferred /\ direct' = direct /\ row' = row /\ order' = order
      /\ lost' = lost /\ latest' = latest /\ done' = done
  BY DEF FlushEnds, Aborts, journal
<1>2. /\ flush'[f].step = "idle" /\ flush'[f].rest = << >>
      /\ \A g \in Flushes : g # f => flush'[g] = flush[g]
  BY <1>1 DEF HubInv, Typed, Idle
<1>3. Queues'
  BY <1>1, <1>2 DEF HandInv, Queues
<1>4. \A x \in Runs : Held(x)' <=> Held(x)
  BY <1>1, <1>2 DEF Held
<1>5. \A x \in Runs : Sending(x)' <=> Sending(x)
  BY <1>1, <1>2 DEF Sending, Awaits
<1>6. row' \in [Runs -> Statuses] /\ told' = Synced(row', told)
  BY <1>1, RowTyped
<1>7. \A x \in Runs : Heard(x)
  BY <1>6, SyncedIs DEF Heard
<1>8. \A x \in Runs : Aside(x)
  BY <1>1, <1>4, <1>5, <1>7 DEF Aside
<1>9. Grows(<< >>)
  BY <1>1, GrowsNot DEF HandInv
<1>10. TimerSet'
  BY <1>1 DEF TimerSet
<1> QED BY <1>1, <1>3, <1>6, <1>8, <1>9, <1>10, QuietStep

\* What a flush that goes on, or ends early, does to what is in hand.
LEMMA Moved ==
  ASSUME HubInv, HandInv, NEW f \in Flushes, NEW r \in Runs, At(f, r)
  PROVE  /\ Held(r) /\ flush[f].step = "loop" /\ ~Contains(deferred, r)
         /\ Tail(flush[f].rest) \in Seq(Runs) /\ OneToOne(Tail(flush[f].rest))
         /\ \A x : Contains(flush[f].rest, x) <=> x = r \/ Contains(Tail(flush[f].rest), x)
         /\ ~Contains(Tail(flush[f].rest), r)
         /\ \A g \in Flushes : g # f => ~Contains(flush[g].rest, r)
         /\ flush = [g \in Flushes |-> flush[g]]
         /\ flush[f] = [step |-> "loop", rest |-> flush[f].rest, item |-> flush[f].item]
<1>1. flush[f].rest \in Seq(Runs) /\ flush[f].rest # << >> /\ r = Head(flush[f].rest) /\ flush[f].step = "loop"
  BY DEF At, HandInv, Queues
<1>2. /\ Tail(flush[f].rest) \in Seq(Runs)
      /\ \A x : Contains(flush[f].rest, x) <=> x = r \/ Contains(Tail(flush[f].rest), x)
      /\ OneToOne(Tail(flush[f].rest)) /\ ~Contains(Tail(flush[f].rest), r)
  BY <1>1, TailHas DEF HandInv, Queues
<1>3. Contains(flush[f].rest, r)
  BY <1>2
<1>4. /\ flush = [g \in Flushes |-> flush[g]]
      /\ flush[f] = [step |-> "loop", rest |-> flush[f].rest, item |-> flush[f].item]
  BY <1>1 DEF HubInv, Typed
<1> QED BY <1>1, <1>2, <1>3, <1>4 DEF Held, HandInv, Queues

\* A flush that goes on has let go of its first result, or put it back.
LEMMA GoesOnHands ==
  ASSUME HubInv, HandInv, NEW f \in Flushes, NEW r \in Runs, At(f, r), GoesOn(f), direct' = direct,
         \/ deferred' = deferred
         \/ deferred' = Append(deferred, r)
  PROVE  /\ Queues' /\ ~Resting'
         /\ \A x \in Runs : (x # r => (Held(x)' <=> Held(x))) /\ (Sending(x)' <=> Sending(x))
         /\ Held(r)' <=> deferred' # deferred
         /\ deferred' = Append(deferred, r) => Held(r)'
<1>0. /\ Held(r) /\ flush[f].step = "loop" /\ ~Contains(deferred, r)
      /\ Tail(flush[f].rest) \in Seq(Runs) /\ OneToOne(Tail(flush[f].rest))
      /\ \A x : Contains(flush[f].rest, x) <=> x = r \/ Contains(Tail(flush[f].rest), x)
      /\ ~Contains(Tail(flush[f].rest), r)
      /\ \A g \in Flushes : g # f => ~Contains(flush[g].rest, r)
      /\ flush = [g \in Flushes |-> flush[g]]
      /\ flush[f] = [step |-> "loop", rest |-> flush[f].rest, item |-> flush[f].item]
  BY Moved
<1>a. Queues
  BY DEF HandInv
<1>1. /\ flush'[f].step = "loop" /\ flush'[f].rest = Tail(flush[f].rest)
      /\ \A g \in Flushes : g # f => flush'[g] = flush[g]
  BY <1>0 DEF GoesOn
<1>2. deferred \in Seq(Runs) /\ OneToOne(deferred) /\ ~Contains(deferred, r)
  BY <1>0, <1>a DEF Queues
<1>3. /\ Append(deferred, r) \in Seq(Runs) /\ OneToOne(Append(deferred, r))
      /\ \A x : Contains(Append(deferred, r), x) <=> Contains(deferred, x) \/ x = r
  BY <1>2, AppendHas
<1>4. Queues'
  <2>1. deferred' \in Seq(Runs) /\ OneToOne(deferred')
    BY <1>2, <1>3
  <2>2. \A g \in Flushes : flush'[g].rest \in Seq(Runs) /\ OneToOne(flush'[g].rest)
    BY <1>0, <1>1, <1>a DEF Queues
  <2>3. \A x : \A g \in Flushes : Contains(flush'[g].rest, x) => Contains(flush[g].rest, x) /\ x # r
    BY <1>0, <1>1
  <2>4. \A x : x # r /\ Contains(deferred', x) => Contains(deferred, x)
    BY <1>3
  <2> QED BY <2>1, <2>2, <2>3, <2>4, <1>a DEF Queues
<1>5. ~Resting'
  BY <1>1 DEF Resting, Idle
<1>6. \A x \in Runs : x # r => (Held(x)' <=> Held(x))
  BY <1>1, <1>2, <1>3, <1>0 DEF Held
<1>7. \A x \in Runs : Sending(x)' <=> Sending(x)
  BY <1>1, <1>0 DEF Sending, Awaits
<1>8. /\ Held(r)' <=> Contains(deferred', r)
      /\ deferred' = deferred => ~Contains(deferred', r)
      /\ deferred' = Append(deferred, r) => Contains(deferred', r)
  BY <1>1, <1>2, <1>3, <1>0 DEF Held
<1> QED BY <1>4, <1>5, <1>6, <1>7, <1>8

\* A flush that ends early has nothing in its hands, and took nothing from the
\* others.
LEMMA AbortsHands ==
  ASSUME HubInv, HandInv, NEW f \in Flushes, NEW r \in Runs, At(f, r), Aborts(f), direct' = direct,
         deferred' = deferred
  PROVE  /\ Queues'
         /\ \A x \in Runs : (Held(x)' => Held(x)) /\ (Sending(x)' <=> Sending(x))
         /\ ~Held(r)'
<1>0. /\ Held(r) /\ flush[f].step = "loop" /\ ~Contains(deferred, r)
      /\ Tail(flush[f].rest) \in Seq(Runs) /\ OneToOne(Tail(flush[f].rest))
      /\ \A x : Contains(flush[f].rest, x) <=> x = r \/ Contains(Tail(flush[f].rest), x)
      /\ ~Contains(Tail(flush[f].rest), r)
      /\ \A g \in Flushes : g # f => ~Contains(flush[g].rest, r)
      /\ flush = [g \in Flushes |-> flush[g]]
      /\ flush[f] = [step |-> "loop", rest |-> flush[f].rest, item |-> flush[f].item]
  BY Moved
<1>a. Queues
  BY DEF HandInv
<1>1. /\ flush'[f].step = "idle" /\ flush'[f].rest = << >>
      /\ \A g \in Flushes : g # f => flush'[g] = flush[g]
  BY <1>0 DEF Aborts, Idle
<1>2. << >> \in Seq(Runs) /\ OneToOne(<< >>) /\ \A x : ~Contains(<< >>, x)
  BY DEF OneToOne, Contains
<1>3. Queues'
  <2>1. \A g \in Flushes : flush'[g].rest \in Seq(Runs) /\ OneToOne(flush'[g].rest)
    BY <1>1, <1>2, <1>a DEF Queues
  <2>2. \A x : \A g \in Flushes : Contains(flush'[g].rest, x) => Contains(flush[g].rest, x)
    BY <1>1, <1>2
  <2> QED BY <2>1, <2>2, <1>a DEF Queues
<1>4. \A x \in Runs : Held(x)' => Held(x)
  BY <1>1, <1>2 DEF Held
<1>5. \A x \in Runs : Sending(x)' <=> Sending(x)
  BY <1>1, <1>0 DEF Sending, Awaits
<1>6. ~Held(r)'
  BY <1>1, <1>2, <1>0 DEF Held
<1> QED BY <1>3, <1>4, <1>5, <1>6

\* A write that succeeds adds a row to the journal, or changes one.
LEMMA WriteGrows ==
  ASSUME HubInv, NEW r \in Runs, NEW v \in Statuses \ {"none"}, row' = [row EXCEPT ![r] = v],
         order' = Inserted(<<r>>)
  PROVE  /\ row' \in [Runs -> Statuses] /\ row'[r] = v /\ \A x \in Runs : x # r => row'[x] = row[x]
         /\ \E new : Grows(new)
<1>1. row' \in [Runs -> Statuses] /\ row'[r] = v /\ \A x \in Runs : x # r => row'[x] = row[x]
  BY RowTyped
<1>2. <<r>> \in Seq(Runs) /\ OneToOne(<<r>>) /\ \A x : Contains(<<r>>, x) <=> x = r
  BY OneHas
<1>3. Grows(Keep(<<r>>, {x \in Runs : row[x] = "none"}))
  BY <1>1, <1>2, InsertedGrows
<1> QED BY <1>1, <1>3

\* A flush that ends early loses what is left of it, and says so.
LEMMA AbortsKeeps ==
  ASSUME HubInv, HandInv, NEW f \in Flushes, NEW r \in Runs, At(f, r), Aborts(f), lost' = TRUE,
         UNCHANGED <<row, order, deferred, latest, done, direct, told>>
  PROVE  HandInv'
<1>1. /\ row' = row /\ order' = order /\ deferred' = deferred /\ latest' = latest /\ done' = done
      /\ direct' = direct /\ told' = told
  OBVIOUS
<1>2. Queues' /\ \A x \in Runs : (Held(x)' => Held(x)) /\ (Sending(x)' <=> Sending(x))
  BY <1>1, AbortsHands
<1>3. \A x \in Runs : Aside(x)
  BY <1>1, <1>2 DEF Aside, Heard
<1>4. Grows(<< >>)
  BY <1>1, GrowsNot DEF HandInv
<1>5. TimerSet' /\ row' \in [Runs -> Statuses]
  BY <1>1, RowTyped DEF TimerSet
<1> QED BY <1>1, <1>2, <1>3, <1>4, <1>5, QuietStep

\* A flush settles what is too late.
LEMMA FlushSettlesHands ==
  ASSUME HubInv, HandInv, NEW f \in Flushes, NEW r \in Runs, FlushSettles(f, r)
  PROVE  HandInv'
<1> DEFINE v == IF r \in overdue THEN "expired" ELSE "superseded"
<1>1. PICK n \in 0..1 : /\ At(f, r) /\ Journal(r, <<v>>, n)
                        /\ IF n = 0 THEN GoesOn(f) ELSE Aborts(f)
                        /\ deferred' = deferred /\ latest' = latest /\ done' = done
                        /\ direct' = direct /\ told' = told
  BY DEF FlushSettles
<1>2. v \in Final /\ v \in Statuses \ {"none"} /\ v \notin {"none", "deferred", "delivering"}
  BY DEF Statuses, Final
<1> HIDE DEF v
<1>3. CASE n = 1
  BY <1>1, <1>3, AbortsKeeps DEF Journal
<1>4. CASE n = 0
  <2>1. row' = [row EXCEPT ![r] = v] /\ order' = Inserted(<<r>>) /\ lost' = lost /\ GoesOn(f)
    BY <1>1, <1>4 DEF Journal
  <2>2. /\ row' \in [Runs -> Statuses] /\ row'[r] = v /\ \A x \in Runs : x # r => row'[x] = row[x]
        /\ \E new : Grows(new)
    BY <1>2, <2>1, WriteGrows
  <2>3. PICK new : Grows(new)
    BY <2>2
  <2>4. /\ Queues' /\ ~Resting'
        /\ \A x \in Runs : (x # r => (Held(x)' <=> Held(x))) /\ (Sending(x)' <=> Sending(x))
        /\ Held(r)' <=> deferred' # deferred
    BY <1>1, <2>1, GoesOnHands
  <2>5. Held(r)
    BY <1>1, Moved
  <2>6. Fit(r)
    BY DEF HandInv
  <2>7. Fit(r)'
    BY <1>1, <1>2, <2>2, <2>4, <2>5, <2>6 DEF Fit
  <2>8. row[r] \notin Final /\ (Failed(r) => Fails(r))
    BY <1>1, <2>5, <2>6, KindsOfStatus DEF Fit, Failed, Fails
  <2>9. Contains(new, r) => Fails(r)
    BY <1>1, <2>3, <2>5, <2>6 DEF Grows, Fit, Fails
  <2>10. \A x \in Runs \ {r} : Aside(x)
    BY <1>1, <2>1, <2>2, <2>4 DEF Aside, Heard
  <2>11. TimerSet'
    BY <2>4 DEF TimerSet
  <2>12. latest' \in [Keys -> Runs \cup {None}] /\ done' \in [Keys -> BOOLEAN]
    BY <1>1 DEF HandInv, DoneIs
  <2>13. {r} \in SUBSET Runs /\ \A x \in {r} : Fit(x)' /\ row[x] \notin Final /\ (Failed(x) => Fails(x))
    BY <2>7, <2>8
  <2>14. \A k \in Keys : latest'[k] = latest[k] /\ \A x \in {r} : Contains(new, x) /\ KeyOf[x] = k => Fails(x)
    BY <1>1, <2>9
  <2> QED BY <1>1, <2>1, <2>2, <2>3, <2>4, <2>10, <2>11, <2>12, <2>13, <2>14, StepKeeps
<1> QED BY <1>1, <1>3, <1>4

\* A flush that changes no row, and goes on, keeps what is in hand.
LEMMA GoesOnKeepsHands ==
  ASSUME HubInv, HandInv, NEW f \in Flushes, NEW r \in Runs, At(f, r), GoesOn(f), lost' = lost,
         UNCHANGED <<row, latest, done, direct, told>>, NEW new, Grows(new),
         \/ deferred' = Append(deferred, r)
         \/ deferred' = deferred /\ row[r] # "deferred"
  PROVE  HandInv'
<1>1. row' = row /\ latest' = latest /\ done' = done /\ direct' = direct /\ told' = told
  OBVIOUS
<1>2. /\ Queues' /\ ~Resting'
      /\ \A x \in Runs : (x # r => (Held(x)' <=> Held(x))) /\ (Sending(x)' <=> Sending(x))
      /\ deferred' = Append(deferred, r) => Held(r)'
  BY <1>1, GoesOnHands
<1>3. Held(r)
  BY Moved
<1>4. \A x \in Runs : Aside(x)
  BY <1>1, <1>2, <1>3 DEF Aside, Heard
<1>5. TimerSet' /\ row' \in [Runs -> Statuses]
  BY <1>1, <1>2, RowTyped DEF TimerSet
<1> QED BY <1>1, <1>2, <1>4, <1>5, QuietStep

\* A flush leaves alone what is done, and what does not wait.
LEMMA FlushSkipsHands ==
  ASSUME HubInv, HandInv, NEW f \in Flushes, NEW r \in Runs, FlushSkips(f, r)
  PROVE  HandInv'
<1>1. /\ At(f, r) /\ GoesOn(f) /\ row' = row /\ order' = order /\ lost' = lost /\ deferred' = deferred
      /\ latest' = latest /\ done' = done /\ direct' = direct /\ told' = told
      /\ done[KeyOf[r]] \/ row[r] # "deferred"
      /\ latest[KeyOf[r]] \in {None, r}
  BY DEF FlushSkips, Current, Outdated, journal
<1>2. row[r] # "deferred"
  BY <1>1, KindsOfStatus, DeliveryAssumption DEF HandInv, DoneIs
<1>3. Grows(<< >>)
  BY <1>1, GrowsNot DEF HandInv
<1> QED BY <1>1, <1>2, <1>3, GoesOnKeepsHands

\* A flush puts back what cannot be sent now.
LEMMA FlushKeepsHands ==
  ASSUME HubInv, HandInv, NEW f \in Flushes, NEW r \in Runs, FlushKeeps(f, r)
  PROVE  HandInv'
<1>1. /\ At(f, r) /\ GoesOn(f) /\ row' = row /\ order' = order /\ lost' = lost
      /\ deferred' = Append(deferred, r)
      /\ latest' = latest /\ done' = done /\ direct' = direct /\ told' = told
  BY DEF FlushKeeps, Current, journal
<1>2. Grows(<< >>)
  BY <1>1, GrowsNot DEF HandInv
<1> QED BY <1>1, <1>2, GoesOnKeepsHands

\* A flush hands a result to the driver.
LEMMA FlushSendsHands ==
  ASSUME HubInv, HandInv, NEW f \in Flushes, NEW r \in Runs, FlushSends(f, r)
  PROVE  HandInv'
<1>1. PICK n \in 0..2 :
        /\ Journal(r, <<"delivering", "deferred">>, n)
        /\ n = 0 => /\ flush' = [flush EXCEPT ![f] = [step |-> "await", rest |-> Tail(flush[f].rest), item |-> r]]
                    /\ deferred' = deferred
        /\ n = 1 => GoesOn(f) /\ deferred' = Append(deferred, r)
        /\ n = 2 => Aborts(f) /\ deferred' = deferred
  <2>1. PICK n \in 0..2 :
          /\ Journal(r, <<"delivering", "deferred">>, n)
          /\ CASE n = 0 -> /\ flush' = [flush EXCEPT ![f] = [step |-> "await", rest |-> Tail(@.rest), item |-> r]]
                           /\ sent' = [sent EXCEPT ![r] = @ + 1]
                           /\ UNCHANGED deferred
               [] n = 1 -> GoesOn(f) /\ deferred' = Append(deferred, r) /\ UNCHANGED sent
               [] n = 2 -> Aborts(f) /\ UNCHANGED <<deferred, sent>>
    BY DEF FlushSends
  <2>2. n = 0 => /\ flush' = [flush EXCEPT ![f] = [step |-> "await", rest |-> Tail(flush[f].rest), item |-> r]]
                 /\ deferred' = deferred
    BY <2>1
  <2>3. n = 1 => GoesOn(f) /\ deferred' = Append(deferred, r)
    BY <2>1
  <2>4. n = 2 => Aborts(f) /\ deferred' = deferred
    BY <2>1
  <2> QED BY <2>1, <2>2, <2>3, <2>4
<1>2. /\ At(f, r) /\ row[r] = "deferred"
      /\ latest' = latest /\ done' = done /\ direct' = direct /\ told' = told
  BY DEF FlushSends, Current
<1>3. CASE n = 2
  <2>1. row' = row /\ order' = order /\ lost' = TRUE /\ Aborts(f) /\ deferred' = deferred
    BY <1>1, <1>3 DEF Journal
  <2> QED BY <1>2, <2>1, AbortsKeeps
<1>4. CASE n = 1
  <2>1. row' = [row EXCEPT ![r] = "deferred"] /\ order' = Inserted(<<r>>) /\ lost' = lost
    BY <1>1, <1>4 DEF Journal
  <2>2. row' = row
    BY <1>2, <2>1, RowTyped
  <2>3. "deferred" \in Statuses \ {"none"}
    BY DEF Statuses
  <2>4. PICK new : Grows(new)
    BY <2>1, <2>3, WriteGrows
  <2>5. GoesOn(f) /\ deferred' = Append(deferred, r)
    BY <1>1, <1>4
  <2> QED BY <1>2, <2>1, <2>2, <2>4, <2>5, GoesOnKeepsHands
<1>5. CASE n = 0
  <2>1. row' = [row EXCEPT ![r] = "delivering"] /\ order' = Inserted(<<r>>) /\ lost' = lost
    BY <1>1, <1>5 DEF Journal
  <2>a. "delivering" \in Statuses \ {"none"}
    BY DEF Statuses
  <2>2. /\ row' \in [Runs -> Statuses] /\ row'[r] = "delivering" /\ \A x \in Runs : x # r => row'[x] = row[x]
        /\ \E new : Grows(new)
    BY <2>1, <2>a, WriteGrows
  <2>3. PICK new : Grows(new)
    BY <2>2
  <2>0. /\ Held(r) /\ flush[f].step = "loop" /\ ~Contains(deferred, r)
        /\ Tail(flush[f].rest) \in Seq(Runs) /\ OneToOne(Tail(flush[f].rest))
        /\ \A x : Contains(flush[f].rest, x) <=> x = r \/ Contains(Tail(flush[f].rest), x)
        /\ ~Contains(Tail(flush[f].rest), r)
        /\ \A g \in Flushes : g # f => ~Contains(flush[g].rest, r)
        /\ flush = [g \in Flushes |-> flush[g]]
    BY <1>2, Moved
  <2>4. /\ flush' = [flush EXCEPT ![f] = [step |-> "await", rest |-> Tail(flush[f].rest), item |-> r]]
        /\ deferred' = deferred
    BY <1>1, <1>5
  <2>5. /\ flush'[f].step = "await" /\ flush'[f].rest = Tail(flush[f].rest) /\ flush'[f].item = r
        /\ \A g \in Flushes : g # f => flush'[g] = flush[g]
    BY <2>0, <2>4
  <2>b. Queues
    BY DEF HandInv
  <2>6. Queues'
    <3>1. \A g \in Flushes : flush'[g].rest \in Seq(Runs) /\ OneToOne(flush'[g].rest)
      BY <2>0, <2>5, <2>b DEF Queues
    <3>2. \A x : \A g \in Flushes : Contains(flush'[g].rest, x) => Contains(flush[g].rest, x)
      BY <2>0, <2>5
    <3> QED BY <2>4, <3>1, <3>2, <2>b DEF Queues
  <2>7. \A x \in Runs : x # r => (Held(x)' <=> Held(x)) /\ (Sending(x)' <=> Sending(x))
    BY <1>2, <2>0, <2>4, <2>5 DEF Held, Sending, Awaits
  <2>8. ~Held(r)' /\ Sending(r)' /\ ~Resting'
    BY <2>0, <2>4, <2>5 DEF Held, Sending, Awaits, Resting, Idle
  <2>9. Fit(r) /\ r \notin direct'
    BY <1>2, <2>0 DEF HandInv, Fit, Sending
  <2>10. Fit(r)'
    BY <1>2, <2>0, <2>2, <2>8, <2>9 DEF Fit
  <2>11. row[r] \notin Final /\ (Failed(r) => Fails(r)) /\ ~Contains(new, r)
    BY <1>2, <2>3, KindsOfStatus DEF Grows, Failed, Fails
  <2>12. \A x \in Runs \ {r} : Aside(x)
    BY <1>2, <2>2, <2>7 DEF Aside, Heard
  <2>13. TimerSet'
    BY <2>8 DEF TimerSet
  <2>14. latest' \in [Keys -> Runs \cup {None}] /\ done' \in [Keys -> BOOLEAN]
    BY <1>2 DEF HandInv, DoneIs
  <2>15. {r} \in SUBSET Runs /\ \A x \in {r} : Fit(x)' /\ row[x] \notin Final /\ (Failed(x) => Fails(x))
    BY <2>10, <2>11
  <2>16. \A k \in Keys : latest'[k] = latest[k] /\ \A x \in {r} : Contains(new, x) /\ KeyOf[x] = k => Fails(x)
    BY <1>2, <2>11
  <2> QED BY <1>2, <2>1, <2>2, <2>3, <2>6, <2>8, <2>12, <2>13, <2>14, <2>15, <2>16, StepKeeps
<1> QED BY <1>1, <1>3, <1>4, <1>5

\* A flush is over only when its call is: it keeps what is in hand.
LEMMA FlushHands ==
  ASSUME HubInv, HandInv, NEW f \in Flushes, FlushStep(f)
  PROVE  HandInv'
BY FlushEndsHands, FlushSettlesHands, FlushSkipsHands, FlushKeepsHands, FlushSendsHands DEF FlushStep

-----------------------------------------------------------------------------
(* The answers of the driver.                                              *)

\* What was under way is settled, waits again, or is lost: the others are left
\* alone.
LEMMA AnswerKeeps ==
  ASSUME HubInv, HandInv, NEW r \in Runs, Sending(r), Queues', TimerSet', ~Sending(r)',
         \/ row' = row /\ order' = order /\ lost' = TRUE
         \/ \E v \in Final \cup {"deferred"} :
              row' = [row EXCEPT ![r] = v] /\ order' = Inserted(<<r>>) /\ lost' = lost,
         NEW said, told' = [told EXCEPT ![r] = said], said \notin {"new", "pending"} \/ said = told[r],
         Failed(r) => said = "failed",
         \A x \in Runs : x # r => /\ (x \in direct' <=> x \in direct) /\ (Sending(x)' <=> Sending(x))
                                  /\ (Held(x)' => Held(x)) /\ (~lost' => (Held(x)' <=> Held(x))),
         Held(r)' <=> row'[r] = "deferred",
         ~lost' /\ Resting' => Resting /\ said # "pending",
         latest' = latest, done' = done \/ (Delivered(r) /\ row'[r] = "delivered")
  PROVE  HandInv'
<1> USE KindsOfStatus
<1>1. Fit(r) /\ row[r] = "delivering" /\ told[r] # "new" /\ ~Held(r)
  BY DEF HandInv, Fit
<1>2. told'[r] = said /\ \A x \in Runs : x # r => told'[x] = told[x]
  BY DEF HubInv, Typed
<1>3. /\ row' \in [Runs -> Statuses] /\ row'[r] # "none" /\ \A x \in Runs : x # r => row'[x] = row[x]
      /\ row'[r] = "delivering" => lost'
      /\ \E new : Grows(new)
  <2>1. CASE row' = row /\ order' = order /\ lost' = TRUE
    <3>1. Grows(<< >>)
      BY <2>1, GrowsNot DEF HandInv
    <3> QED BY <1>1, <2>1, <3>1, RowTyped
  <2>2. ASSUME NEW v \in Final \cup {"deferred"}, row' = [row EXCEPT ![r] = v], order' = Inserted(<<r>>),
               lost' = lost
        PROVE  /\ row' \in [Runs -> Statuses] /\ row'[r] # "none" /\ \A x \in Runs : x # r => row'[x] = row[x]
               /\ row'[r] = "delivering" => lost'
               /\ \E new : Grows(new)
    <3>1. v \in Statuses \ {"none"} /\ v # "delivering"
      BY <2>2 DEF Statuses, Final
    <3> QED BY <2>2, <3>1, WriteGrows
  <2> QED BY <2>1, <2>2
<1>4. PICK new : Grows(new)
  BY <1>3
<1>5. lost => lost'
  OBVIOUS
<1>6. Fit(r)'
  BY <1>1, <1>2, <1>3 DEF Fit, Sending
<1>7. row[r] \notin Final /\ (Failed(r) => Fails(r)) /\ ~Contains(new, r)
  BY <1>1, <1>2, <1>4 DEF Grows, Failed, Fails
<1>8. \A x \in Runs \ {r} : Aside(x)
  BY <1>2, <1>3 DEF Aside, Heard
<1>9. latest' \in [Keys -> Runs \cup {None}] /\ done' \in [Keys -> BOOLEAN]
  BY DEF HandInv, DoneIs, Delivered
<1>10. {r} \in SUBSET Runs /\ \A x \in {r} : Fit(x)' /\ row[x] \notin Final /\ (Failed(x) => Fails(x))
  BY <1>6, <1>7
<1>11. \A k \in Keys : latest'[k] = latest[k] /\ \A x \in {r} : Contains(new, x) /\ KeyOf[x] = k => Fails(x)
  BY <1>7
<1>12. "delivered" \in Final
  BY DEF Final
<1>13. \A k \in Keys : done'[k] => \/ done[k] /\ latest'[k] = latest[k]
                                   \/ latest'[k] \in Runs /\ row'[latest'[k]] \in Final
  BY <1>12 DEF Delivered
<1>14. ~lost' /\ Resting' => Resting \/ told' = Synced(row', told)
  OBVIOUS
<1> QED BY <1>3, <1>4, <1>5, <1>8, <1>9, <1>10, <1>11, <1>13, <1>14, StepKeeps

\* The driver answers a call of deliver.
LEMMA AnsweredHands ==
  ASSUME HubInv, HandInv, NEW r \in Runs, Answered(r)
  PROVE  HandInv'
<1>1. /\ r \in direct /\ direct' = direct \ {r} /\ flush' = flush /\ deferred' = deferred
      /\ latest' = latest /\ armed' = armed
  BY DEF Answered
<1>2. Sending(r) /\ Fit(r) /\ row[r] = "delivering" /\ told[r] = "running" /\ ~Held(r)
  BY <1>1 DEF HandInv, Fit, Sending
<1>3. ~Sending(r)'
  BY <1>1 DEF HubInv, InFlight, Sending, Awaits
<1>4. /\ \/ row' = row /\ order' = order /\ lost' = TRUE
         \/ \E v \in {"delivered", "uncertain", "failed"} :
              row' = [row EXCEPT ![r] = v] /\ order' = Inserted(<<r>>) /\ lost' = lost
      /\ \E said \in {"delivered", "uncertain", "degraded", "failed"} : told' = [told EXCEPT ![r] = said]
      /\ done' = done \/ (Delivered(r) /\ row' = [row EXCEPT ![r] = "delivered"])
  <2>1. PICK n \in 0..2 :
       \/ /\ Journal(r, <<"delivered", "uncertain">>, n)
          /\ Returns(r, IF n = 0 THEN "delivered" ELSE "uncertain")
          /\ IF n = 0 THEN Delivered(r) ELSE UNCHANGED done
       \/ /\ n < 2 /\ Journal(r, <<"failed">>, n)
          /\ Returns(r, IF n = 0 THEN "degraded" ELSE "failed")
          /\ UNCHANGED done
       \/ /\ n < 2 /\ Journal(r, <<"uncertain">>, n)
          /\ Returns(r, IF n = 0 THEN "uncertain" ELSE "failed")
          /\ UNCHANGED done
    BY DEF Answered
  <2> QED BY <2>1 DEF Journal, Returns
<1>5. PICK said \in {"delivered", "uncertain", "degraded", "failed"} : told' = [told EXCEPT ![r] = said]
  BY <1>4
<1>6. Queues' /\ (Resting' <=> Resting)
  BY <1>1 DEF HandInv, Queues, Resting
<1>7. TimerSet'
  BY <1>1, <1>4, <1>6 DEF HandInv, TimerSet
<1>8. \A x \in Runs : (Held(x)' <=> Held(x)) /\ (x # r => (x \in direct' <=> x \in direct) /\ (Sending(x)' <=> Sending(x)))
  BY <1>1 DEF Held, Sending, Awaits
<1>9. row'[r] # "deferred" /\ (row' = [row EXCEPT ![r] = "delivered"] => row'[r] = "delivered")
  BY <1>2, <1>4, RowTyped
<1>10. \A v \in {"delivered", "uncertain", "failed"} : v \in Final \cup {"deferred"}
  BY DEF Final
<1>11. Failed(r) => said = "failed"
  BY <1>2 DEF Failed
<1>12. \/ row' = row /\ order' = order /\ lost' = TRUE
       \/ \E v \in Final \cup {"deferred"} :
            row' = [row EXCEPT ![r] = v] /\ order' = Inserted(<<r>>) /\ lost' = lost
  BY <1>4, <1>10
<1>13. said \notin {"new", "pending"}
  OBVIOUS
<1> QED BY <1>1, <1>2, <1>3, <1>4, <1>5, <1>6, <1>7, <1>8, <1>9, <1>11, <1>12, <1>13, AnswerKeeps

\* What a flush that has its answer does to what is in hand.
LEMMA ResumesHands ==
  ASSUME HubInv, HandInv, NEW f \in Flushes, NEW r \in Runs, Awaits(f), r = flush[f].item, direct' = direct,
         \/ Resumes(f) /\ deferred' \in {deferred, Append(deferred, r)}
         \/ Aborts(f) /\ deferred' = deferred /\ lost'
  PROVE  /\ Queues' /\ ~Sending(r)' /\ (Held(r)' <=> deferred' # deferred)
         /\ \A x \in Runs : x # r => /\ (Sending(x)' <=> Sending(x)) /\ (Held(x)' => Held(x))
                                     /\ ~lost' => (Held(x)' <=> Held(x))
         /\ ~lost' => ~Resting'
<1>1. Sending(r) /\ ~Held(r)
  BY DEF HandInv, Fit, Sending
<1>2. Queues
  BY DEF HandInv
<1>3. /\ \A g \in Flushes : g # f => flush'[g] = flush[g]
      /\ Resumes(f) => flush'[f].step = "loop" /\ flush'[f].rest = flush[f].rest
      /\ Aborts(f) => flush'[f].step = "idle" /\ flush'[f].rest = << >>
      /\ flush'[f].step # "await"
  BY DEF HubInv, Typed, Resumes, Aborts, Idle
<1>4. << >> \in Seq(Runs) /\ OneToOne(<< >>) /\ \A x : ~Contains(<< >>, x)
  BY DEF OneToOne, Contains
<1>5. ~Contains(deferred, r) /\ \A g \in Flushes : ~Contains(flush[g].rest, r)
  BY <1>1 DEF Held
<1>6. /\ Append(deferred, r) \in Seq(Runs) /\ OneToOne(Append(deferred, r))
      /\ \A x : Contains(Append(deferred, r), x) <=> Contains(deferred, x) \/ x = r
  BY <1>2, <1>5, AppendHas DEF Queues
<1>7. deferred' \in {deferred, Append(deferred, r)}
  OBVIOUS
<1>8. /\ deferred' \in Seq(Runs) /\ OneToOne(deferred')
      /\ \A x : x # r => (Contains(deferred', x) <=> Contains(deferred, x))
      /\ Contains(deferred', r) <=> deferred' # deferred
  BY <1>2, <1>5, <1>6, <1>7 DEF Queues
<1>9. \A g \in Flushes : /\ flush'[g].rest \in Seq(Runs) /\ OneToOne(flush'[g].rest)
                         /\ \A x : Contains(flush'[g].rest, x) => Contains(flush[g].rest, x)
                         /\ ~lost' => flush'[g].rest = flush[g].rest
  BY <1>2, <1>3, <1>4 DEF Queues
<1>10. \A x : \A g \in Flushes : Contains(flush'[g].rest, x) => x # r
  BY <1>5, <1>9
<1>11. Queues'
  BY <1>2, <1>8, <1>9, <1>10 DEF Queues
<1>12. Held(r)' <=> deferred' # deferred
  BY <1>8, <1>10 DEF Held
<1>13. \A x \in Runs : x # r => (Held(x)' => Held(x)) /\ (~lost' => (Held(x)' <=> Held(x)))
  BY <1>8, <1>9 DEF Held
<1>14. \A x \in Runs : x # r => (Sending(x)' <=> Sending(x))
  BY <1>3 DEF Sending, Awaits
<1>15. ~Sending(r)'
  BY <1>3 DEF Sending, Awaits, HubInv, InFlight
<1>16. ~lost' => ~Resting'
  BY <1>3 DEF Resting, Idle
<1> QED BY <1>11, <1>12, <1>13, <1>14, <1>15, <1>16

\* The driver answers a flush.
LEMMA FlushAnsweredHands ==
  ASSUME HubInv, HandInv, NEW f \in Flushes, NEW r \in Runs, FlushAnswered(f, r)
  PROVE  HandInv'
<1>1. Awaits(f) /\ r = flush[f].item /\ latest' = latest /\ direct' = direct /\ told' = told
  BY DEF FlushAnswered, Awaits
<1>2. Sending(r) /\ row[r] = "delivering" /\ told[r] # "new" /\ ~Held(r)
  BY <1>1 DEF HandInv, Fit, Sending
<1>3. PICK n \in 0..2 :
       \/ /\ Journal(r, <<"delivered", "uncertain">>, n)
          /\ IF n = 0 THEN Delivered(r) ELSE UNCHANGED done
          /\ Resumes(f) /\ UNCHANGED deferred
       \/ /\ n < 2 /\ Journal(r, <<"deferred">>, n)
          /\ IF n = 0 THEN deferred' = Append(deferred, r) /\ Resumes(f)
             ELSE Aborts(f) /\ UNCHANGED deferred
          /\ UNCHANGED done
       \/ /\ n < 2 /\ Journal(r, <<"uncertain">>, n)
          /\ IF n = 0 THEN Resumes(f) ELSE Aborts(f)
          /\ UNCHANGED <<deferred, done>>
  BY DEF FlushAnswered
<1>4. /\ \/ row' = row /\ order' = order /\ lost' = TRUE /\ deferred' = deferred
         \/ \E v \in {"delivered", "uncertain"} :
              /\ row' = [row EXCEPT ![r] = v] /\ order' = Inserted(<<r>>) /\ lost' = lost
              /\ deferred' = deferred
         \/ /\ row' = [row EXCEPT ![r] = "deferred"] /\ order' = Inserted(<<r>>) /\ lost' = lost
            /\ deferred' = Append(deferred, r)
      /\ \/ Resumes(f) /\ deferred' \in {deferred, Append(deferred, r)}
         \/ Aborts(f) /\ deferred' = deferred /\ lost'
      /\ done' = done \/ (Delivered(r) /\ row' = [row EXCEPT ![r] = "delivered"])
  BY <1>3 DEF Journal
<1>5. /\ Queues' /\ ~Sending(r)' /\ (Held(r)' <=> deferred' # deferred)
      /\ \A x \in Runs : x # r => /\ (Sending(x)' <=> Sending(x)) /\ (Held(x)' => Held(x))
                                  /\ ~lost' => (Held(x)' <=> Held(x))
      /\ ~lost' => ~Resting'
  BY <1>1, <1>4, ResumesHands
<1>6. TimerSet'
  BY <1>5 DEF TimerSet
<1>7. Append(deferred, r) # deferred
  BY <1>2, AppendHas DEF HandInv, Queues, Held
<1>8. /\ row'[r] = "deferred" <=> deferred' # deferred
      /\ row' = [row EXCEPT ![r] = "delivered"] => row'[r] = "delivered"
  BY <1>2, <1>4, <1>7, RowTyped
<1>9. \A v \in {"delivered", "uncertain", "deferred"} : v \in Final \cup {"deferred"}
  BY DEF Final
<1>10. \/ row' = row /\ order' = order /\ lost' = TRUE
       \/ \E v \in Final \cup {"deferred"} :
            row' = [row EXCEPT ![r] = v] /\ order' = Inserted(<<r>>) /\ lost' = lost
  BY <1>4, <1>9
<1>11. told' = [told EXCEPT ![r] = told[r]]
  BY <1>1 DEF HubInv, Typed
<1>12. Failed(r) => told[r] = "failed"
  BY <1>2 DEF Failed
<1>13. Held(r)' <=> row'[r] = "deferred"
  BY <1>5, <1>8
<1>14. done' = done \/ (Delivered(r) /\ row'[r] = "delivered")
  BY <1>4, <1>8
<1>15. /\ \A x \in Runs : x # r => /\ (x \in direct' <=> x \in direct) /\ (Sending(x)' <=> Sending(x))
                                   /\ (Held(x)' => Held(x)) /\ (~lost' => (Held(x)' <=> Held(x)))
       /\ ~lost' /\ Resting' => Resting /\ told[r] # "pending"
  BY <1>1, <1>5
<1> QED BY <1>1, <1>2, <1>5, <1>6, <1>10, <1>11, <1>12, <1>13, <1>14, <1>15, AnswerKeeps

-----------------------------------------------------------------------------
(* The delivery of a result, and the timer.                                *)

\* The results of the task that wait, and the others: r is new to them.
LEMMA NewHas ==
  ASSUME HubInv, HandInv, NEW r \in Runs, told[r] = "new"
  PROVE  /\ row[r] = "none" /\ ~Held(r) /\ ~Sending(r) /\ ~Failed(r) /\ Fit(r)
         /\ Older(r) \in Seq(Runs) /\ OneToOne(Older(r))
         /\ \A x \in Runs : Contains(Older(r), x) <=> Contains(deferred, x) /\ KeyOf[x] = KeyOf[r]
         /\ Others(r) \in Seq(Runs) /\ OneToOne(Others(r))
         /\ \A x \in Runs : Contains(Others(r), x) <=> Contains(deferred, x) /\ KeyOf[x] # KeyOf[r]
         /\ ~Contains(deferred, r)
<1>1. Fit(r) /\ Queues
  BY DEF HandInv
<1>2. row[r] = "none" /\ ~Held(r) /\ ~Sending(r) /\ ~Failed(r) /\ ~Contains(deferred, r)
  BY <1>1 DEF Fit, Failed, Held
<1> DEFINE mine == Keep(deferred, OfTask(KeyOf[r]))
<1>3. /\ mine \in Seq(Runs) /\ OneToOne(mine)
      /\ \A x : Contains(mine, x) <=> Contains(deferred, x) /\ x \in OfTask(KeyOf[r])
  BY <1>1, KeepHas DEF Queues
<1> HIDE DEF mine
<1>4. /\ Reverse(mine) \in Seq(Runs) /\ OneToOne(Reverse(mine))
      /\ \A x : Contains(Reverse(mine), x) <=> Contains(mine, x)
  BY <1>3, ReverseHas
<1>5. Older(r) = Reverse(mine)
  BY DEF Older, mine
<1>6. /\ Others(r) \in Seq(Runs) /\ OneToOne(Others(r))
      /\ \A x : Contains(Others(r), x) <=> Contains(deferred, x) /\ x \in Runs \ OfTask(KeyOf[r])
  BY <1>1, KeepHas DEF Queues, Others
<1>7. \A x \in Runs : x \in OfTask(KeyOf[r]) <=> KeyOf[x] = KeyOf[r]
  BY DEF OfTask
<1> QED BY <1>1, <1>2, <1>3, <1>4, <1>5, <1>6, <1>7

\* What leaves the backlog is in hand nowhere, the rest stays where it was.
LEMMA BacklogHas ==
  ASSUME HandInv, flush' = flush, deferred' \in Seq(Runs), OneToOne(deferred'), NEW R \in SUBSET Runs,
         \A x \in R : ~Held(x),
         \A x \in Runs \ R : Contains(deferred', x) => Contains(deferred, x)
  PROVE  /\ Queues' /\ (Resting' <=> Resting)
         /\ \A x \in Runs \ R : /\ Held(x)' => Held(x)
                                /\ Contains(deferred, x) => Held(x) /\ (Held(x)' <=> Contains(deferred', x))
                                /\ ~Contains(deferred, x) => (Held(x)' <=> Held(x))
         /\ \A x \in R : Held(x)' <=> Contains(deferred', x)
BY DEF HandInv, Queues, Held, Resting

\* supersedeDeferred throws.
LEMMA DeliverThrowsHands ==
  ASSUME HubInv, HandInv, NEW r \in Runs, DeliverThrows(r)
  PROVE  HandInv'
<1>1. /\ told[r] = "new" /\ lost' = TRUE /\ latest' = latest /\ done' = done /\ direct' = direct
      /\ flush' = flush
  BY DEF DeliverThrows, Asks
<1>2. /\ row[r] = "none" /\ ~Held(r) /\ ~Sending(r) /\ ~Failed(r) /\ Fit(r)
      /\ Older(r) \in Seq(Runs) /\ OneToOne(Older(r))
      /\ \A x \in Runs : Contains(Older(r), x) <=> Contains(deferred, x) /\ KeyOf[x] = KeyOf[r]
      /\ ~Contains(deferred, r)
  BY <1>1, NewHas
<1>3. PICK i \in 1..Len(Older(r)) :
        /\ row' = [x \in Runs |-> IF Contains(SubSeq(Older(r), 1, i - 1), x) THEN "superseded" ELSE row[x]]
        /\ order' = Inserted(SubSeq(Older(r), 1, i - 1))
        /\ deferred' = Keep(deferred, {x \in Runs : ~Contains(SubSeq(Older(r), 1, i), x)})
        /\ told' = [(IF i = 1 THEN told ELSE Synced(row', told)) EXCEPT ![r] = "failed"]
  <2>1. DOMAIN Older(r) = 1..Len(Older(r))
    BY <1>2
  <2> QED BY <2>1 DEF DeliverThrows
<1> DEFINE written == SubSeq(Older(r), 1, i - 1)
           out == SubSeq(Older(r), 1, i)
<1>4. /\ written \in Seq(Runs) /\ OneToOne(written)
      /\ \A x : Contains(written, x) => Contains(out, x)
      /\ \A x : Contains(out, x) => Contains(Older(r), x)
  BY <1>2, PrefixHas
<1>5. i = 1 => \A x : ~Contains(written, x)
  BY DEF Contains
<1>6. /\ row' = [x \in Runs |-> IF Contains(written, x) THEN "superseded" ELSE row[x]]
      /\ order' = Inserted(written)
      /\ deferred' = Keep(deferred, {x \in Runs : ~Contains(out, x)})
      /\ told' = [(IF i = 1 THEN told ELSE Synced(row', told)) EXCEPT ![r] = "failed"]
  BY <1>3
<1> HIDE DEF written, out
<1>7. \A x \in Runs : Contains(out, x) => Contains(deferred, x) /\ x # r
  BY <1>2, <1>4
<1>8. /\ deferred' \in Seq(Runs) /\ OneToOne(deferred')
      /\ \A x : Contains(deferred', x) <=> Contains(deferred, x) /\ x \in {y \in Runs : ~Contains(out, y)}
  BY <1>6, KeepHas DEF HandInv, Queues
<1>9. /\ row' \in [Runs -> Statuses] /\ row'[r] = row[r]
      /\ \A x \in Runs : row'[x] = IF Contains(written, x) THEN "superseded" ELSE row[x]
  <2>1. "superseded" \in Statuses
    BY DEF Statuses, Final
  <2> QED BY <1>4, <1>6, <1>7, <2>1, RowTyped
<1>10. /\ Queues' /\ (Resting' <=> Resting)
       /\ \A x \in Runs \ {r} : /\ Held(x)' => Held(x)
                                /\ Contains(deferred, x) => Held(x) /\ (Held(x)' <=> Contains(deferred', x))
       /\ \A x \in {r} : Held(x)' <=> Contains(deferred', x)
  <2>1. {r} \in SUBSET Runs /\ \A x \in {r} : ~Held(x)
    BY <1>2
  <2>2. \A x \in Runs \ {r} : Contains(deferred', x) => Contains(deferred, x)
    BY <1>8
  <2> QED BY <1>1, <1>8, <2>1, <2>2, BacklogHas
<1>11. \A x \in Runs \ {r} : Heard(x)
  <2> SUFFICES ASSUME NEW x \in Runs \ {r} PROVE Heard(x)
    OBVIOUS
  <2> DEFINE said == IF i = 1 THEN told ELSE Synced(row', told)
  <2>1. said \in {told, Synced(row', told)} /\ told' = [said EXCEPT ![r] = "failed"]
    BY <1>6
  <2>2. CASE i = 1
    <3>1. row'[x] = row[x] /\ told' = [told EXCEPT ![r] = "failed"]
      BY <1>5, <1>6, <1>9, <2>2
    <3> QED BY <3>1 DEF Heard, HubInv, Typed
  <2>3. CASE i # 1
    <3>1. told' = [Synced(row', told) EXCEPT ![r] = "failed"]
      BY <1>6, <2>3
    <3>2. told'[x] = Synced(row', told)[x]
      BY <3>1 DEF Synced
    <3> QED BY <1>9, <3>2, SyncedIs DEF Heard
  <2> QED BY <2>2, <2>3
<1>12. "superseded" \in Final
  BY DEF Final
<1>13. \A x \in Runs \ {r} : Sending(x)' <=> Sending(x)
  BY <1>1, SameFlush
<1>14. \A x \in Runs \ {r} : Aside(x)
  BY <1>1, <1>4, <1>7, <1>8, <1>9, <1>10, <1>11, <1>12, <1>13 DEF Aside
<1>15. told'[r] = "failed"
  BY <1>6 DEF HubInv, Typed, Synced
<1>16. Fit(r)' /\ row[r] \notin Final /\ (Failed(r) => Fails(r))
  <2>1. ~Held(r)' /\ ~Sending(r)'
    BY <1>1, <1>2, <1>8, <1>10, SameFlush
  <2> QED BY <1>1, <1>2, <1>9, <1>15, <2>1, KindsOfStatus DEF Fit, Sending
<1>17. PICK new : Grows(new)
  BY <1>4, <1>6, <1>9, InsertedGrows
<1>18. latest' \in [Keys -> Runs \cup {None}] /\ done' \in [Keys -> BOOLEAN]
  BY <1>1 DEF HandInv, DoneIs
<1>19. \A x \in {r} : Fails(x)
  BY <1>15 DEF Fails
<1>20. TimerSet'
  BY <1>1 DEF TimerSet
<1>21. {r} \in SUBSET Runs /\ \A x \in {r} : Fit(x)' /\ row[x] \notin Final /\ (Failed(x) => Fails(x))
  BY <1>16
<1> QED BY <1>1, <1>9, <1>10, <1>14, <1>17, <1>18, <1>19, <1>20, <1>21, StepKeeps

\* The target is out of reach: the result joins the backlog.
LEMMA DeferHands ==
  ASSUME HubInv, HandInv, NEW r \in Runs, Defer(r)
  PROVE  HandInv'
<1> DEFINE grown == Append(Others(r), r)
           dropped == IF Len(grown) > DeferredMax THEN <<Head(grown)>> ELSE << >>
<1>1. /\ told[r] = "new" /\ direct' = direct /\ flush' = flush
  BY DEF Defer, Asks
<1>2. PICK throws \in {"nothing", "overflow", "intent"} :
        LET settled == Older(r) \o (IF throws = "overflow" THEN << >> ELSE dropped)
        IN  /\ throws = "overflow" => dropped # << >>
            /\ deferred' = IF dropped = << >> THEN grown ELSE Tail(grown)
            /\ armed' = (armed \/ throws # "overflow")
            /\ row' = [x \in Runs |-> IF x = r THEN IF throws = "nothing" THEN "deferred" ELSE row[r]
                                     ELSE IF Contains(Older(r), x) THEN "superseded"
                                     ELSE IF Contains(settled, x) THEN "failed" ELSE row[x]]
            /\ order' = Inserted(IF throws = "nothing" THEN Append(settled, r) ELSE settled)
            /\ told' = [(IF settled = << >> THEN told ELSE Synced(row', told))
                          EXCEPT ![r] = IF throws = "nothing" THEN "pending" ELSE "failed"]
            /\ IF throws = "nothing"
               THEN /\ latest' = [latest EXCEPT ![KeyOf[r]] = r] /\ done' = [done EXCEPT ![KeyOf[r]] = FALSE]
                    /\ lost' = lost
               ELSE lost' = TRUE /\ latest' = latest /\ done' = done
  BY DEF Defer
<1> DEFINE settled == Older(r) \o (IF throws = "overflow" THEN << >> ELSE dropped)
           v == IF throws = "nothing" THEN "pending" ELSE "failed"
           runs == IF throws = "nothing" THEN Append(settled, r) ELSE settled
<1>3. /\ throws = "overflow" => dropped # << >>
      /\ deferred' = IF dropped = << >> THEN grown ELSE Tail(grown)
      /\ armed' = (armed \/ throws # "overflow")
      /\ row' = [x \in Runs |-> IF x = r THEN IF throws = "nothing" THEN "deferred" ELSE row[r]
                               ELSE IF Contains(Older(r), x) THEN "superseded"
                               ELSE IF Contains(settled, x) THEN "failed" ELSE row[x]]
      /\ order' = Inserted(runs)
      /\ told' = [(IF settled = << >> THEN told ELSE Synced(row', told)) EXCEPT ![r] = v]
  BY <1>2
<1>4. /\ throws = "nothing" => /\ latest' = [latest EXCEPT ![KeyOf[r]] = r]
                               /\ done' = [done EXCEPT ![KeyOf[r]] = FALSE] /\ lost' = lost
      /\ throws # "nothing" => lost' = TRUE /\ latest' = latest /\ done' = done
  BY <1>2
<1>5. /\ row[r] = "none" /\ ~Held(r) /\ ~Sending(r) /\ ~Failed(r) /\ Fit(r)
      /\ Older(r) \in Seq(Runs) /\ OneToOne(Older(r))
      /\ \A x \in Runs : Contains(Older(r), x) <=> Contains(deferred, x) /\ KeyOf[x] = KeyOf[r]
      /\ Others(r) \in Seq(Runs) /\ OneToOne(Others(r))
      /\ \A x \in Runs : Contains(Others(r), x) <=> Contains(deferred, x) /\ KeyOf[x] # KeyOf[r]
      /\ ~Contains(deferred, r)
  BY <1>1, NewHas
<1>6. /\ grown \in Seq(Runs) /\ OneToOne(grown) /\ Len(grown) = Len(Others(r)) + 1 /\ grown # << >>
      /\ \A x : Contains(grown, x) <=> Contains(Others(r), x) \/ x = r
  <2>1. ~Contains(Others(r), r)
    BY <1>5
  <2>2. grown \in Seq(Runs) /\ OneToOne(grown) /\ \A x : Contains(grown, x) <=> Contains(Others(r), x) \/ x = r
    BY <1>5, <2>1, AppendHas
  <2>3. Len(grown) = Len(Others(r)) + 1 /\ grown # << >>
    BY <1>5, AppendProperties
  <2> QED BY <2>2, <2>3
<1>7. /\ Head(grown) \in Runs /\ Tail(grown) \in Seq(Runs) /\ OneToOne(Tail(grown))
      /\ \A x : Contains(grown, x) <=> x = Head(grown) \/ Contains(Tail(grown), x)
      /\ ~Contains(Tail(grown), Head(grown))
  BY <1>6, TailHas
<1>8. dropped # << >> => dropped = <<Head(grown)>> /\ Contains(Others(r), Head(grown)) /\ Head(grown) # r
  <2> SUFFICES ASSUME dropped # << >> PROVE Contains(Others(r), Head(grown)) /\ Head(grown) # r
    OBVIOUS
  <2>1. Len(Others(r)) \in Nat \ {0} /\ DeferredMax >= 1
    BY <1>5, <1>6, DeliveryAssumption, LenProperties
  <2>2. Head(grown) = Others(r)[1] /\ 1 \in 1..Len(Others(r))
    BY <1>5, <1>6, <2>1, AppendProperties, HeadTailProperties
  <2>3. Contains(Others(r), Head(grown))
    BY <2>2 DEF Contains
  <2> QED BY <1>5, <2>3
<1>9. dropped = << >> \/ dropped = <<Head(grown)>>
  OBVIOUS
<1>10. /\ settled \in Seq(Runs) /\ OneToOne(settled) /\ ~Contains(settled, r)
       /\ \A x \in Runs : Contains(settled, x) <=>
            Contains(Older(r), x) \/ (throws # "overflow" /\ dropped # << >> /\ x = Head(grown))
  <2> DEFINE d == IF throws = "overflow" THEN << >> ELSE dropped
  <2>1. /\ d \in Seq(Runs) /\ OneToOne(d)
        /\ \A x : Contains(d, x) <=> throws # "overflow" /\ dropped # << >> /\ x = Head(grown)
    BY <1>7, <1>9, OneHas
  <2>2. \A x : Contains(Older(r), x) => ~Contains(d, x)
    <3>1. \A x : Contains(Older(r), x) => x \in Runs
      BY <1>5, ElementOfSeq DEF Contains
    <3> QED BY <1>5, <1>7, <1>8, <2>1, <3>1
  <2>3. settled = Older(r) \o d
    OBVIOUS
  <2> HIDE DEF d, settled
  <2>4. /\ settled \in Seq(Runs) /\ OneToOne(settled)
        /\ \A x : Contains(settled, x) <=> Contains(Older(r), x) \/ Contains(d, x)
    BY <1>5, <2>1, <2>2, <2>3, ConcatHas
  <2> QED BY <1>5, <1>8, <2>1, <2>4
<1> HIDE DEF dropped, settled, grown
<1>11. /\ deferred' \in Seq(Runs) /\ OneToOne(deferred')
       /\ \A x \in Runs : Contains(deferred', x) <=>
            x = r \/ (Contains(Others(r), x) /\ (dropped # << >> => x # Head(grown)))
  BY <1>3, <1>6, <1>7, <1>8
<1>12. /\ row' \in [Runs -> Statuses]
       /\ row'[r] = IF throws = "nothing" THEN "deferred" ELSE "none"
       /\ \A x \in Runs \ {r} : /\ Contains(Older(r), x) => row'[x] = "superseded"
                                /\ ~Contains(Older(r), x) /\ Contains(settled, x) => row'[x] = "failed"
                                /\ ~Contains(Older(r), x) /\ ~Contains(settled, x) => row'[x] = row[x]
  <2>1. {"superseded", "failed", "deferred"} \subseteq Statuses
    BY DEF Statuses, Final
  <2>2. \A x \in Runs : row'[x] = IF x = r THEN IF throws = "nothing" THEN "deferred" ELSE row[r]
                                  ELSE IF Contains(Older(r), x) THEN "superseded"
                                  ELSE IF Contains(settled, x) THEN "failed" ELSE row[x]
    BY <1>3
  <2>3. row' = [x \in Runs |-> row'[x]]
    BY <1>3
  <2>4. \A x \in Runs : row'[x] \in Statuses
    BY <2>1, <2>2, RowTyped
  <2> QED BY <1>5, <2>2, <2>3, <2>4
<1>13. /\ Queues' /\ (Resting' <=> Resting)
       /\ \A x \in Runs \ {r} : /\ Held(x)' => Held(x)
                                /\ Contains(deferred, x) => Held(x) /\ (Held(x)' <=> Contains(deferred', x))
                                /\ ~Contains(deferred, x) => (Held(x)' <=> Held(x))
       /\ \A x \in {r} : Held(x)' <=> Contains(deferred', x)
  <2>1. {r} \in SUBSET Runs /\ \A x \in {r} : ~Held(x)
    BY <1>5
  <2>2. \A x \in Runs \ {r} : Contains(deferred', x) => Contains(deferred, x)
    BY <1>5, <1>11
  <2> QED BY <1>1, <1>11, <2>1, <2>2, BacklogHas
<1>14. \A x \in Runs \ {r} : Heard(x)
  <2> SUFFICES ASSUME NEW x \in Runs \ {r} PROVE Heard(x)
    OBVIOUS
  <2> DEFINE said == IF settled = << >> THEN told ELSE Synced(row', told)
  <2>1. said \in {told, Synced(row', told)} /\ told' = [said EXCEPT ![r] = v]
    BY <1>3
  <2>2. settled = << >> => row'[x] = row[x]
    <3>1. settled = << >> => ~Contains(settled, x)
      BY <1>10, EmptyHas
    <3> QED BY <1>10, <1>12, <3>1
  <2>3. CASE settled = << >>
    <3>1. told' = [told EXCEPT ![r] = v]
      BY <1>3, <2>3
    <3> QED BY <2>2, <2>3, <3>1 DEF Heard, HubInv, Typed
  <2>4. CASE settled # << >>
    <3>1. told' = [Synced(row', told) EXCEPT ![r] = v]
      BY <1>3, <2>4
    <3>2. told'[x] = Synced(row', told)[x]
      BY <3>1 DEF Synced
    <3> QED BY <1>12, <3>2, SyncedIs DEF Heard
  <2> QED BY <2>3, <2>4
<1>15. told'[r] = v
  BY <1>3 DEF HubInv, Typed, Synced
<1>16. \A x \in Runs \ {r} : (x \in direct' <=> x \in direct) /\ (Sending(x)' <=> Sending(x))
  BY <1>1, SameFlush
<1>17. {"superseded", "failed"} \subseteq Final
  BY DEF Final
<1>18. \A x \in Runs \ {r} : row'[x] # row[x] =>
         Contains(deferred, x) /\ ~Contains(deferred', x) /\ row'[x] \in Final
  BY <1>5, <1>8, <1>10, <1>11, <1>12, <1>17
<1>19. \A x \in Runs \ {r} : ~lost' /\ Held(x) /\ row'[x] = "deferred" => Held(x)'
  <2> SUFFICES ASSUME NEW x \in Runs \ {r}, ~lost', Held(x), row'[x] = "deferred" PROVE Held(x)'
    OBVIOUS
  <2>1. CASE ~Contains(deferred, x)
    BY <1>13, <2>1
  <2>2. CASE Contains(deferred, x)
    <3>1. ~Contains(Older(r), x) /\ ~Contains(settled, x)
      BY <1>12
    <3>2. throws = "nothing"
      BY <1>4
    <3>3. Contains(deferred', x)
      BY <1>5, <1>10, <1>11, <2>2, <3>1, <3>2
    <3> QED BY <1>13, <2>2, <3>3
  <2> QED BY <2>1, <2>2
<1>20. \A x \in Runs \ {r} : Aside(x)
  BY <1>13, <1>14, <1>16, <1>18, <1>19 DEF Aside
<1>21. Fit(r)' /\ row[r] \notin Final /\ (Failed(r) => Fails(r))
  <2>1. Held(r)' /\ ~Sending(r)'
    BY <1>1, <1>5, <1>11, <1>13, SameFlush
  <2> QED BY <1>1, <1>4, <1>5, <1>12, <1>15, <2>1, KindsOfStatus DEF Fit, Sending
<1>22. /\ runs \in Seq(Runs) /\ OneToOne(runs)
       /\ \A x : Contains(runs, x) <=> Contains(settled, x) \/ (throws = "nothing" /\ x = r)
  BY <1>10, AppendHas
<1> HIDE DEF runs, v
<1>23. Grows(Keep(runs, {x \in Runs : row[x] = "none"}))
  <2>1. \A x \in Runs : /\ row[x] = "none" => (Contains(runs, x) <=> row'[x] # "none")
                        /\ row[x] # "none" => row'[x] # "none"
    BY <1>5, <1>10, <1>12, <1>22
  <2> QED BY <1>3, <1>22, <2>1, InsertedGrows
<1> DEFINE new == Keep(runs, {x \in Runs : row[x] = "none"})
<1>24. latest' \in [Keys -> Runs \cup {None}] /\ done' \in [Keys -> BOOLEAN]
  BY <1>4, DeliveryAssumption DEF HandInv, DoneIs
<1>25. TimerSet'
  BY <1>3, <1>4 DEF TimerSet
<1>26. {r} \in SUBSET Runs /\ \A x \in {r} : Fit(x)' /\ row[x] \notin Final /\ (Failed(x) => Fails(x))
  BY <1>21
<1>27. ASSUME NEW k \in Keys
       PROVE  \/ NewestOf(k)'
              \/ latest'[k] = latest[k] /\ \A x \in {r} : Contains(new, x) /\ KeyOf[x] = k => Fails(x)
  <2>1. CASE throws # "nothing"
    BY <1>4, <1>12, <1>23, <2>1 DEF Grows
  <2>2. CASE throws = "nothing" /\ k = KeyOf[r]
    <3>1. latest'[k] = r
      BY <1>4, <2>2 DEF HandInv, DoneIs
    <3>2. Grows(Keep(Append(settled, r), {x \in Runs : row[x] = "none"}))
      BY <1>23, <2>2 DEF runs
    <3> QED BY <1>5, <1>10, <3>1, <3>2, NewestTakes DEF HandInv
  <2>3. CASE throws = "nothing" /\ k # KeyOf[r]
    BY <1>4, <2>3 DEF HandInv, DoneIs
  <2> QED BY <2>1, <2>2, <2>3
<1>28. \A k \in Keys : done'[k] => done[k] /\ latest'[k] = latest[k]
  BY <1>4 DEF HandInv, DoneIs
<1>29. lost => lost'
  BY <1>4
<1> QED BY <1>12, <1>13, <1>20, <1>23, <1>24, <1>25, <1>26, <1>27, <1>28, <1>29, StepKeeps

\* The target can be reached: the result is handed to the driver.
LEMMA SendHands ==
  ASSUME HubInv, HandInv, NEW r \in Runs, Send(r)
  PROVE  HandInv'
<1>1. told[r] = "new" /\ flush' = flush /\ armed' = armed /\ deferred' = Others(r)
  BY DEF Send, Asks
<1>2. PICK n \in 0..2 :
       LET said == IF Older(r) = << >> THEN told ELSE Synced(row', told)
       IN  /\ lost' = (lost \/ n = 2)
           /\ row' = [x \in Runs |-> IF x = r THEN CASE n = 0 -> "delivering" [] n = 1 -> "failed" [] n = 2 -> row[r]
                                    ELSE IF Contains(Older(r), x) THEN "superseded" ELSE row[x]]
           /\ order' = Inserted(IF n = 2 THEN Older(r) ELSE Append(Older(r), r))
           /\ told' = [said EXCEPT ![r] = CASE n = 0 -> "running" [] n = 1 -> "degraded" [] n = 2 -> "failed"]
           /\ IF n = 0
              THEN /\ latest' = [latest EXCEPT ![KeyOf[r]] = r] /\ done' = [done EXCEPT ![KeyOf[r]] = FALSE]
                   /\ direct' = direct \cup {r}
              ELSE UNCHANGED <<latest, done, direct>>
  BY DEF Send
<1> DEFINE v == CASE n = 0 -> "running" [] n = 1 -> "degraded" [] n = 2 -> "failed"
           s == CASE n = 0 -> "delivering" [] n = 1 -> "failed" [] n = 2 -> row[r]
           runs == IF n = 2 THEN Older(r) ELSE Append(Older(r), r)
<1>3. /\ lost' = (lost \/ n = 2)
      /\ row' = [x \in Runs |-> IF x = r THEN s ELSE IF Contains(Older(r), x) THEN "superseded" ELSE row[x]]
      /\ order' = Inserted(runs)
      /\ told' = [(IF Older(r) = << >> THEN told ELSE Synced(row', told)) EXCEPT ![r] = v]
  BY <1>2
<1>4. /\ n = 0 => /\ latest' = [latest EXCEPT ![KeyOf[r]] = r] /\ done' = [done EXCEPT ![KeyOf[r]] = FALSE]
                  /\ direct' = direct \cup {r}
      /\ n # 0 => latest' = latest /\ done' = done /\ direct' = direct
  BY <1>2
<1>5. /\ row[r] = "none" /\ ~Held(r) /\ ~Sending(r) /\ ~Failed(r) /\ Fit(r)
      /\ Older(r) \in Seq(Runs) /\ OneToOne(Older(r))
      /\ \A x \in Runs : Contains(Older(r), x) <=> Contains(deferred, x) /\ KeyOf[x] = KeyOf[r]
      /\ Others(r) \in Seq(Runs) /\ OneToOne(Others(r))
      /\ \A x \in Runs : Contains(Others(r), x) <=> Contains(deferred, x) /\ KeyOf[x] # KeyOf[r]
      /\ ~Contains(deferred, r)
  BY <1>1, NewHas
<1>6. /\ n = 0 => s = "delivering" /\ v = "running"
      /\ n = 1 => s = "failed" /\ v = "degraded"
      /\ n = 2 => s = "none" /\ v = "failed"
      /\ n = 0 \/ n = 1 \/ n = 2
  <2>1. n = 0 => s = "delivering" /\ v = "running"
    OBVIOUS
  <2>2. n = 1 => s = "failed" /\ v = "degraded"
    OBVIOUS
  <2>3. n = 2 => s = "none" /\ v = "failed"
    BY <1>5
  <2> QED BY <2>1, <2>2, <2>3
<1>7. /\ runs \in Seq(Runs) /\ OneToOne(runs)
      /\ \A x \in Runs : Contains(runs, x) <=> Contains(Older(r), x) \/ (n # 2 /\ x = r)
  <2>1. ~Contains(Older(r), r)
    BY <1>5
  <2>2. /\ Append(Older(r), r) \in Seq(Runs) /\ OneToOne(Append(Older(r), r))
        /\ \A x : Contains(Append(Older(r), r), x) <=> Contains(Older(r), x) \/ x = r
    BY <1>5, <2>1, AppendHas
  <2> QED BY <1>5, <2>2
<1> HIDE DEF s, v
<1>8. /\ row' \in [Runs -> Statuses] /\ row'[r] = s
      /\ \A x \in Runs \ {r} : /\ Contains(Older(r), x) => row'[x] = "superseded"
                               /\ ~Contains(Older(r), x) => row'[x] = row[x]
  <2>1. {"superseded", "failed", "delivering", "none"} \subseteq Statuses
    BY DEF Statuses, Final
  <2> QED BY <1>3, <1>6, <2>1, RowTyped
<1>9. /\ Queues' /\ (Resting' <=> Resting)
      /\ \A x \in Runs \ {r} : /\ Held(x)' => Held(x)
                               /\ Contains(deferred, x) => Held(x) /\ (Held(x)' <=> Contains(deferred', x))
                               /\ ~Contains(deferred, x) => (Held(x)' <=> Held(x))
      /\ \A x \in {r} : Held(x)' <=> Contains(deferred', x)
  <2>1. {r} \in SUBSET Runs /\ \A x \in {r} : ~Held(x)
    BY <1>5
  <2>2. \A x \in Runs \ {r} : Contains(deferred', x) => Contains(deferred, x)
    BY <1>1, <1>5
  <2> QED BY <1>1, <1>5, <2>1, <2>2, BacklogHas
<1>10. \A x \in Runs \ {r} : Heard(x)
  <2> SUFFICES ASSUME NEW x \in Runs \ {r} PROVE Heard(x)
    OBVIOUS
  <2>1. CASE Older(r) = << >>
    <3>1. told' = [told EXCEPT ![r] = v]
      BY <1>3, <2>1
    <3>2. row'[x] = row[x]
      BY <1>5, <1>8, <2>1, EmptyHas
    <3> QED BY <3>1, <3>2 DEF Heard, HubInv, Typed
  <2>2. CASE Older(r) # << >>
    <3>1. told' = [Synced(row', told) EXCEPT ![r] = v]
      BY <1>3, <2>2
    <3>2. told'[x] = Synced(row', told)[x]
      BY <3>1 DEF Synced
    <3> QED BY <1>8, <3>2, SyncedIs DEF Heard
  <2> QED BY <2>1, <2>2
<1>11. told'[r] = v
  BY <1>3 DEF HubInv, Typed, Synced
<1>12. \A x \in Runs \ {r} : (x \in direct' <=> x \in direct) /\ (Sending(x)' <=> Sending(x))
  BY <1>1, <1>4 DEF Sending, Awaits
<1>13. "superseded" \in Final
  BY DEF Final
<1>14. \A x \in Runs \ {r} : row'[x] # row[x] =>
         Contains(deferred, x) /\ ~Contains(deferred', x) /\ row'[x] \in Final
  BY <1>1, <1>5, <1>8, <1>13
<1>15. \A x \in Runs \ {r} : ~lost' /\ Held(x) /\ row'[x] = "deferred" => Held(x)'
  BY <1>1, <1>5, <1>8, <1>9
<1>16. \A x \in Runs \ {r} : Aside(x)
  BY <1>9, <1>10, <1>12, <1>14, <1>15 DEF Aside
<1>17. Fit(r)' /\ row[r] \notin Final /\ (Failed(r) => Fails(r))
  <2>1. ~Held(r)' /\ (Sending(r)' <=> n = 0) /\ (r \in direct' => n = 0)
    BY <1>1, <1>4, <1>5, <1>9 DEF Sending, Awaits
  <2> QED BY <1>3, <1>5, <1>6, <1>8, <1>11, <2>1, KindsOfStatus DEF Fit
<1> HIDE DEF runs
<1>18. Grows(Keep(runs, {x \in Runs : row[x] = "none"}))
  <2>1. \A x \in Runs : /\ row[x] = "none" => (Contains(runs, x) <=> row'[x] # "none")
                        /\ row[x] # "none" => row'[x] # "none"
    BY <1>5, <1>6, <1>7, <1>8
  <2> QED BY <1>3, <1>7, <2>1, InsertedGrows
<1> DEFINE new == Keep(runs, {x \in Runs : row[x] = "none"})
<1>19. latest' \in [Keys -> Runs \cup {None}] /\ done' \in [Keys -> BOOLEAN]
  <2>1. latest \in [Keys -> Runs \cup {None}] /\ done \in [Keys -> BOOLEAN] /\ KeyOf[r] \in Keys
    BY DeliveryAssumption DEF HandInv, DoneIs
  <2>2. CASE n = 0
    BY <1>4, <2>1, <2>2
  <2>3. CASE n # 0
    BY <1>4, <2>1, <2>3
  <2> QED BY <2>2, <2>3
<1>20. TimerSet'
  <2>1. deferred' # << >> => deferred # << >>
    BY <1>1, <1>5, EmptyHas DEF HandInv, Queues
  <2> QED BY <1>1, <1>3, <1>9, <2>1 DEF HandInv, TimerSet
<1>21. {r} \in SUBSET Runs /\ \A x \in {r} : Fit(x)' /\ row[x] \notin Final /\ (Failed(x) => Fails(x))
  BY <1>17
<1>22. ASSUME NEW k \in Keys
       PROVE  \/ NewestOf(k)'
              \/ latest'[k] = latest[k] /\ \A x \in {r} : Contains(new, x) /\ KeyOf[x] = k => Fails(x)
  <2>1. CASE n # 0
    BY <1>4, <1>6, <1>8, <1>11, <2>1 DEF Fails
  <2>2. CASE n = 0 /\ k = KeyOf[r]
    <3>1. latest'[k] = r
      BY <1>4, <2>2 DEF HandInv, DoneIs
    <3>2. Grows(Keep(Append(Older(r), r), {x \in Runs : row[x] = "none"}))
      BY <1>18, <2>2 DEF runs
    <3> QED BY <1>5, <3>1, <3>2, NewestTakes DEF HandInv
  <2>3. CASE n = 0 /\ k # KeyOf[r]
    BY <1>4, <2>3 DEF HandInv, DoneIs
  <2> QED BY <2>1, <2>2, <2>3
<1>23. \A k \in Keys : done'[k] => done[k] /\ latest'[k] = latest[k]
  BY <1>4 DEF HandInv, DoneIs
<1>24. lost => lost'
  BY <1>3
<1> QED BY <1>8, <1>9, <1>16, <1>18, <1>19, <1>20, <1>21, <1>22, <1>23, <1>24, StepKeeps

\* The expiry timer.
LEMMA ExpireHands ==
  ASSUME HubInv, HandInv, Expire
  PROVE  HandInv'
<1> DEFINE late == Reverse(Keep(deferred, overdue))
<1>1. PICK kept \in SUBSET Range(late) :
        LET gone == Keep(late, Runs \ kept)
        IN  /\ row' = [x \in Runs |-> IF Contains(gone, x) THEN "expired" ELSE row[x]]
            /\ order' = Inserted(gone)
            /\ deferred' = Keep(deferred, {x \in Runs : ~Contains(gone, x)})
            /\ told' = IF gone = << >> THEN told ELSE Synced(row', told)
  BY DEF Expire
<1> DEFINE gone == Keep(late, Runs \ kept)
<1>2. /\ row' = [x \in Runs |-> IF Contains(gone, x) THEN "expired" ELSE row[x]]
      /\ order' = Inserted(gone)
      /\ deferred' = Keep(deferred, {x \in Runs : ~Contains(gone, x)})
      /\ told' = IF gone = << >> THEN told ELSE Synced(row', told)
  BY <1>1
<1>3. /\ armed' = (deferred' # << >>) /\ lost' = lost /\ latest' = latest /\ done' = done
      /\ direct' = direct /\ flush' = flush
  BY DEF Expire
<1>4. /\ late \in Seq(Runs) /\ OneToOne(late)
      /\ \A x : Contains(late, x) => Contains(deferred, x)
  <2> DEFINE mine == Keep(deferred, overdue)
  <2>1. mine \in Seq(Runs) /\ OneToOne(mine) /\ \A x : Contains(mine, x) <=> Contains(deferred, x) /\ x \in overdue
    BY KeepHas DEF HandInv, Queues
  <2> HIDE DEF mine
  <2>2. /\ Reverse(mine) \in Seq(Runs) /\ OneToOne(Reverse(mine))
        /\ \A x : Contains(Reverse(mine), x) <=> Contains(mine, x)
    BY <2>1, ReverseHas
  <2>3. late = Reverse(mine)
    BY DEF mine
  <2> QED BY <2>1, <2>2, <2>3
<1> HIDE DEF late
<1>5. /\ gone \in Seq(Runs) /\ OneToOne(gone)
      /\ \A x : Contains(gone, x) <=> Contains(late, x) /\ x \in Runs \ kept
  BY <1>4, KeepHas
<1> HIDE DEF gone
<1>6. /\ deferred' \in Seq(Runs) /\ OneToOne(deferred')
      /\ \A x : Contains(deferred', x) <=> Contains(deferred, x) /\ x \in {y \in Runs : ~Contains(gone, y)}
  BY <1>2, KeepHas DEF HandInv, Queues
<1>7. /\ row' \in [Runs -> Statuses]
      /\ \A x \in Runs : row'[x] = IF Contains(gone, x) THEN "expired" ELSE row[x]
  <2>1. "expired" \in Statuses
    BY DEF Statuses, Final
  <2> QED BY <1>2, <2>1, RowTyped
<1>8. /\ Queues' /\ (Resting' <=> Resting)
      /\ \A x \in Runs \ {} : /\ Held(x)' => Held(x)
                              /\ Contains(deferred, x) => Held(x) /\ (Held(x)' <=> Contains(deferred', x))
                              /\ ~Contains(deferred, x) => (Held(x)' <=> Held(x))
  <2>1. {} \in SUBSET Runs /\ \A x \in {} : ~Held(x)
    OBVIOUS
  <2>2. \A x \in Runs \ {} : Contains(deferred', x) => Contains(deferred, x)
    BY <1>6
  <2> QED BY <1>3, <1>6, <2>1, <2>2, BacklogHas
<1>9. \A x \in Runs : Heard(x)
  <2>1. CASE gone = << >>
    BY <1>2, <1>5, <1>7, <2>1, EmptyHas DEF Heard
  <2>2. CASE gone # << >>
    BY <1>2, <1>7, <2>2, SyncedIs DEF Heard
  <2> QED BY <2>1, <2>2
<1>10. "expired" \in Final /\ "expired" # "deferred"
  BY DEF Final
<1>11. \A x \in Runs : row'[x] # row[x] => Held(x) /\ row'[x] \in Final /\ ~Held(x)'
  BY <1>4, <1>5, <1>6, <1>7, <1>8, <1>10
<1>12. \A x \in Runs : Held(x) /\ row'[x] = "deferred" => Held(x)'
  BY <1>6, <1>7, <1>8, <1>10
<1>13. \A x \in Runs : (x \in direct' <=> x \in direct) /\ (Sending(x)' <=> Sending(x))
  BY <1>3, SameFlush
<1>14. \A x \in Runs : Aside(x)
  BY <1>8, <1>9, <1>11, <1>12, <1>13 DEF Aside
<1>15. PICK new : Grows(new)
  <2>1. \A x \in Runs : /\ row[x] = "none" => (Contains(gone, x) <=> row'[x] # "none")
                        /\ row[x] # "none" => row'[x] # "none"
    BY <1>7
  <2> QED BY <1>2, <1>5, <2>1, InsertedGrows
<1>16. TimerSet'
  BY <1>3 DEF TimerSet
<1> QED BY <1>3, <1>7, <1>8, <1>14, <1>15, <1>16, QuietStep

-----------------------------------------------------------------------------
(* The life of the process, and the theorems.                              *)

\* The invariant holds at the start.
LEMMA InitHands == Init => HandInv
<1> SUFFICES ASSUME Init PROVE HandInv
  OBVIOUS
<1>1. /\ row = [r \in Runs |-> "none"] /\ order = << >> /\ deferred = << >>
      /\ latest = [k \in Keys |-> None] /\ done = [k \in Keys |-> FALSE]
      /\ direct = {} /\ flush = [f \in Flushes |-> Idle] /\ told = [r \in Runs |-> "new"]
  BY DEF Init
<1>2. << >> \in Seq(Runs) /\ OneToOne(<< >>) /\ (\A x : ~Contains(<< >>, x)) /\ Len(<< >>) = 0
  BY DEF OneToOne, Contains
<1>3. \A f \in Flushes : flush[f].rest = << >> /\ flush[f].step = "idle"
  BY <1>1 DEF Idle
<1>4. Queues
  BY <1>1, <1>2, <1>3 DEF Queues
<1>5. \A x \in Runs : Fit(x)
  BY <1>1, <1>2, <1>3 DEF Fit, Held, Sending, Awaits
<1>6. Recorded /\ DoneIs /\ TimerSet
  BY <1>1, <1>2 DEF Recorded, DoneIs, TimerSet
<1>7. \A k \in Keys : NewestOf(k)
  BY <1>1, <1>2 DEF NewestOf
<1> QED BY <1>4, <1>5, <1>6, <1>7 DEF HandInv

\* The process starts again: it reads what the journal says.
LEMMA RestartHands ==
  ASSUME HubInv, HandInv, Restart
  PROVE  HandInv'
<1> DEFINE waits == {x \in Runs : row'[x] = "deferred"}
           said == [r \in Runs |-> IF told[r] = "running" THEN "interrupted" ELSE told[r]]
           OfKey(k) == Keep(order, OfTask(k))
<1>1. /\ row' = [r \in Runs |-> Recovered(r)] /\ order' = order /\ deferred' = Keep(order, waits)
      /\ armed' = (deferred' # << >>) /\ direct' = {} /\ flush' = [f \in Flushes |-> Idle]
      /\ lost' = FALSE /\ told' = Synced(row', said)
      /\ latest' = [k \in Keys |-> IF OfKey(k) = << >> THEN None ELSE Last(OfKey(k))]
      /\ done' = [k \in Keys |-> OfKey(k) # << >> /\ row[Last(OfKey(k))] = "delivered"]
  BY DEF Restart
<1>2. /\ row' \in [Runs -> Statuses]
      /\ \A x \in Runs : /\ row'[x] # "delivering" /\ (row'[x] = "none" <=> row[x] = "none")
                         /\ row[x] = "failed" => row'[x] = "failed"
                         /\ row[x] = "delivered" => row'[x] = "delivered"
  BY <1>1, RowTyped DEF Recovered, Statuses, Final
<1>3. Recorded'
  BY <1>1, <1>2 DEF HandInv, Recorded
<1>4. /\ deferred' \in Seq(Runs) /\ OneToOne(deferred')
      /\ \A x : Contains(deferred', x) <=> Contains(order, x) /\ x \in waits
  BY <1>1, KeepHas DEF HandInv, Recorded
<1>5. << >> \in Seq(Runs) /\ OneToOne(<< >>) /\ \A x : ~Contains(<< >>, x)
  BY DEF OneToOne, Contains
<1>6. \A f \in Flushes : flush'[f] = Idle /\ flush'[f].rest = << >> /\ flush'[f].step = "idle"
  BY <1>1 DEF Idle
<1>7. Queues'
  BY <1>4, <1>5, <1>6 DEF Queues
<1>8. \A x \in Runs : (Held(x)' <=> row'[x] = "deferred") /\ ~Sending(x)'
  <2> SUFFICES ASSUME NEW x \in Runs PROVE (Held(x)' <=> row'[x] = "deferred") /\ ~Sending(x)'
    OBVIOUS
  <2>1. Held(x)' <=> Contains(deferred', x)
    BY <1>5, <1>6 DEF Held
  <2>2. row'[x] = "deferred" => Contains(order, x)
    BY <1>2 DEF HandInv, Recorded
  <2>3. ~Sending(x)'
    BY <1>1, <1>6 DEF Sending, Awaits
  <2> QED BY <1>4, <2>1, <2>2, <2>3
<1>9. \A x \in Runs : /\ told'[x] = "new" <=> told[x] = "new"
                      /\ told'[x] = "failed" <=> told[x] = "failed"
                      /\ told'[x] = "pending" => row'[x] = "deferred" \/ (told[x] = "pending" /\ row'[x] = "none")
  <2> SUFFICES ASSUME NEW x \in Runs
               PROVE  /\ told'[x] = "new" <=> told[x] = "new"
                      /\ told'[x] = "failed" <=> told[x] = "failed"
                      /\ told'[x] = "pending" => row'[x] = "deferred" \/ (told[x] = "pending" /\ row'[x] = "none")
    OBVIOUS
  <2>1. said[x] = IF told[x] = "running" THEN "interrupted" ELSE told[x]
    OBVIOUS
  <2> HIDE DEF said
  <2> QED BY <1>1, <1>2, <2>1, SyncedIs
<1>10. \A x \in Runs : Fit(x)'
  <2> SUFFICES ASSUME NEW x \in Runs PROVE Fit(x)'
    OBVIOUS
  <2>1. Fit(x)
    BY DEF HandInv
  <2>2. row'[x] = "deferred" => told'[x] # "new"
    BY <1>2, <1>9, <2>1 DEF Fit
  <2>3. told'[x] = "pending" => row'[x] = "deferred"
    BY <1>2, <1>9, <2>1 DEF Fit
  <2>4. told'[x] = "new" => row'[x] = "none"
    BY <1>2, <1>9, <2>1 DEF Fit
  <2> QED BY <1>2, <1>8, <2>2, <2>3, <2>4 DEF Fit
<1>11. \A k \in Keys :
         /\ OfKey(k) = << >> => \A i \in 1..Len(order) : order[i] \notin OfTask(k)
         /\ OfKey(k) # << >> => \E i \in 1..Len(order) :
              /\ order[i] = Last(OfKey(k)) /\ order[i] \in OfTask(k)
              /\ \A j \in 1..Len(order) : j > i => order[j] \notin OfTask(k)
  BY LastKept DEF HandInv, Recorded
<1>12. \A i \in 1..Len(order) : order[i] \in Runs
  BY ElementOfSeq DEF HandInv, Recorded
<1>13. \A k \in Keys : OfKey(k) # << >> => Last(OfKey(k)) \in Runs
  BY <1>11, <1>12
<1> HIDE DEF OfKey
<1>14. \A k \in Keys : /\ latest'[k] = IF OfKey(k) = << >> THEN None ELSE Last(OfKey(k))
                       /\ done'[k] = (OfKey(k) # << >> /\ row[Last(OfKey(k))] = "delivered")
  BY <1>1
<1>15. DoneIs'
  <2>1. latest' \in [Keys -> Runs \cup {None}] /\ done' \in [Keys -> BOOLEAN]
    BY <1>1, <1>13
  <2>2. "delivered" \in Final
    BY DEF Final
  <2>3. \A k \in Keys : done'[k] => latest'[k] \in Runs /\ row'[latest'[k]] \in Final
    BY <1>2, <1>13, <1>14, <2>2
  <2> QED BY <2>1, <2>3 DEF DoneIs
<1>16. ASSUME NEW k \in Keys PROVE NewestOf(k)'
  <2>1. \A i \in 1..Len(order) : order[i] \in OfTask(k) <=> KeyOf[order[i]] = k
    BY <1>12 DEF OfTask
  <2>2. CASE OfKey(k) = << >>
    <3>1. latest'[k] = None
      BY <1>14, <2>2
    <3> QED BY <1>1, <1>11, <2>1, <2>2, <3>1 DEF NewestOf
  <2>3. CASE OfKey(k) # << >>
    <3>1. latest'[k] # None /\ latest'[k] = Last(OfKey(k))
      BY <1>13, <1>14, <2>3, DeliveryAssumption
    <3>2. PICK i \in 1..Len(order) :
            /\ order[i] = Last(OfKey(k)) /\ order[i] \in OfTask(k)
            /\ \A j \in 1..Len(order) : j > i => order[j] \notin OfTask(k)
      BY <1>11, <2>3
    <3> QED BY <1>1, <2>1, <3>1, <3>2 DEF NewestOf
  <2> QED BY <2>2, <2>3
<1>17. TimerSet'
  BY <1>1 DEF TimerSet
<1> QED BY <1>3, <1>7, <1>10, <1>15, <1>16, <1>17 DEF HandInv

\* Every step keeps the invariant.
LEMMA HandStep == HubInv /\ HandInv /\ [Next]_vars => HandInv'
<1> SUFFICES ASSUME HubInv, HandInv, [Next]_vars PROVE HandInv'
  OBVIOUS
<1>1. CASE UNCHANGED vars \/ Unreach \/ \E r \in Runs : TimePasses(r)
  BY <1>1, NothingMoves DEF vars, journal, memory, Unreach, TimePasses
<1>2. CASE Reach \/ Expire \/ Restart
  BY <1>2, ReachHands, ExpireHands, RestartHands
<1>3. CASE \E r \in Runs : DeliverThrows(r) \/ Defer(r) \/ Send(r) \/ Answered(r)
  BY <1>3, DeliverThrowsHands, DeferHands, SendHands, AnsweredHands
<1>4. CASE \E f \in Flushes : FlushStep(f) \/ \E r \in Runs : FlushAnswered(f, r)
  BY <1>4, FlushHands, FlushAnsweredHands
<1> QED BY <1>1, <1>2, <1>3, <1>4 DEF Next

\* The invariant holds in every state of the program.
LEMMA HandAlways == Spec => []HandInv
BY InitHands, HandStep, HubAlways, PTL DEF Spec

\* Unless a write was lost since the start, an intent that waits in the journal
\* is in the backlog or with a flush, the timer is set while there is a backlog
\* and no flush, and a run that is said to wait has an intent that waits: for
\* any backlog, whatever is superseded, dropped, expired or sent, and after any
\* restart.
THEOREM WaitingIsAgreed == Spec => []WaitingAgrees
<1>1. HandInv => WaitingAgrees
  <2> SUFFICES ASSUME HandInv PROVE WaitingAgrees
    OBVIOUS
  <2>1. \A x \in Runs : Fit(x)
    BY DEF HandInv
  <2>2. BacklogKept
    BY <2>1 DEF HandInv, BacklogKept, TimerSet, Resting, Fit
  <2>3. ToldInTime
    BY <2>1 DEF ToldInTime, Resting, Fit
  <2> QED BY <2>2, <2>3 DEF WaitingAgrees
<1> QED BY <1>1, HandAlways, PTL

\* No result is handed to the driver when a newer one of the same task was
\* accepted and has not failed: neither by the call that brings it, nor by a
\* flush that took it before the newer one came, nor after a restart.
THEOREM NewestAlwaysWins == Spec => NewestWins
<1> DEFINE Wins == \A r \in Runs : sent'[r] > sent[r] =>
             \A i, j \in DOMAIN order' :
               order'[i] = r /\ j > i /\ KeyOf[order'[j]] = KeyOf[r] =>
                 row'[order'[j]] = "failed" \/ told'[order'[j]] = "failed"
<1>1. HubInv /\ HandInv /\ HandInv' /\ [Next]_vars => Wins
  <2> SUFFICES ASSUME HubInv, HandInv, HandInv', [Next]_vars, NEW r \in Runs, sent'[r] > sent[r],
                      NEW i \in DOMAIN order', NEW j \in DOMAIN order',
                      order'[i] = r, j > i, KeyOf[order'[j]] = KeyOf[r]
               PROVE  row'[order'[j]] = "failed" \/ told'[order'[j]] = "failed"
    OBVIOUS
  <2>1. order' \in Seq(Runs) /\ OneToOne(order') /\ \A k \in Keys : NewestOf(k)'
    BY DEF HandInv, Recorded
  <2>2. i \in 1..Len(order') /\ j \in 1..Len(order') /\ KeyOf[r] \in Keys
    BY <2>1, DeliveryAssumption
  <2>3. latest'[KeyOf[r]] \in {None, r}
    <3> DEFINE More == \E x \in Runs : sent' = [sent EXCEPT ![x] = @ + 1] /\ latest'[KeyOf[x]] \in {None, x}
               Less == sent' = sent \/ \E x \in Runs : sent' = [sent EXCEPT ![x] = @ - 1]
    <3>1. CASE \E x \in Runs : Send(x)
      <4>1. PICK x \in Runs : Send(x)
        BY <3>1
      <4>2. sent' = sent \/ (sent' = [sent EXCEPT ![x] = @ + 1] /\ latest' = [latest EXCEPT ![KeyOf[x]] = x])
        BY <4>1 DEF Send
      <4>3. More \/ Less
        BY <4>2, DeliveryAssumption DEF HandInv, DoneIs
      <4> QED BY <4>3 DEF HubInv, Typed
    <3>2. CASE \E x \in Runs : DeliverThrows(x) \/ Defer(x) \/ Answered(x) \/ TimePasses(x)
      <4>1. Less
        BY <3>2 DEF DeliverThrows, Defer, Answered, TimePasses
      <4> QED BY <4>1 DEF HubInv, Typed
    <3>3. CASE \E f \in Flushes, x \in Runs : FlushSends(f, x)
      <4>1. PICK f \in Flushes, x \in Runs : FlushSends(f, x)
        BY <3>3
      <4>2. (sent' = sent \/ sent' = [sent EXCEPT ![x] = @ + 1]) /\ latest' = latest /\ ~Outdated(x)
        <5>1. latest' = latest /\ ~Outdated(x)
          BY <4>1 DEF FlushSends, Current
        <5>2. sent' = sent \/ sent' = [sent EXCEPT ![x] = @ + 1]
          <6>1. PICK n \in 0..2 :
                  CASE n = 0 -> /\ flush' = [flush EXCEPT ![f] = [step |-> "await", rest |-> Tail(@.rest), item |-> x]]
                                /\ sent' = [sent EXCEPT ![x] = @ + 1]
                                /\ UNCHANGED deferred
                    [] n = 1 -> GoesOn(f) /\ deferred' = Append(deferred, x) /\ UNCHANGED sent
                    [] n = 2 -> Aborts(f) /\ UNCHANGED <<deferred, sent>>
            BY <4>1 DEF FlushSends
          <6>2. n = 0 => sent' = [sent EXCEPT ![x] = @ + 1]
            BY <6>1
          <6>3. n = 1 => sent' = sent
            BY <6>1
          <6>4. n = 2 => sent' = sent
            BY <6>1
          <6> QED BY <6>2, <6>3, <6>4
        <5> QED BY <5>1, <5>2
      <4>3. More \/ Less
        BY <4>2 DEF Outdated
      <4> QED BY <4>3 DEF HubInv, Typed
    <3>4. CASE \E f \in Flushes : FlushEnds(f) \/ \E x \in Runs : \/ FlushSettles(f, x) \/ FlushSkips(f, x)
                                                              \/ FlushKeeps(f, x) \/ FlushAnswered(f, x)
      <4>1. Less
        BY <3>4 DEF FlushEnds, FlushSettles, FlushSkips, FlushKeeps, FlushAnswered
      <4> QED BY <4>1 DEF HubInv, Typed
    <3>5. CASE UNCHANGED vars \/ Unreach \/ Reach \/ Expire \/ Restart
      <4>1. sent' = sent
        BY <3>5 DEF vars, Unreach, Reach, Expire, Restart
      <4> QED BY <4>1 DEF HubInv, Typed
    <3> QED BY <3>1, <3>2, <3>3, <3>4, <3>5 DEF Next, FlushStep
  <2>4. CASE latest'[KeyOf[r]] = None
    <3>1. \A x \in 1..Len(order') : KeyOf[order'[x]] = KeyOf[r] => Fails(order'[x])
      BY <2>1, <2>2, <2>4 DEF NewestOf, Failed, Fails
    <3> QED BY <2>2, <3>1 DEF Fails
  <2>5. CASE latest'[KeyOf[r]] = r
    <3>1. r # None
      BY DeliveryAssumption
    <3>2. PICK p \in 1..Len(order') :
            /\ order'[p] = r
            /\ \A x \in 1..Len(order') : x > p /\ KeyOf[order'[x]] = KeyOf[r] => Fails(order'[x])
      BY <2>1, <2>2, <2>5, <3>1 DEF NewestOf, Failed, Fails
    <3>3. p = i
      BY <2>1, <2>2, <3>2 DEF OneToOne
    <3> QED BY <2>2, <3>2, <3>3 DEF Fails
  <2> QED BY <2>3, <2>4, <2>5
<1>2. Spec => [][Wins]_vars
  BY <1>1, HubAlways, HandAlways, PTL DEF Spec
<1> QED BY <1>2 DEF NewestWins
=============================================================================
