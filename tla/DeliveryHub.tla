---------------------------- MODULE DeliveryHub ----------------------------
(***************************************************************************)
(* The results of automation runs on their way to an IM target: the shared *)
(* delivery hub, its journal of intents, its backlog in memory, and what   *)
(* the rows of the runs say (electron/driver/deliveryHub.ts,               *)
(* sqliteDeliveryJournal.ts, butler/butlerDelivery.ts).                    *)
(*                                                                         *)
(* A run is delivered once, under its own id, so that an id names the      *)
(* intent, its journal row and the run. Code between two awaits is not     *)
(* interrupted: while a flush goes through its items (step "loop") no      *)
(* other action is enabled.                                                *)
(***************************************************************************)
EXTENDS Integers, SequencesExt

CONSTANTS
  Runs,         \* runs whose results are delivered: numbers, in the order of their task
  Keys,         \* supersede keys: the tasks
  KeyOf,        \* the task of each run
  DeferredMax,  \* DEFERRED_LIMIT
  MaxFlushes,   \* bound: flushes under way at a time
  MaxFaults,    \* bound: journal writes that throw
  MaxCrashes,   \* bound: restarts of the program
  None          \* no run

ASSUME DeliveryAssumption ==
  /\ Runs \subseteq Nat /\ KeyOf \in [Runs -> Keys] /\ None \notin Runs
  /\ DeferredMax \in Nat \ {0} /\ MaxFlushes \in Nat /\ MaxFaults \in Nat /\ MaxCrashes \in Nat

Flushes == 1..MaxFlushes

VARIABLES
  row,        \* the journal: the status of each intent
  order,      \* its rows in the order of their insertion
  deferred,   \* the backlog in memory
  latest,     \* supersedeState: the last intent accepted for each key,
  done,       \*   and whether it was delivered
  direct,     \* runs whose deliver waits for the answer of the driver
  flush,      \* the calls of flushDeferred
  armed,      \* the expiry timer is set
  reachable,  \* the connection is up
  overdue,    \* runs whose time to live has passed
  told,       \* delivery_status of the run, and how it ended
  sent,       \* what was handed to the driver and not refused by it
  lost,       \* since the start, a step could not write what it had to
  faults, crashes

journal == <<row, order, lost, faults>>
memory  == <<deferred, latest, done, direct, flush, armed>>
vars == <<journal, memory, reachable, overdue, told, sent, crashes>>

Final == {"delivered", "uncertain", "failed", "expired", "superseded"}
Idle == [step |-> "idle", rest |-> << >>, item |-> None]

TypeOK ==
  /\ row \in [Runs -> {"none", "deferred", "delivering"} \cup Final]
  /\ order \in Seq(Runs) /\ deferred \in Seq(Runs)
  /\ latest \in [Keys -> Runs \cup {None}] /\ done \in [Keys -> BOOLEAN]
  /\ direct \subseteq Runs /\ overdue \subseteq Runs
  /\ flush \in [Flushes -> [step : {"idle", "loop", "await"}, rest : Seq(Runs), item : Runs \cup {None}]]
  /\ told \in [Runs -> {"new", "running", "pending", "delivered", "uncertain", "degraded", "failed", "interrupted"}]
  /\ sent \in [Runs -> Nat]
  /\ armed \in BOOLEAN /\ reachable \in BOOLEAN /\ lost \in BOOLEAN
  /\ faults \in 0..MaxFaults /\ crashes \in 0..MaxCrashes

Init ==
  /\ row = [r \in Runs |-> "none"] /\ order = << >>
  /\ deferred = << >> /\ latest = [k \in Keys |-> None] /\ done = [k \in Keys |-> FALSE]
  /\ direct = {} /\ flush = [f \in Flushes |-> Idle] /\ armed = FALSE
  /\ reachable = FALSE /\ overdue = {}
  /\ told = [r \in Runs |-> "new"] /\ sent = [r \in Runs |-> 0]
  /\ lost = FALSE /\ faults = 0 /\ crashes = 0

Free == \A f \in Flushes : flush[f].step # "loop"
-----------------------------------------------------------------------------
(* The journal and the rows of the runs.                                   *)

\* The elements of s that are in S, in their order: SelectSeq as a function of
\* the position, about which more can be proved.
Keep(s, S) ==
  LET kept[i \in 0..Len(s)] ==
        IF i = 0 THEN << >> ELSE IF s[i] \in S THEN Append(kept[i - 1], s[i]) ELSE kept[i - 1]
  IN  kept[Len(s)]

\* The rows are inserted in the order in which they are first written.
Inserted(runs) == order \o Keep(runs, {x \in Runs : row[x] = "none"})

\* The statuses are tried in turn, and n writes throw. If all of them do, the
\* step has written nothing.
Journal(r, statuses, n) ==
  /\ faults + n <= MaxFaults /\ faults' = faults + n
  /\ IF n = Len(statuses) THEN lost' = TRUE /\ UNCHANGED <<row, order>>
     ELSE row' = [row EXCEPT ![r] = statuses[n + 1]] /\ order' = Inserted(<<r>>) /\ UNCHANGED lost

Summary(status) ==
  CASE status \in {"deferred", "delivering"} -> "pending"
    [] status \in {"failed", "expired", "superseded"} -> "degraded"
    [] OTHER -> status

\* syncAutomationTaskRunDeliveryStatuses: runs that completed, and have a row.
Synced(rows, said) ==
  [r \in Runs |-> IF said[r] \in {"pending", "delivered", "uncertain", "degraded"} /\ rows[r] # "none"
                  THEN Summary(rows[r]) ELSE said[r]]

\* The call of the run r returns, or throws, and its row is updated.
Returns(r, said) == told' = [told EXCEPT ![r] = said]

\* setSupersedeOutcomeIfLatest
Delivered(r) == done' = [k \in Keys |-> done[k] \/ (k = KeyOf[r] /\ latest[k] = r)]
-----------------------------------------------------------------------------
(* deliver: the result of a run. Older results of the task leave the       *)
(* backlog in memory, the last first.                                      *)

Asks(r) ==
  Free /\ told[r] = "new" /\ \A x \in Runs : x < r /\ KeyOf[x] = KeyOf[r] => told[x] # "new"

OfTask(k) == {x \in Runs : KeyOf[x] = k}
Older(r) == Reverse(Keep(deferred, OfTask(KeyOf[r])))
Others(r) == Keep(deferred, Runs \ OfTask(KeyOf[r]))

\* supersedeDeferred throws at the one in place i: those before it are
\* superseded, it is out of the backlog, those after it are still there.
DeliverThrows(r) ==
  /\ Asks(r) /\ faults < MaxFaults /\ faults' = faults + 1 /\ lost' = TRUE
  /\ \E i \in DOMAIN Older(r) :
       LET written == SubSeq(Older(r), 1, i - 1)
       IN  /\ row' = [x \in Runs |-> IF Contains(written, x) THEN "superseded" ELSE row[x]]
           /\ order' = Inserted(written)
           /\ deferred' = Keep(deferred, {x \in Runs : ~Contains(SubSeq(Older(r), 1, i), x)})
           /\ told' = [(IF i = 1 THEN told ELSE Synced(row', told)) EXCEPT ![r] = "failed"]
  /\ UNCHANGED <<latest, done, direct, flush, armed, reachable, overdue, sent, crashes>>

\* The target is out of reach. The result joins the backlog in memory; the
\* oldest leaves it if there are too many; the intent is written. Either of
\* the last two writes may throw.
Defer(r) ==
  /\ Asks(r) /\ ~reachable
  /\ LET grown   == Append(Others(r), r)
         dropped == IF Len(grown) > DeferredMax THEN <<Head(grown)>> ELSE << >>
     IN  \E throws \in {"nothing", "overflow", "intent"} :
           LET settled == Older(r) \o (IF throws = "overflow" THEN << >> ELSE dropped)
           IN  /\ throws = "overflow" => dropped # << >>
               /\ deferred' = IF dropped = << >> THEN grown ELSE Tail(grown)
               /\ armed' = (armed \/ throws # "overflow")
               /\ row' = [x \in Runs |-> IF x = r THEN IF throws = "nothing" THEN "deferred" ELSE row[r]
                                        ELSE IF Contains(Older(r), x) THEN "superseded"
                                        ELSE IF Contains(settled, x) THEN "failed" ELSE row[x]]
               /\ order' = Inserted(IF throws = "nothing" THEN Append(settled, r) ELSE settled)
               /\ told' = [(IF settled = << >> THEN told ELSE Synced(row', told))
                             EXCEPT ![r] = IF throws = "nothing" THEN "pending" ELSE "failed"]
               /\ IF throws = "nothing"
                  THEN /\ latest' = [latest EXCEPT ![KeyOf[r]] = r] /\ done' = [done EXCEPT ![KeyOf[r]] = FALSE]
                       /\ UNCHANGED <<lost, faults>>
                  ELSE /\ faults < MaxFaults /\ faults' = faults + 1 /\ lost' = TRUE
                       /\ UNCHANGED <<latest, done>>
  /\ UNCHANGED <<direct, flush, reachable, overdue, sent, crashes>>

\* The target can be reached. The intent is claimed and the driver called; if
\* the claim throws the intent fails, and if that cannot be written the call.
Send(r) ==
  /\ Asks(r) /\ reachable /\ deferred' = Others(r)
  /\ \E n \in 0..2 :
       LET said == IF Older(r) = << >> THEN told ELSE Synced(row', told)
       IN  /\ faults + n <= MaxFaults /\ faults' = faults + n /\ lost' = (lost \/ n = 2)
           /\ row' = [x \in Runs |-> IF x = r THEN CASE n = 0 -> "delivering" [] n = 1 -> "failed" [] n = 2 -> row[r]
                                    ELSE IF Contains(Older(r), x) THEN "superseded" ELSE row[x]]
           /\ order' = Inserted(IF n = 2 THEN Older(r) ELSE Append(Older(r), r))
           /\ told' = [said EXCEPT ![r] = CASE n = 0 -> "running" [] n = 1 -> "degraded" [] n = 2 -> "failed"]
           /\ IF n = 0
              THEN /\ latest' = [latest EXCEPT ![KeyOf[r]] = r] /\ done' = [done EXCEPT ![KeyOf[r]] = FALSE]
                   /\ direct' = direct \cup {r} /\ sent' = [sent EXCEPT ![r] = @ + 1]
              ELSE UNCHANGED <<latest, done, direct, sent>>
  /\ UNCHANGED <<flush, armed, reachable, overdue, crashes>>

\* The driver answers: it sent the result, refused it, or cannot tell.
Answered(r) ==
  /\ Free /\ r \in direct /\ direct' = direct \ {r}
  /\ \E n \in 0..2 :
       \/ /\ Journal(r, <<"delivered", "uncertain">>, n)
          /\ Returns(r, IF n = 0 THEN "delivered" ELSE "uncertain")
          /\ IF n = 0 THEN Delivered(r) ELSE UNCHANGED done
          /\ UNCHANGED sent
       \/ /\ n < 2 /\ Journal(r, <<"failed">>, n)
          /\ Returns(r, IF n = 0 THEN "degraded" ELSE "failed")
          /\ sent' = [sent EXCEPT ![r] = @ - 1]
          /\ UNCHANGED done
       \/ /\ n < 2 /\ Journal(r, <<"uncertain">>, n)
          /\ Returns(r, IF n = 0 THEN "uncertain" ELSE "failed")
          /\ UNCHANGED <<sent, done>>
  /\ UNCHANGED <<deferred, latest, flush, armed, reachable, overdue, crashes>>
-----------------------------------------------------------------------------
(* flushDeferred. A write that throws ends the call: the rest of what it   *)
(* took is in no list any more, and nothing is summed up.                  *)

Reach ==
  /\ Free /\ reachable' = TRUE
  /\ \E f \in Flushes :
       /\ flush[f] = Idle /\ \A g \in Flushes : flush[g] = Idle => f <= g
       /\ flush' = [flush EXCEPT ![f] = [Idle EXCEPT !.step = "loop", !.rest = deferred]]
  /\ deferred' = << >>
  /\ UNCHANGED <<journal, latest, done, direct, armed, overdue, told, sent, crashes>>

Unreach ==
  /\ Free /\ reachable /\ reachable' = FALSE
  /\ UNCHANGED <<journal, memory, overdue, told, sent, crashes>>

At(f, r) == flush[f].step = "loop" /\ flush[f].rest # << >> /\ r = Head(flush[f].rest)
GoesOn(f) == flush' = [flush EXCEPT ![f].rest = Tail(@)]
Aborts(f) == flush' = [flush EXCEPT ![f] = Idle]

\* Mutated form of Outdated: the order of acceptance is not looked up.
NeverOutdated(r) == FALSE

\* A newer result of the task was accepted.
Outdated(r) == latest[KeyOf[r]] \notin {None, r}

FlushSettles(f, r) ==
  /\ At(f, r) /\ (r \in overdue \/ Outdated(r))
  /\ \E n \in 0..1 :
       /\ Journal(r, <<IF r \in overdue THEN "expired" ELSE "superseded">>, n)
       /\ IF n = 0 THEN GoesOn(f) ELSE Aborts(f)
  /\ UNCHANGED <<deferred, latest, done, direct, armed, reachable, overdue, told, sent, crashes>>

Current(f, r) == At(f, r) /\ r \notin overdue /\ ~Outdated(r)

\* It was delivered, or the claim finds no row that waits.
FlushSkips(f, r) ==
  /\ Current(f, r) /\ (done[KeyOf[r]] \/ (reachable /\ row[r] # "deferred"))
  /\ GoesOn(f)
  /\ UNCHANGED <<journal, deferred, latest, done, direct, armed, reachable, overdue, told, sent, crashes>>

\* Mutated form of FlushKeeps: what cannot be sent now is not put back.
FlushForgets(f, r) ==
  /\ Current(f, r) /\ ~done[KeyOf[r]] /\ ~reachable /\ GoesOn(f)
  /\ UNCHANGED <<journal, deferred, latest, done, direct, armed, reachable, overdue, told, sent, crashes>>

FlushKeeps(f, r) ==
  /\ Current(f, r) /\ ~done[KeyOf[r]] /\ ~reachable
  /\ deferred' = Append(deferred, r) /\ GoesOn(f)
  /\ UNCHANGED <<journal, latest, done, direct, armed, reachable, overdue, told, sent, crashes>>

FlushSends(f, r) ==
  /\ Current(f, r) /\ ~done[KeyOf[r]] /\ reachable /\ row[r] = "deferred"
  /\ \E n \in 0..2 :
       /\ Journal(r, <<"delivering", "deferred">>, n)
       /\ CASE n = 0 -> /\ flush' = [flush EXCEPT ![f] = [step |-> "await", rest |-> Tail(@.rest), item |-> r]]
                        /\ sent' = [sent EXCEPT ![r] = @ + 1]
                        /\ UNCHANGED deferred
            [] n = 1 -> GoesOn(f) /\ deferred' = Append(deferred, r) /\ UNCHANGED sent
            [] n = 2 -> Aborts(f) /\ UNCHANGED <<deferred, sent>>
  /\ UNCHANGED <<latest, done, direct, armed, reachable, overdue, told, crashes>>

Resumes(f) == flush' = [flush EXCEPT ![f] = [step |-> "loop", rest |-> @.rest, item |-> None]]

FlushAnswered(f, r) ==
  /\ Free /\ flush[f].step = "await" /\ r = flush[f].item
  /\ \E n \in 0..2 :
       \/ /\ Journal(r, <<"delivered", "uncertain">>, n)
          /\ IF n = 0 THEN Delivered(r) ELSE UNCHANGED done
          /\ Resumes(f) /\ UNCHANGED <<deferred, sent>>
       \/ /\ n < 2 /\ Journal(r, <<"deferred">>, n)
          /\ IF n = 0 THEN deferred' = Append(deferred, r) /\ Resumes(f)
             ELSE Aborts(f) /\ UNCHANGED deferred
          /\ sent' = [sent EXCEPT ![r] = @ - 1]
          /\ UNCHANGED done
       \/ /\ n < 2 /\ Journal(r, <<"uncertain">>, n)
          /\ IF n = 0 THEN Resumes(f) ELSE Aborts(f)
          /\ UNCHANGED <<deferred, sent, done>>
  /\ UNCHANGED <<latest, direct, armed, reachable, overdue, told, crashes>>

\* Mutated form of FlushEnds: the runs are not told.
FlushEndsUntold(f) ==
  /\ flush[f].step = "loop" /\ flush[f].rest = << >> /\ Aborts(f)
  /\ armed' = (deferred # << >>)
  /\ UNCHANGED <<journal, deferred, latest, done, direct, reachable, overdue, told, sent, crashes>>

\* Mutated form of FlushEnds: the timer is not set again.
FlushEndsUnarmed(f) ==
  /\ flush[f].step = "loop" /\ flush[f].rest = << >> /\ Aborts(f)
  /\ told' = Synced(row, told)
  /\ UNCHANGED <<journal, deferred, latest, done, direct, armed, reachable, overdue, sent, crashes>>

FlushEnds(f) ==
  /\ flush[f].step = "loop" /\ flush[f].rest = << >>
  /\ Aborts(f)
  /\ armed' = (deferred # << >>)
  /\ told' = Synced(row, told)
  /\ UNCHANGED <<journal, deferred, latest, done, direct, reachable, overdue, sent, crashes>>
-----------------------------------------------------------------------------
(* Time, and the life of the process.                                      *)

Held(r) == Contains(deferred, r) \/ \E f \in Flushes : Contains(flush[f].rest, r)

TimePasses(r) ==
  /\ told[r] # "new" /\ row[r] \notin Final
  /\ r \notin overdue /\ overdue' = overdue \cup {r}
  /\ UNCHANGED <<journal, memory, reachable, told, sent, crashes>>

\* The expiry timer: what cannot be written stays in the backlog, and the
\* timer is set again.
Expire ==
  /\ Free /\ armed
  /\ LET late == Reverse(Keep(deferred, overdue))
     IN  /\ late # << >> \/ deferred = << >>
         /\ \E kept \in SUBSET Range(late) :
              LET gone == Keep(late, Runs \ kept)
              IN  /\ faults + Cardinality(kept) <= MaxFaults /\ faults' = faults + Cardinality(kept)
                  /\ row' = [x \in Runs |-> IF Contains(gone, x) THEN "expired" ELSE row[x]]
                  /\ order' = Inserted(gone)
                  /\ deferred' = Keep(deferred, {x \in Runs : ~Contains(gone, x)})
                  /\ told' = IF gone = << >> THEN told ELSE Synced(row', told)
  /\ armed' = (deferred' # << >>)
  /\ UNCHANGED <<lost, latest, done, direct, flush, reachable, overdue, sent, crashes>>

\* Mutated form of Recovered: a dispatch that was cut short waits again.
RecoveredAll(r) == IF row[r] = "delivering" THEN "deferred" ELSE row[r]

\* A dispatch that was under way is uncertain; what waits may have expired.
Recovered(r) ==
  CASE row[r] = "delivering"                  -> "uncertain"
    [] row[r] = "deferred" /\ r \in overdue -> "expired"
    [] OTHER                                  -> row[r]

\* The process ends at any point and starts again: intents that wait come
\* back, and runs that were under way are interrupted.
Restart ==
  /\ crashes < MaxCrashes /\ crashes' = crashes + 1
  /\ row' = [r \in Runs |-> Recovered(r)]
  /\ LET OfKey(k) == Keep(order, OfTask(k))
     IN  /\ latest' = [k \in Keys |-> IF OfKey(k) = << >> THEN None ELSE Last(OfKey(k))]
         /\ done' = [k \in Keys |-> OfKey(k) # << >> /\ row[Last(OfKey(k))] = "delivered"]
  /\ deferred' = Keep(order, {x \in Runs : row'[x] = "deferred"})
  /\ armed' = (deferred' # << >>)
  /\ direct' = {} /\ flush' = [f \in Flushes |-> Idle] /\ reachable' = FALSE /\ lost' = FALSE
  /\ told' = Synced(row', [r \in Runs |-> IF told[r] = "running" THEN "interrupted" ELSE told[r]])
  /\ UNCHANGED <<order, faults, overdue, sent>>

FlushStep(f) ==
  \/ FlushEnds(f)
  \/ \E r \in Runs : FlushSettles(f, r) \/ FlushSkips(f, r) \/ FlushKeeps(f, r) \/ FlushSends(f, r)

Next ==
  \/ Reach \/ Unreach \/ Expire \/ Restart
  \/ \E r \in Runs : DeliverThrows(r) \/ Defer(r) \/ Send(r) \/ Answered(r) \/ TimePasses(r)
  \/ \E f \in Flushes : FlushStep(f) \/ \E r \in Runs : FlushAnswered(f, r)

Spec == Init /\ [][Next]_vars

\* Drivers answer, and the event loop serves every answer and timer that is
\* due, whatever else it serves (strong fairness: a flush that runs keeps the
\* others from it for a while). Time passes and a flush goes on. Nothing says
\* that a connection comes up.
FairSpec ==
  /\ Spec /\ SF_vars(Expire)
  /\ \A r \in Runs : SF_vars(Answered(r)) /\ WF_vars(TimePasses(r))
  /\ \A f \in Flushes : WF_vars(FlushStep(f)) /\ SF_vars(\E r \in Runs : FlushAnswered(f, r))
-----------------------------------------------------------------------------
(* Properties.                                                             *)

\* A result goes to the driver again only after the driver refused it:
\* flushes, restarts and writes that failed never send it twice.
SentOnce == \A r \in Runs : sent[r] <= 1

\* A result is not sent when a newer one of the same task was accepted, unless
\* that one failed, or the call that brought it.
NewestWins ==
  [][\A r \in Runs : sent'[r] > sent[r] =>
       \A i, j \in DOMAIN order' :
         order'[i] = r /\ j > i /\ KeyOf[order'[j]] = KeyOf[r] =>
           row'[order'[j]] = "failed" \/ told'[order'[j]] = "failed"]_vars

\* An intent that waits in the journal is in the backlog or in the hands of a
\* flush, and while there is a backlog and no flush the expiry timer is set;
\* unless a write that had to be made was lost since the start.
BacklogKept ==
  ~lost => /\ \A r \in Runs : row[r] = "deferred" => Held(r)
           /\ deferred # << >> /\ (\A f \in Flushes : flush[f] = Idle) => armed

\* While no flush is under way, a run that is said to wait for its delivery
\* has an intent that waits.
ToldInTime ==
  ~lost /\ (\A f \in Flushes : flush[f] = Idle) =>
    \A r \in Runs : told[r] = "pending" => row[r] = "deferred"

\* Journal, backlog and the rows of the runs say the same.
WaitingAgrees == BacklogKept /\ ToldInTime

\* A run does not wait for ever: its result is delivered, given up or
\* uncertain, even if the target is never reached again.
RunTold == \A r \in Runs : told[r] = "pending" ~> told[r] # "pending" \/ lost
=============================================================================
