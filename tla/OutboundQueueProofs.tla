------------------------ MODULE OutboundQueueProofs ------------------------
(***************************************************************************)
(* Proofs about the queue of a session, for any number of messages, drains *)
(* and retries: its rows, that no message is left behind, and that it      *)
(* keeps the promise of QueuePromise.                                      *)
(***************************************************************************)
EXTENDS OutboundQueue, SequenceTheorems, TLAPS

Places == [Drains -> [step : {"idle", "submit", "prepare", "back", "exit"}, msg : Messages \cup {None},
                      result : {"none", "started", "rejected", "queued", "local"}]]

Inv == TypeOK /\ QueueInv

\* What Without returns: the other rows, still different, and in front of them
\* the same as before unless that was the one taken.
LEMMA WithoutFacts ==
  ASSUME NEW rows \in Seq(Messages), NEW m,
         \A i, j \in DOMAIN rows : rows[i] = rows[j] => i = j
  PROVE  /\ Without(rows, m) \in Seq(Messages)
         /\ {Without(rows, m)[i] : i \in DOMAIN Without(rows, m)} = {rows[i] : i \in DOMAIN rows} \ {m}
         /\ \A i, j \in DOMAIN Without(rows, m) : Without(rows, m)[i] = Without(rows, m)[j] => i = j
         /\ rows # << >> /\ rows[1] # m => Without(rows, m) # << >> /\ Without(rows, m)[1] = rows[1]
         /\ rows # << >> /\ rows[1] = m => Without(rows, m) = Tail(rows)
<1> DEFINE W == Without(rows, m)
<1>1. CASE \E i \in DOMAIN rows : rows[i] = m
  <2> DEFINE p == CHOOSE i \in DOMAIN rows : rows[i] = m
  <2>1. p \in DOMAIN rows /\ rows[p] = m
    BY <1>1
  <2>2. W = [i \in 1..(Len(rows) - 1) |-> IF i < p THEN rows[i] ELSE rows[i + 1]]
    BY <1>1 DEF Without
  <2> HIDE DEF p
  <2>3. Len(rows) \in Nat /\ DOMAIN rows = 1..Len(rows) /\ \A i \in DOMAIN rows : rows[i] \in Messages
    OBVIOUS
  <2>4. /\ DOMAIN W = 1..(Len(rows) - 1) /\ Len(rows) - 1 \in Nat
        /\ \A i \in DOMAIN W : W[i] = IF i < p THEN rows[i] ELSE rows[i + 1]
    BY <2>1, <2>2, <2>3
  <2>5. W \in Seq(Messages)
    BY <2>1, <2>2, <2>3
  <2>6. {W[i] : i \in DOMAIN W} = {rows[i] : i \in DOMAIN rows} \ {m}
    <3>1. ASSUME NEW i \in DOMAIN W PROVE W[i] \in {rows[j] : j \in DOMAIN rows} \ {m}
      BY <2>1, <2>3, <2>4
    <3>2. ASSUME NEW j \in DOMAIN rows, rows[j] # m PROVE \E i \in DOMAIN W : W[i] = rows[j]
      <4>1. CASE j < p
        BY <4>1, <2>1, <2>3, <2>4
      <4>2. CASE j > p
        <5>1. j - 1 \in DOMAIN W /\ ~(j - 1 < p) /\ (j - 1) + 1 = j
          BY <4>2, <2>1, <2>3, <2>4
        <5> QED BY <5>1, <2>4
      <4> QED BY <4>1, <4>2, <3>2, <2>1, <2>3
    <3> QED BY <3>1, <3>2
  <2>7. \A i, j \in DOMAIN W : W[i] = W[j] => i = j
    BY <2>1, <2>3, <2>4
  <2>8. rows # << >> /\ rows[1] # m => W # << >> /\ W[1] = rows[1]
    <3> SUFFICES ASSUME rows[1] # m PROVE W # << >> /\ W[1] = rows[1]
      OBVIOUS
    <3>1. 1 < p /\ 1 \in DOMAIN W
      BY <2>1, <2>3, <2>4
    <3> QED BY <3>1, <2>4, <2>5
  <2>9. rows # << >> /\ rows[1] = m => W = Tail(rows)
    <3> SUFFICES ASSUME rows[1] = m PROVE W = Tail(rows)
      OBVIOUS
    <3>1. p = 1
      BY <2>1, <2>3
    <3>2. Tail(rows) \in Seq(Messages) /\ Len(Tail(rows)) = Len(rows) - 1
          /\ \A i \in 1..(Len(rows) - 1) : Tail(rows)[i] = rows[i + 1]
      BY <2>1, <2>3
    <3>3. \A i \in 1..(Len(rows) - 1) : W[i] = rows[i + 1]
      BY <3>1, <2>4, <2>3
    <3> HIDE DEF W
    <3>4. Len(W) = Len(rows) - 1
      <4>1. Len(W) \in Nat /\ 1..Len(W) = 1..(Len(rows) - 1)
        BY <2>4, <2>5
      <4>2. ~(Len(W) < Len(rows) - 1) /\ ~(Len(W) > Len(rows) - 1)
        BY <4>1, <2>4
      <4> QED BY <4>1, <4>2, <2>4
    <3> QED BY <3>2, <3>3, <3>4, <2>5, <2>3, SeqEqual
  <2> QED BY <2>5, <2>6, <2>7, <2>8, <2>9
<1>2. CASE ~\E i \in DOMAIN rows : rows[i] = m
  BY <1>2 DEF Without
<1> QED BY <1>1, <1>2

\* A drain that is called leaves the invariant true: A says where the drains
\* are, q what is queued then.
LEMMA CallFacts ==
  ASSUME TypeOK, MarkIsSeen,
         NEW active \in BOOLEAN, NEW q \in Seq(Messages),
         NEW A \in Places,
         \A d \in Drains : A[d] # at[d] => Submits(d) /\ A[d].step = "back" /\ A[d].msg = at[d].msg,
         Call(A, active, q)
  PROVE  /\ at' \in Places
         /\ draining' \in BOOLEAN /\ suppressed' \in BOOLEAN
         /\ draining' => \E d \in Drains : Submits(d)'
         /\ \A d \in Drains : at'[d] = A[d] \/ (A[d] = Idle /\ at'[d] = Turn(active, q) /\ ~draining)
         /\ \/ suppressed' /\ \E d \in Drains : Submits(d)'
            \/ \E d \in Drains : at'[d] = Turn(active, q)
         /\ suppressed => suppressed'
<1> USE DEF TypeOK, MarkIsSeen, Submits, Idle, Step, Places
<1>1. Turn(active, q) \in [step : {"submit", "exit"}, msg : Messages \cup {None}, result : {"none", "rejected"}]
  BY DEF Turn
<1>2. CASE draining
  <2>1. suppressed' = TRUE /\ at' = A /\ draining' = draining
    BY <1>2 DEF Call
  <2>2. PICK d \in Drains : Submits(d)
    BY <1>2
  <2>3. Submits(d)'
    BY <2>1, <2>2
  <2> QED BY <2>1, <2>3, <1>2
<1>3. CASE ~draining
  <2>1. PICK d \in Drains :
          /\ A[d] = Idle
          /\ at' = [A EXCEPT ![d] = Turn(active, q)]
          /\ draining' = (at'[d].step = "submit")
          /\ suppressed' = suppressed
    BY <1>3 DEF Call
  <2> QED BY <2>1, <1>1, <1>3
<1> QED BY <1>2, <1>3

\* After a call of drain the rest of the invariant holds, if the rows are right
\* and none in front of the others was put there.
LEMMA AfterCall ==
  ASSUME Inv, TypeOK', RowsDiffer',
         NEW A \in Places,
         \A d \in Drains : A[d] # at[d] => Submits(d) /\ A[d].step = "back" /\ A[d].msg = at[d].msg,
         \A m \in Messages : entry[m] \in {"queued", "turned", "gone"} => entry'[m] = entry[m],
         queue # << >> => queue' # << >> /\ queue'[1] = queue[1],
         NEW active \in BOOLEAN, Call(A, active, queue')
  PROVE  HeldIsHead' /\ MarkIsSeen' /\ SomebodyLooks'
<1> USE DEF Inv, QueueInv
<1>0. queue' \in Seq(Messages)
  BY DEF TypeOK
<1>1. /\ draining' => \E d \in Drains : Submits(d)'
      /\ \A d \in Drains : at'[d] = A[d] \/ (A[d] = Idle /\ at'[d] = Turn(active, queue') /\ ~draining)
      /\ \/ suppressed' /\ \E d \in Drains : Submits(d)'
         \/ \E d \in Drains : at'[d] = Turn(active, queue')
      /\ suppressed => suppressed'
  BY <1>0, CallFacts
<1>2. queue' # << >> => queue'[1] \in Messages /\ entry'[queue'[1]] = "queued" /\ Head(queue') = queue'[1]
  BY <1>0 DEF TypeOK
<1>3. HeldIsHead'
  <2> SUFFICES ASSUME NEW d \in Drains, Submits(d)'
               PROVE  /\ at'[d].msg \in Messages /\ entry'[at'[d].msg] \in {"queued", "turned", "gone"}
                      /\ entry'[at'[d].msg] = "queued" => queue' # << >> /\ queue'[1] = at'[d].msg
    BY DEF HeldIsHead
  <2>1. CASE at'[d] = A[d]
    <3>1. Submits(d) /\ at'[d].msg = at[d].msg
      BY <2>1 DEF Submits
    <3> QED BY <3>1 DEF HeldIsHead
  <2>2. CASE at'[d] = Turn(active, queue')
    BY <2>2, <1>2 DEF Turn, Step, Submits
  <2> QED BY <1>1, <2>1, <2>2
<1>4. SomebodyLooks'
  <2> SUFFICES ASSUME queue' # << >> PROVE \E d \in Drains : LooksAgain(d)'
    BY DEF SomebodyLooks
  <2>1. CASE suppressed' /\ \E d \in Drains : Submits(d)'
    BY <2>1 DEF Submits, LooksAgain
  <2>2. CASE \E d \in Drains : at'[d] = Turn(active, queue')
    BY <2>2, <1>2 DEF Turn, Step, LooksAgain
  <2> QED BY <1>1, <2>1, <2>2
<1> QED BY <1>1, <1>3, <1>4 DEF MarkIsSeen

\* The session starts with nothing queued and no drain.
LEMMA InitInv == Init => Inv
<1> SUFFICES ASSUME Init PROVE Inv
  OBVIOUS
<1> USE OutboundAssumption DEF Init
<1>1. TypeOK
  <2>1. entry \in [Messages -> {"new", "enqueueing", "preparing", "queued", "turned", "gone"}]
    OBVIOUS
  <2>2. queue \in Seq(Messages) /\ {queue[i] : i \in DOMAIN queue} = {m \in Messages : entry[m] = "queued"}
    <3>1. DOMAIN queue = {}
      OBVIOUS
    <3> QED BY <3>1
  <2>3. at \in Places
    BY DEF Idle, Step, Places
  <2>4. draining \in BOOLEAN /\ suppressed \in BOOLEAN /\ stalled \in BOOLEAN
    OBVIOUS
  <2> QED BY <2>1, <2>2, <2>3, <2>4 DEF TypeOK, Places
<1>2. QueueInv
  BY DEF QueueInv, RowsDiffer, HeldIsHead, MarkIsSeen, SomebodyLooks, Submits, Idle, Step
<1> QED BY <1>1, <1>2 DEF Inv

\* A drain goes on with the message it holds, and nothing else changes.
LEMMA StepKeeps ==
  ASSUME Inv, NEW d \in Drains, Snapshot(d) \/ Refused(d) \/ Replayed(d) \/ NotClaimable(d)
  PROVE  Inv'
<1> USE OutboundAssumption DEF Inv, QueueInv
<1>1. PICK s \in {"back", "prepare"}, r \in {"none", "started", "rejected", "local"} :
        /\ at' = [at EXCEPT ![d] = [step |-> s, msg |-> at[d].msg, result |-> r]]
        /\ Submits(d)
        /\ r = "started" => entry[at[d].msg] = "turned" /\ at[d].step = "prepare"
        /\ s = "prepare" => at[d].step = "submit"
        /\ UNCHANGED <<entry, queue, turn, draining, suppressed, attempts, retries, stalled, crashes>>
  BY DEF Snapshot, Refused, Replayed, NotClaimable, Submits, Step
<1>2. at[d].msg \in Messages /\ at \in Places
  BY <1>1 DEF HeldIsHead, TypeOK, Places
<1>3. TypeOK'
  BY <1>1, <1>2 DEF TypeOK, Places
<1>4. \A e \in Drains : /\ Submits(e)' = Submits(e)
                        /\ at'[e].msg = at[e].msg
                        /\ LooksAgain(e) => LooksAgain(e)'
  BY <1>1, <1>2 DEF Submits, LooksAgain, Places
<1>5. RowsDiffer'
  BY <1>1 DEF RowsDiffer
<1>6. HeldIsHead'
  BY <1>1, <1>4 DEF HeldIsHead
<1>7. MarkIsSeen'
  BY <1>1, <1>4 DEF MarkIsSeen
<1>8. SomebodyLooks'
  BY <1>1, <1>4 DEF SomebodyLooks, Active
<1> QED BY <1>3, <1>5, <1>6, <1>7, <1>8

\* The calls of drain: by the microtask of a retry, as the turn ends, as a
\* message was queued and as one was queued that came back.
LEMMA RetryRunsKeeps == ASSUME Inv, RetryRuns PROVE Inv'
<1> USE OutboundAssumption DEF Inv, QueueInv
<1>1. /\ retries > 0 /\ retries' = retries - 1
      /\ Call(at, Active, queue)
      /\ UNCHANGED <<entry, queue, turn, attempts, stalled, crashes>>
  BY DEF RetryRuns
<1>2. at \in Places /\ Active \in BOOLEAN /\ queue \in Seq(Messages)
  BY DEF TypeOK, Places, Active
<1>3. at' \in Places /\ draining' \in BOOLEAN /\ suppressed' \in BOOLEAN
  BY <1>1, <1>2, CallFacts
<1>4. TypeOK'
  BY <1>1, <1>3 DEF TypeOK, Places
<1>5. RowsDiffer'
  BY <1>1 DEF RowsDiffer
<1> QED BY <1>1, <1>2, <1>4, <1>5, AfterCall

\* A turn that ends triggers a drain.
LEMMA EndTurnKeeps == ASSUME Inv, EndTurn PROVE Inv'
<1> USE OutboundAssumption DEF Inv, QueueInv
<1>1. /\ turn' \in {"settling", "none"}
      /\ Call(at, FALSE, queue) /\ stalled' = FALSE
      /\ UNCHANGED <<entry, queue, attempts, retries, crashes>>
  BY DEF EndTurn, Trigger
<1>2. at \in Places /\ queue \in Seq(Messages)
  BY DEF TypeOK, Places
<1>3. at' \in Places /\ draining' \in BOOLEAN /\ suppressed' \in BOOLEAN
  BY <1>1, <1>2, CallFacts
<1>4. TypeOK'
  <2>1. stalled' \in BOOLEAN /\ turn' \in {"none", "running", "settling"}
    BY <1>1
  <2> QED BY <1>1, <1>3, <2>1 DEF TypeOK, Places
<1>5. RowsDiffer'
  BY <1>1 DEF RowsDiffer
<1> QED BY <1>1, <1>2, <1>4, <1>5, AfterCall

\* A drain that meets a turn goes back without its message.
LEMMA BusyKeeps == ASSUME Inv, NEW d \in Drains, Busy(d) PROVE Inv'
<1> USE OutboundAssumption DEF Inv, QueueInv
<1> DEFINE A == [at EXCEPT ![d] = [step |-> "back", msg |-> at[d].msg, result |-> "queued"]]
<1>1. /\ at[d].step = "prepare"
      /\ Notify(A, queue)
      /\ UNCHANGED <<entry, queue, turn, crashes>>
  BY DEF Busy, Step
<1>2. at \in Places /\ queue \in Seq(Messages) /\ at[d].msg \in Messages /\ Submits(d)
  BY <1>1 DEF TypeOK, Places, HeldIsHead, Submits
<1>3. /\ A \in Places
      /\ \A e \in Drains : A[e] # at[e] => Submits(e) /\ A[e].step = "back" /\ A[e].msg = at[e].msg
  BY <1>2 DEF Places
<1>4. RowsDiffer'
  BY <1>1 DEF RowsDiffer
<1> HIDE DEF A
<1>5. CASE ~Active
  <2>1. Call(A, FALSE, queue) /\ stalled' = FALSE /\ UNCHANGED <<attempts, retries>>
    BY <1>1, <1>5 DEF Notify, Trigger
  <2>2. at' \in Places /\ draining' \in BOOLEAN /\ suppressed' \in BOOLEAN
    BY <2>1, <1>2, <1>3, CallFacts
  <2>3. TypeOK'
    <3>1. stalled' \in BOOLEAN
      BY <2>1
    <3> QED BY <1>1, <2>1, <2>2, <3>1 DEF TypeOK, Places
  <2> QED BY <1>1, <1>3, <1>4, <2>1, <2>3, AfterCall
<1>6. CASE Active
  <2>1. at' = A /\ UNCHANGED <<draining, suppressed, attempts, retries, stalled>>
    BY <1>1, <1>6 DEF Notify
  <2>2. TypeOK'
    BY <1>1, <1>3, <2>1 DEF TypeOK, Places
  <2>3. \A e \in Drains : Submits(e)' = Submits(e) /\ at'[e].msg = at[e].msg
    BY <1>2, <2>1 DEF Submits, A, Places
  <2>4. HeldIsHead' /\ MarkIsSeen'
    BY <1>1, <2>1, <2>3 DEF HeldIsHead, MarkIsSeen
  <2>5. SomebodyLooks'
    BY <1>1, <1>6 DEF SomebodyLooks, Active
  <2> QED BY <1>4, <2>2, <2>4, <2>5
<1> QED BY <1>5, <1>6

\* The row of one message leaves the queue, and its entry says so.
LEMMA RowLeaves ==
  ASSUME Inv, NEW m \in Messages, NEW w \in {"turned", "gone"},
         entry' = [entry EXCEPT ![m] = w], queue' = Without(queue, m)
  PROVE  /\ entry' \in [Messages -> {"new", "enqueueing", "preparing", "queued", "turned", "gone"}]
         /\ queue' \in Seq(Messages)
         /\ {queue'[i] : i \in DOMAIN queue'} = {x \in Messages : entry'[x] = "queued"}
         /\ RowsDiffer'
         /\ queue # << >> /\ queue[1] # m => queue' # << >> /\ queue'[1] = queue[1]
<1> USE DEF Inv, QueueInv
<1>1. queue \in Seq(Messages) /\ \A i, j \in DOMAIN queue : queue[i] = queue[j] => i = j
  BY DEF TypeOK, RowsDiffer
<1>2. /\ queue' \in Seq(Messages)
      /\ {queue'[i] : i \in DOMAIN queue'} = {queue[i] : i \in DOMAIN queue} \ {m}
      /\ \A i, j \in DOMAIN queue' : queue'[i] = queue'[j] => i = j
      /\ queue # << >> /\ queue[1] # m => queue' # << >> /\ queue'[1] = queue[1]
  <2> DEFINE W == Without(queue, m)
  <2>1. /\ W \in Seq(Messages)
        /\ {W[i] : i \in DOMAIN W} = {queue[i] : i \in DOMAIN queue} \ {m}
        /\ \A i, j \in DOMAIN W : W[i] = W[j] => i = j
        /\ queue # << >> /\ queue[1] # m => W # << >> /\ W[1] = queue[1]
    BY ONLY <1>1, WithoutFacts, Zenon
  <2>2. queue' = W
    OBVIOUS
  <2> HIDE DEF W
  <2> QED BY <2>1, <2>2
<1>3. /\ entry' \in [Messages -> {"new", "enqueueing", "preparing", "queued", "turned", "gone"}]
      /\ {x \in Messages : entry'[x] = "queued"} = {x \in Messages : entry[x] = "queued"} \ {m}
  BY DEF TypeOK
<1>4. {queue[i] : i \in DOMAIN queue} = {x \in Messages : entry[x] = "queued"}
  BY DEF TypeOK
<1> QED BY <1>2, <1>3, <1>4 DEF RowsDiffer

\* A drain starts the turn of the message it holds, if that is still queued.
LEMMA ClaimKeeps == ASSUME Inv, NEW d \in Drains, Claim(d) PROVE Inv'
<1> USE OutboundAssumption DEF Inv, QueueInv
<1> DEFINE m == at[d].msg
<1>1. /\ at[d].step = "prepare" /\ entry[m] = "queued"
      /\ entry' = [entry EXCEPT ![m] = "turned"] /\ queue' = Without(queue, m) /\ turn' = "running"
      /\ at' = [at EXCEPT ![d] = [step |-> "back", msg |-> m, result |-> "started"]]
      /\ UNCHANGED <<draining, suppressed, attempts, retries, stalled, crashes>>
  BY DEF Claim, Step
<1>2. m \in Messages /\ at \in Places /\ Submits(d) /\ queue # << >> /\ queue[1] = m
  BY <1>1 DEF TypeOK, Places, HeldIsHead, Submits
<1> HIDE DEF m
<1>3. /\ entry' \in [Messages -> {"new", "enqueueing", "preparing", "queued", "turned", "gone"}]
      /\ queue' \in Seq(Messages)
      /\ {queue'[i] : i \in DOMAIN queue'} = {x \in Messages : entry'[x] = "queued"}
      /\ RowsDiffer'
  BY <1>1, <1>2, RowLeaves
<1>4. TypeOK'
  <2>1. at' \in Places
    BY <1>1, <1>2 DEF Places
  <2> QED BY <1>1, <1>3, <2>1 DEF TypeOK, Places
<1>5. \A e \in Drains : Submits(e)' = Submits(e) /\ at'[e].msg = at[e].msg
  BY <1>1, <1>2 DEF Submits, Places, m
<1>6. HeldIsHead'
  <2> SUFFICES ASSUME NEW e \in Drains, Submits(e)
               PROVE  /\ at[e].msg \in Messages /\ entry'[at[e].msg] \in {"turned", "gone"}
    BY <1>5 DEF HeldIsHead
  <2>1. /\ at[e].msg \in Messages /\ entry[at[e].msg] \in {"queued", "turned", "gone"}
        /\ entry[at[e].msg] = "queued" => at[e].msg = m
    BY <1>2 DEF HeldIsHead
  <2> QED BY <2>1, <1>1, <1>2 DEF TypeOK
<1>7. MarkIsSeen'
  BY <1>1, <1>5 DEF MarkIsSeen
<1>8. SomebodyLooks'
  BY <1>1 DEF SomebodyLooks, Active
<1> QED BY <1>3, <1>4, <1>6, <1>7, <1>8

\* The user deletes a message, which a drain may hold at that time.
LEMMA DeleteKeeps == ASSUME Inv, NEW m \in Messages, Delete(m) PROVE Inv'
<1> USE OutboundAssumption DEF Inv, QueueInv
<1>1. /\ entry[m] = "queued"
      /\ entry' = [entry EXCEPT ![m] = "gone"] /\ queue' = Without(queue, m)
      /\ UNCHANGED <<turn, at, draining, suppressed, attempts, retries, stalled, crashes>>
  BY DEF Delete, volatile
<1>2. /\ entry' \in [Messages -> {"new", "enqueueing", "preparing", "queued", "turned", "gone"}]
      /\ queue' \in Seq(Messages)
      /\ {queue'[i] : i \in DOMAIN queue'} = {x \in Messages : entry'[x] = "queued"}
      /\ RowsDiffer'
      /\ queue # << >> /\ queue[1] # m => queue' # << >> /\ queue'[1] = queue[1]
  BY <1>1, RowLeaves
<1>3. TypeOK'
  BY <1>1, <1>2 DEF TypeOK
<1>4. HeldIsHead'
  <2> SUFFICES ASSUME NEW e \in Drains, Submits(e)
               PROVE  /\ at[e].msg \in Messages /\ entry'[at[e].msg] \in {"queued", "turned", "gone"}
                      /\ entry'[at[e].msg] = "queued" => queue' # << >> /\ queue'[1] = at[e].msg
    BY <1>1 DEF HeldIsHead, Submits
  <2> QED BY <1>1, <1>2 DEF HeldIsHead, TypeOK
<1>5. MarkIsSeen'
  BY <1>1 DEF MarkIsSeen, Submits
<1>6. SomebodyLooks'
  <2>1. queue' # << >> => queue # << >>
    <3>1. entry[m] # "queued" \/ \E i \in DOMAIN queue : queue[i] = m
      BY DEF TypeOK
    <3> QED BY <3>1, <1>1 DEF Without
  <2>2. \A e \in Drains : LooksAgain(e) => LooksAgain(e)'
    <3> SUFFICES ASSUME NEW e \in Drains, LooksAgain(e) PROVE LooksAgain(e)'
      OBVIOUS
    <3>1. at[e].step \in {"submit", "prepare"} /\ entry[at[e].msg] # "turned" => entry'[at[e].msg] # "turned"
      BY <1>1 DEF HeldIsHead, Submits, TypeOK
    <3> QED BY <1>1, <3>1 DEF LooksAgain
  <2> QED BY <1>1, <2>1, <2>2 DEF SomebodyLooks, Active
<1> QED BY <1>2, <1>3, <1>4, <1>5, <1>6

\* The end of drain: whoever does not start a turn looks whether one is due.
LEMMA ExitKeeps == ASSUME Inv, NEW d \in Drains, Exit(d) PROVE Inv'
<1> USE OutboundAssumption DEF Inv, QueueInv
<1> DEFINE started == at[d].result = "started"
           idle == ~Active /\ queue # << >>
<1>1. /\ at[d].step = "exit" /\ at' = [at EXCEPT ![d] = Idle]
      /\ draining' = FALSE /\ suppressed' = FALSE
      /\ UNCHANGED <<entry, queue, turn, crashes>>
      /\ IF (started /\ suppressed /\ idle) \/ (~started /\ (suppressed \/ idle))
         THEN Retry(IF started THEN 0 ELSE attempts)
         ELSE /\ attempts' = IF started \/ Active THEN 0 ELSE attempts
              /\ UNCHANGED <<retries, stalled>>
  BY DEF Exit
<1> HIDE DEF started, idle
<1>2. /\ attempts' \in 0..(MaxRetries + 1) /\ retries' \in Nat /\ stalled' \in BOOLEAN
      /\ (started /\ suppressed /\ idle) \/ (~started /\ (suppressed \/ idle)) => stalled' \/ retries' > 0
      /\ ~((started /\ suppressed /\ idle) \/ (~started /\ (suppressed \/ idle))) => stalled' = stalled /\ retries' = retries
  <2>1. attempts \in 0..(MaxRetries + 1) /\ retries \in Nat /\ stalled \in BOOLEAN
    BY DEF TypeOK
  <2>2. CASE (started /\ suppressed /\ idle) \/ (~started /\ (suppressed \/ idle))
    <3>1. PICK n \in 0..(MaxRetries + 1) : Retry(n)
      BY <1>1, <2>1, <2>2
    <3>2. CASE n < MaxRetries
      <4>1. attempts' = n + 1 /\ retries' = retries + 1 /\ stalled' = stalled
        BY <3>1, <3>2 DEF Retry
      <4> QED BY <4>1, <3>2, <2>1, <2>2
    <3>3. CASE ~(n < MaxRetries)
      <4>1. attempts' = MaxRetries + 1 /\ retries' = retries /\ stalled' = TRUE
        BY <3>1, <3>3 DEF Retry
      <4>2. stalled' \in BOOLEAN /\ stalled'
        BY <4>1
      <4>3. attempts' \in 0..(MaxRetries + 1) /\ retries' \in Nat
        BY <4>1, <2>1
      <4> QED BY <4>2, <4>3, <2>2, Zenon
    <3> QED BY <3>2, <3>3
  <2>3. CASE ~((started /\ suppressed /\ idle) \/ (~started /\ (suppressed \/ idle)))
    <3>1. attempts' \in {0, attempts} /\ UNCHANGED <<retries, stalled>>
      BY <1>1, <2>3
    <3> QED BY <3>1, <2>1, <2>3
  <2> QED BY <2>2, <2>3
<1>3. TypeOK'
  <2>1. at' \in Places
    <3>1. at \in Places
      BY DEF TypeOK, Places
    <3>2. Idle \in [step : {"idle", "submit", "prepare", "back", "exit"}, msg : Messages \cup {None},
                     result : {"none", "started", "rejected", "queued", "local"}]
      BY DEF Idle
    <3> QED BY <3>1, <3>2, <1>1 DEF Places
  <2>2. draining' \in BOOLEAN /\ suppressed' \in BOOLEAN
    BY <1>1
  <2> QED BY <1>1, <1>2, <2>1, <2>2 DEF TypeOK, Places
<1>4. \A e \in Drains : Submits(e)' = (Submits(e) /\ e # d) /\ (e # d => at'[e] = at[e])
  BY <1>1 DEF Submits, TypeOK, Idle, Step
<1>5. RowsDiffer' /\ HeldIsHead' /\ MarkIsSeen'
  BY <1>1, <1>4 DEF RowsDiffer, HeldIsHead, MarkIsSeen
<1>6. SomebodyLooks'
  <2> SUFFICES ASSUME idle, ~stalled', ~(retries' > 0) PROVE \E e \in Drains : LooksAgain(e)'
    BY <1>1 DEF SomebodyLooks, Active, idle
  <2>1. started /\ ~suppressed /\ stalled' = stalled /\ retries' = retries
    BY <1>2
  <2>2. PICK e \in Drains : LooksAgain(e)
    BY <2>1 DEF SomebodyLooks, idle
  <2>3. e # d
    BY <2>1, <2>2, <1>1 DEF LooksAgain, started
  <2> QED BY <2>1, <2>2, <2>3, <1>1, <1>4 DEF LooksAgain
<1> QED BY <1>3, <1>5, <1>6

\* submitOutbound has answered: a command is consumed and the next head is
\* looked at, or the loop ends.
LEMMA BackKeeps == ASSUME Inv, NEW d \in Drains, Back(d) PROVE Inv'
<1> USE OutboundAssumption DEF Inv, QueueInv
<1> DEFINE m == at[d].msg
<1>1. /\ at[d].step = "back" /\ draining' = (at'[d].step = "submit")
      /\ UNCHANGED <<turn, suppressed, attempts, retries, stalled, crashes>>
      /\ IF at[d].result = "local"
         THEN /\ queue' = Without(queue, m)
              /\ entry' = [entry EXCEPT ![m] = IF entry[m] = "queued" THEN "gone" ELSE entry[m]]
              /\ at' = [at EXCEPT ![d] = Turn(Active, queue')]
         ELSE /\ at' = [at EXCEPT ![d] = [step |-> "exit", msg |-> None, result |-> at[d].result]]
              /\ UNCHANGED <<entry, queue>>
  BY DEF Back, Step
<1>2. /\ at \in Places /\ Submits(d) /\ m \in Messages /\ entry[m] \in {"queued", "turned", "gone"}
      /\ queue \in Seq(Messages) /\ entry \in [Messages -> {"new", "enqueueing", "preparing", "queued", "turned", "gone"}]
  BY <1>1 DEF TypeOK, Places, HeldIsHead, Submits
<1> HIDE DEF m
<1>3. CASE at[d].result # "local"
  <2>1. at' \in Places
    BY <1>1, <1>2, <1>3 DEF Places
  <2>2. draining' \in BOOLEAN
    BY <1>1
  <2>3. TypeOK'
    <3>1. UNCHANGED <<entry, queue, turn, suppressed, attempts, retries, stalled, crashes>>
      BY <1>1, <1>3
    <3> QED BY <3>1, <2>1, <2>2 DEF TypeOK, Places
  <2>4. \A e \in Drains : e # d => at'[e] = at[e]
    BY <1>1, <1>2, <1>3 DEF Places
  <2>5. at'[d].step = "exit" /\ at'[d].result = at[d].result /\ ~Submits(d)' /\ draining' = FALSE
    <3>1. at'[d] = [step |-> "exit", msg |-> None, result |-> at[d].result]
      BY <1>1, <1>2, <1>3 DEF Places
    <3>2. ~(at'[d].step = "submit")
      BY <3>1
    <3>3. draining' = FALSE
      BY <3>2, <1>1, Zenon
    <3> QED BY <3>1, <3>3 DEF Submits
  <2>6. RowsDiffer' /\ HeldIsHead' /\ MarkIsSeen'
    BY <1>1, <1>3, <2>4, <2>5 DEF RowsDiffer, HeldIsHead, MarkIsSeen, Submits
  <2>7. \A e \in Drains : LooksAgain(e) => LooksAgain(e)'
    BY <1>1, <1>3, <2>4, <2>5 DEF LooksAgain
  <2>8. SomebodyLooks'
    BY <1>1, <1>3, <2>7 DEF SomebodyLooks, Active
  <2> QED BY <2>3, <2>6, <2>8
<1>4. CASE at[d].result = "local"
  <2>1. /\ entry' \in [Messages -> {"new", "enqueueing", "preparing", "queued", "turned", "gone"}]
        /\ queue' \in Seq(Messages)
        /\ {queue'[i] : i \in DOMAIN queue'} = {x \in Messages : entry'[x] = "queued"}
        /\ RowsDiffer'
        /\ queue # << >> /\ queue[1] # m => queue' # << >> /\ queue'[1] = queue[1]
    <3>1. CASE entry[m] = "queued"
      <4>1. entry' = [entry EXCEPT ![m] = "gone"] /\ queue' = Without(queue, m)
        BY <3>1, <1>1, <1>4
      <4> QED BY <4>1, <1>2, RowLeaves
    <3>2. CASE entry[m] # "queued"
      <4>1. ~\E i \in DOMAIN queue : queue[i] = m
        BY <3>2, <1>2 DEF TypeOK
      <4>2. queue' = queue /\ entry' = entry
        BY <3>2, <4>1, <1>1, <1>2, <1>4 DEF Without
      <4> QED BY <4>2, <1>2 DEF TypeOK, RowsDiffer
    <3> QED BY <3>1, <3>2
  <2>2. /\ at' = [at EXCEPT ![d] = Turn(Active, queue')]
        /\ Turn(Active, queue') = IF Active \/ queue' = << >> THEN [step |-> "exit", msg |-> None, result |-> "rejected"]
                                   ELSE [step |-> "submit", msg |-> queue'[1], result |-> "none"]
    BY <1>1, <1>4, <2>1 DEF Turn, Step
  <2>3. queue' # << >> => queue'[1] \in Messages /\ entry'[queue'[1]] = "queued"
    BY <2>1
  <2>4. at' \in Places /\ draining' \in BOOLEAN
    BY <1>1, <1>2, <2>2, <2>3 DEF Places
  <2>5. TypeOK'
    BY <1>1, <2>1, <2>4 DEF TypeOK, Places
  <2>6. /\ \A e \in Drains : e # d => at'[e] = at[e]
        /\ at'[d] = Turn(Active, queue')
    BY <1>2, <2>2 DEF Places
  <2>7. \A x \in Messages : entry[x] \in {"queued", "turned", "gone"} /\ x # m => entry'[x] = entry[x]
    BY <1>1, <1>2, <1>4
  <2>8. entry'[m] \in {"turned", "gone"} /\ (entry[m] # "queued" => entry'[m] = entry[m])
    BY <1>1, <1>2, <1>4
  <2>9. HeldIsHead'
    <3> SUFFICES ASSUME NEW e \in Drains, Submits(e)'
                 PROVE  /\ at'[e].msg \in Messages /\ entry'[at'[e].msg] \in {"queued", "turned", "gone"}
                        /\ entry'[at'[e].msg] = "queued" => queue' # << >> /\ queue'[1] = at'[e].msg
      BY DEF HeldIsHead
    <3>1. CASE e = d
      BY <3>1, <2>2, <2>3, <2>6 DEF Submits
    <3>2. CASE e # d
      BY <3>2, <2>1, <2>6, <2>7, <2>8 DEF HeldIsHead, Submits
    <3> QED BY <3>1, <3>2
  <2>10. MarkIsSeen'
    BY <1>1, <2>6 DEF MarkIsSeen, Submits
  <2>11. SomebodyLooks'
    <3> SUFFICES ASSUME ~Active, queue' # << >> PROVE LooksAgain(d)'
      BY <1>1 DEF SomebodyLooks, Active
    <3> QED BY <2>2, <2>3, <2>6 DEF LooksAgain
  <2> QED BY <2>1, <2>5, <2>9, <2>10, <2>11
<1> QED BY <1>3, <1>4

\* What becomes of a message before it is queued, and the row of a turn.
LEMMA UserKeeps ==
  ASSUME Inv, NEW m \in Messages, Submit(m) \/ SubmitRefused(m) \/ StartAtOnce(m)
  PROVE  Inv'
<1> USE OutboundAssumption DEF Inv, QueueInv
<1>1. PICK w \in {"enqueueing", "preparing", "turned", "gone"} :
        /\ entry[m] \in {"new", "preparing"}
        /\ entry' = [entry EXCEPT ![m] = w] /\ turn' \in {turn, "running"}
        /\ UNCHANGED <<queue, at, draining, suppressed, attempts, retries, stalled, crashes>>
  BY DEF Submit, SubmitRefused, StartAtOnce, volatile
<1>2. /\ entry' \in [Messages -> {"new", "enqueueing", "preparing", "queued", "turned", "gone"}]
      /\ {x \in Messages : entry'[x] = "queued"} = {x \in Messages : entry[x] = "queued"}
      /\ \A x \in Messages : entry[x] \in {"queued", "turned", "gone"} => entry'[x] = entry[x]
  BY <1>1 DEF TypeOK
<1>3. TypeOK'
  BY <1>1, <1>2 DEF TypeOK
<1>4. RowsDiffer' /\ HeldIsHead' /\ MarkIsSeen'
  BY <1>1, <1>2 DEF RowsDiffer, HeldIsHead, MarkIsSeen, Submits
<1>5. \A d \in Drains : LooksAgain(d) => LooksAgain(d)'
  BY <1>1, <1>2 DEF LooksAgain, HeldIsHead, Submits
<1>6. SomebodyLooks'
  BY <1>1, <1>5 DEF SomebodyLooks, Active
<1> QED BY <1>3, <1>4, <1>6

\* The row of a turn that ended is settled.
LEMMA SettleKeeps == ASSUME Inv, SettleRow PROVE Inv'
<1> USE OutboundAssumption DEF Inv, QueueInv
<1>1. /\ turn = "settling" /\ turn' = "none"
      /\ UNCHANGED <<entry, queue, at, draining, suppressed, attempts, retries, stalled, crashes>>
  BY DEF SettleRow, volatile
<1>2. TypeOK'
  BY <1>1 DEF TypeOK
<1>3. RowsDiffer' /\ HeldIsHead' /\ MarkIsSeen'
  BY <1>1 DEF RowsDiffer, HeldIsHead, MarkIsSeen, Submits
<1>4. SomebodyLooks'
  BY <1>1 DEF SomebodyLooks, Active, LooksAgain
<1> QED BY <1>2, <1>3, <1>4

\* A restart ends every drain, and tells that nobody looks at the queue.
LEMMA RestartKeeps == ASSUME Inv, Restart PROVE Inv'
<1> USE OutboundAssumption DEF Inv, QueueInv
<1>1. /\ crashes < MaxCrashes /\ crashes' = crashes + 1
      /\ entry' = [x \in Messages |-> IF entry[x] \in {"enqueueing", "preparing"} THEN "gone" ELSE entry[x]]
      /\ turn' = "none" /\ at' = [d \in Drains |-> Idle]
      /\ draining' = FALSE /\ suppressed' = FALSE /\ stalled' = TRUE
      /\ attempts' = 0 /\ retries' = 0 /\ queue' = queue
  BY DEF Restart
<1>2. /\ entry' \in [Messages -> {"new", "enqueueing", "preparing", "queued", "turned", "gone"}]
      /\ {x \in Messages : entry'[x] = "queued"} = {x \in Messages : entry[x] = "queued"}
  BY <1>1 DEF TypeOK
<1>3. at' \in Places /\ crashes' \in 0..MaxCrashes
  BY <1>1 DEF Places, Idle, Step, TypeOK
<1>4. draining' \in BOOLEAN /\ suppressed' \in BOOLEAN /\ stalled' \in BOOLEAN
  BY <1>1
<1>5. TypeOK'
  <2>1. attempts' \in 0..(MaxRetries + 1) /\ retries' \in Nat
    BY <1>1 DEF TypeOK
  <2> QED BY <1>1, <1>2, <1>3, <1>4, <2>1 DEF TypeOK, Places
<1>6. RowsDiffer' /\ HeldIsHead' /\ MarkIsSeen'
  BY <1>1 DEF RowsDiffer, HeldIsHead, MarkIsSeen, Submits, Idle, Step
<1>7. SomebodyLooks'
  BY <1>1 DEF SomebodyLooks
<1> QED BY <1>5, <1>6, <1>7

\* A message is put at the end of the queue, and the drainer is told.
LEMMA EnqueueKeeps == ASSUME Inv, NEW m \in Messages, Enqueue(m) PROVE Inv'
<1> USE OutboundAssumption DEF Inv, QueueInv
<1>1. /\ entry[m] \in {"enqueueing", "preparing"}
      /\ entry' = [entry EXCEPT ![m] = "queued"] /\ queue' = Append(queue, m)
      /\ Notify(at, queue')
      /\ UNCHANGED <<turn, crashes>>
  BY DEF Enqueue
<1>2. at \in Places /\ queue \in Seq(Messages) /\ \A i \in DOMAIN queue : queue[i] # m
  BY <1>1 DEF TypeOK, Places
<1>3. /\ queue' \in Seq(Messages) /\ DOMAIN queue' = 1..(Len(queue) + 1)
      /\ \A i \in 1..Len(queue) : queue'[i] = queue[i]
      /\ queue'[Len(queue) + 1] = m /\ DOMAIN queue = 1..Len(queue) /\ Len(queue) \in Nat
  BY <1>1, <1>2
<1>4. RowsDiffer'
  <2> SUFFICES ASSUME NEW i \in 1..(Len(queue) + 1), NEW j \in 1..(Len(queue) + 1), queue'[i] = queue'[j]
               PROVE  i = j
    BY <1>3 DEF RowsDiffer
  <2>1. CASE i = Len(queue) + 1 \/ j = Len(queue) + 1
    BY <2>1, <1>2, <1>3
  <2>2. CASE i \in 1..Len(queue) /\ j \in 1..Len(queue)
    BY <2>2, <1>3 DEF RowsDiffer
  <2> QED BY <2>1, <2>2, <1>3
<1>5. /\ entry' \in [Messages -> {"new", "enqueueing", "preparing", "queued", "turned", "gone"}]
      /\ {queue'[i] : i \in DOMAIN queue'} = {x \in Messages : entry'[x] = "queued"}
  <2>1. {queue'[i] : i \in DOMAIN queue'} = {queue[i] : i \in DOMAIN queue} \cup {m}
    BY <1>3
  <2>2. {x \in Messages : entry'[x] = "queued"} = {x \in Messages : entry[x] = "queued"} \cup {m}
    BY <1>1 DEF TypeOK
  <2> QED BY <2>1, <2>2, <1>1 DEF TypeOK
<1>6. \A x \in Messages : entry[x] \in {"queued", "turned", "gone"} => entry'[x] = entry[x]
  BY <1>1 DEF TypeOK
<1>7. queue # << >> => queue' # << >> /\ queue'[1] = queue[1]
  BY <1>2, <1>3
<1>8. CASE ~Active
  <2>1. Call(at, FALSE, queue') /\ stalled' = FALSE /\ UNCHANGED <<attempts, retries>>
    BY <1>1, <1>8 DEF Notify, Trigger
  <2>2. at' \in Places /\ draining' \in BOOLEAN /\ suppressed' \in BOOLEAN
    BY <2>1, <1>2, <1>3, CallFacts
  <2>3. TypeOK'
    <3>1. stalled' \in BOOLEAN
      BY <2>1
    <3> QED BY <1>1, <1>3, <1>5, <2>1, <2>2, <3>1 DEF TypeOK, Places
  <2> QED BY <1>2, <1>4, <1>6, <1>7, <2>1, <2>3, AfterCall
<1>9. CASE Active
  <2>1. at' = at /\ UNCHANGED <<draining, suppressed, attempts, retries, stalled>>
    BY <1>1, <1>9 DEF Notify
  <2>2. TypeOK'
    BY <1>1, <1>3, <1>5, <2>1 DEF TypeOK, Places
  <2>3. HeldIsHead' /\ MarkIsSeen'
    BY <1>1, <1>6, <1>7, <2>1 DEF HeldIsHead, MarkIsSeen, Submits
  <2>4. SomebodyLooks'
    BY <1>1, <1>9 DEF SomebodyLooks, Active
  <2> QED BY <1>4, <2>2, <2>3, <2>4
<1> QED BY <1>8, <1>9

\* Every step keeps the invariant.
LEMMA StepInv == Inv /\ [Next]_vars => Inv'
<1> SUFFICES ASSUME Inv, [Next]_vars PROVE Inv'
  OBVIOUS
<1>1. ASSUME NEW d \in Drains, DrainStep(d) PROVE Inv'
  <2>1. CASE Snapshot(d) \/ Refused(d) \/ Replayed(d) \/ NotClaimable(d)
    BY <2>1, StepKeeps
  <2>2. CASE Busy(d)
    BY <2>2, BusyKeeps
  <2>3. CASE Claim(d)
    BY <2>3, ClaimKeeps
  <2>4. CASE Back(d)
    BY <2>4, BackKeeps
  <2>5. CASE Exit(d)
    BY <2>5, ExitKeeps
  <2> QED BY <1>1, <2>1, <2>2, <2>3, <2>4, <2>5 DEF DrainStep
<1>2. ASSUME NEW m \in Messages, UserStep(m) PROVE Inv'
  BY <1>2, UserKeeps, EnqueueKeeps, DeleteKeeps DEF UserStep
<1>3. CASE UNCHANGED vars
  BY <1>3 DEF vars, volatile, Inv, QueueInv, TypeOK, RowsDiffer, HeldIsHead, MarkIsSeen, SomebodyLooks,
              Submits, LooksAgain, Active
<1> QED BY <1>1, <1>2, <1>3, RetryRunsKeeps, EndTurnKeeps, SettleKeeps, RestartKeeps DEF Next

\* The invariant holds in every state of the session.
LEMMA InvAlways == Spec => []Inv
<1> QED BY InitInv, StepInv, PTL DEF Spec

\* However triggers, drains, deletions and the ends of turns meet: while no turn
\* is active and messages are queued, a drain is under way or the drainer gave
\* up, for any number of messages, drains and retries.
THEOREM QueueNeverStranded == Spec => []NothingStranded
<1>1. Inv => NothingStranded
  BY DEF Inv, QueueInv, SomebodyLooks, NothingStranded, AtWork, LooksAgain, Idle, Step
<1> QED BY <1>1, InvAlways, PTL

\* The acceptor and the drainers keep the promise of the queue: one turn at a
\* time, one for a message, in the order of the queue.
THEOREM QueueKept == Spec => KeepsQueue
<1> DEFINE Settled == {m \in Messages : entry[m] \in {"turned", "gone"}}
<1>1. Init => Promise!PInit
  BY DEF Init, Promise!PInit, RowOpen
<1>2. ASSUME Inv, [Next]_vars PROVE [Promise!PNext]_(Promise!pvars)
  <2> USE <1>2 DEF Inv
  <2>1. /\ queue \in Seq(Messages) /\ entry \in [Messages -> {"new", "enqueueing", "preparing", "queued", "turned", "gone"}]
        /\ {queue[i] : i \in DOMAIN queue} = {m \in Messages : entry[m] = "queued"}
        /\ Promise!InQueue = {m \in Messages : entry[m] = "queued"}
    BY DEF TypeOK, Promise!InQueue
  <2>2. \A m \in Messages : entry[m] # "queued" => Promise!Without(queue, m) = queue
    BY <2>1 DEF Promise!Without
  <2>3. \A m : Promise!Without(queue, m) = Without(queue, m)
    BY DEF Promise!Without, Without
  <2>4. ASSUME UNCHANGED <<queue, entry, turn>> PROVE UNCHANGED Promise!pvars
    BY <2>4 DEF Promise!pvars, RowOpen
  <2>5. ASSUME NEW m \in Messages, entry[m] \notin {"turned", "gone"}, entry' = [entry EXCEPT ![m] = "gone"],
               queue' = Without(queue, m), turn' = turn
        PROVE  Promise!PNext
    <3>1. Promise!Drop(m)
      BY <2>1, <2>3, <2>5 DEF Promise!Drop, RowOpen
    <3> QED BY <3>1 DEF Promise!PNext
  <2>6. ASSUME NEW m \in Messages, entry[m] \in {"new", "enqueueing", "preparing"}, UNCHANGED <<queue, turn>>,
               NEW w \in {"enqueueing", "preparing", "gone"}, entry' = [entry EXCEPT ![m] = w]
        PROVE  [Promise!PNext]_(Promise!pvars)
    <3>1. CASE w = "gone"
      BY <3>1, <2>1, <2>2, <2>3, <2>5, <2>6
    <3>2. CASE w # "gone"
      <4>1. Settled' = Settled
        BY <3>2, <2>1, <2>6
      <4> QED BY <4>1, <2>6 DEF Promise!pvars, RowOpen
    <3> QED BY <3>1, <3>2
  <2>7. ASSUME NEW d \in Drains, DrainStep(d) PROVE [Promise!PNext]_(Promise!pvars)
    <3>1. CASE Snapshot(d) \/ Refused(d) \/ Replayed(d) \/ Busy(d) \/ NotClaimable(d) \/ Exit(d)
      BY <3>1, <2>4 DEF Snapshot, Refused, Replayed, Busy, NotClaimable, Exit
    <3>2. CASE Claim(d)
      <4> DEFINE m == at[d].msg
      <4>1. /\ Submits(d) /\ entry[m] = "queued" /\ ~RowOpen /\ entry' = [entry EXCEPT ![m] = "turned"]
            /\ queue' = Without(queue, m) /\ turn' = "running"
        BY <3>2 DEF Claim, Submits
      <4>2. m \in Messages /\ queue # << >> /\ queue[1] = m /\ \A i, j \in DOMAIN queue : queue[i] = queue[j] => i = j
        BY <4>1 DEF QueueInv, HeldIsHead, RowsDiffer
      <4> HIDE DEF m
      <4>3. Without(queue, m) = Tail(queue)
        BY <2>1, <4>2, WithoutFacts
      <4>4. Settled' = Settled \cup {m} /\ Head(queue) = m
        BY <2>1, <4>1, <4>2
      <4>5. Promise!StartNext
        BY <4>1, <4>2, <4>3, <4>4 DEF Promise!StartNext, RowOpen
      <4> QED BY <4>5 DEF Promise!PNext
    <3>3. CASE Back(d)
      <4> DEFINE m == at[d].msg
      <4>1. CASE at[d].result # "local"
        BY <3>3, <4>1, <2>4 DEF Back
      <4>2. CASE at[d].result = "local"
        <5>1. /\ Submits(d) /\ queue' = Without(queue, m) /\ turn' = turn
              /\ entry' = [entry EXCEPT ![m] = IF entry[m] = "queued" THEN "gone" ELSE entry[m]]
          BY <3>3, <4>2 DEF Back, Submits
        <5>2. m \in Messages
          BY <5>1 DEF QueueInv, HeldIsHead
        <5> HIDE DEF m
        <5>3. CASE entry[m] = "queued"
          BY <5>1, <5>2, <5>3, <2>5
        <5>4. CASE entry[m] # "queued"
          <6>1. entry' = entry /\ queue' = queue
            BY <5>1, <5>2, <5>4, <2>1, <2>2, <2>3
          <6> QED BY <6>1, <5>1, <2>4
        <5> QED BY <5>3, <5>4
      <4> QED BY <4>1, <4>2
    <3> QED BY <2>7, <3>1, <3>2, <3>3 DEF DrainStep
  <2>8. ASSUME NEW m \in Messages, UserStep(m) PROVE [Promise!PNext]_(Promise!pvars)
    <3>1. CASE Submit(m)
      BY <3>1, <2>6 DEF Submit
    <3>2. CASE SubmitRefused(m)
      BY <3>2, <2>6 DEF SubmitRefused
    <3>3. CASE Enqueue(m)
      <4>1. /\ entry[m] \in {"enqueueing", "preparing"} /\ entry' = [entry EXCEPT ![m] = "queued"]
            /\ queue' = Append(queue, m) /\ turn' = turn
        BY <3>3 DEF Enqueue
      <4>2. Settled' = Settled /\ m \notin Settled \cup Promise!InQueue
        BY <4>1, <2>1
      <4>3. Promise!Enqueue(m)
        BY <4>1, <4>2 DEF Promise!Enqueue, RowOpen
      <4> QED BY <4>3 DEF Promise!PNext
    <3>4. CASE StartAtOnce(m)
      <4>1. /\ entry[m] = "preparing" /\ ~RowOpen /\ entry' = [entry EXCEPT ![m] = "turned"]
            /\ turn' = "running" /\ queue' = queue
        BY <3>4 DEF StartAtOnce
      <4>2. Settled' = Settled \cup {m} /\ m \notin Settled \cup Promise!InQueue
        BY <4>1, <2>1
      <4>3. Promise!StartAtOnce(m)
        BY <4>1, <4>2 DEF Promise!StartAtOnce, RowOpen
      <4> QED BY <4>3 DEF Promise!PNext
    <3>5. CASE Delete(m)
      BY <3>5, <2>5 DEF Delete
    <3> QED BY <2>8, <3>1, <3>2, <3>3, <3>4, <3>5 DEF UserStep
  <2>9. ASSUME EndTurn \/ SettleRow PROVE Promise!PNext
    <3>1. RowOpen /\ UNCHANGED <<entry, queue>>
      BY <2>9 DEF EndTurn, SettleRow, RowOpen
    <3>2. Promise!End({})
      <4>1. RowOpen' \in {RowOpen, FALSE}
        BY <3>1 DEF RowOpen
      <4> QED BY <3>1, <4>1 DEF Promise!End
    <3> QED BY <3>2 DEF Promise!PNext
  <2>10. ASSUME Restart PROVE Promise!PNext
    <3> DEFINE lost == {m \in Messages : entry[m] \in {"enqueueing", "preparing"}}
    <3>1. /\ entry' = [m \in Messages |-> IF entry[m] \in {"enqueueing", "preparing"} THEN "gone" ELSE entry[m]]
          /\ turn' = "none" /\ queue' = queue
      BY <2>10 DEF Restart
    <3>2. Settled' = Settled \cup lost /\ lost \in SUBSET (Messages \ Promise!InQueue)
      BY <3>1, <2>1
    <3>3. RowOpen' \in {RowOpen, FALSE}
      <4>1. ~RowOpen'
        BY <3>1 DEF RowOpen
      <4>2. RowOpen' \in BOOLEAN
        BY DEF RowOpen
      <4> QED BY <4>1, <4>2
    <3>4. PICK l \in SUBSET (Messages \ Promise!InQueue) : l = lost
      BY <3>2
    <3>5. Promise!End(l)
      BY <3>1, <3>2, <3>3, <3>4 DEF Promise!End
    <3> QED BY <3>5 DEF Promise!PNext
  <2>11. CASE RetryRuns
    BY <2>11, <2>4 DEF RetryRuns
  <2>12. CASE UNCHANGED vars
    BY <2>12, <2>4 DEF vars
  <2> QED BY <2>7, <2>8, <2>9, <2>10, <2>11, <2>12 DEF Next
<1> QED BY <1>1, <1>2, InvAlways, PTL DEF Spec, KeepsQueue, Promise!PSpec
=============================================================================
