-------------------------- MODULE ToolRoundProofs --------------------------
(***************************************************************************)
(* Proofs about ToolRound for any number of calls, workers, slots, permits *)
(* and answers. A step of a call changes only what that call holds, but    *)
(* for the permit it may hand on (CallDone); so most of the invariant is   *)
(* an account of single calls by their place in the code (HoldsAt, LogAt), *)
(* and the rest counts workers, slots and permits.                         *)
(***************************************************************************)
EXTENDS ToolRound, FiniteSetTheorems, WellFoundedInduction, TLAPS

USE RoundAssumption

Places == {"new", "barred", "claimed", "slot", "check", "refresh", "permit", "asked", "lease",
           "final", "recheck", "confirmed", "dispatch", "started", "running", "finish",
           "ended", "settled"}
Events == {"started", "finished", "not-dispatched", "deferred"}
DispatchStates == {"pending", "not-dispatched", "started", "finished"}
Gone == {"ended", "settled"}
Dispatched == {"started", "running", "finish"}

Typed ==
  /\ state \in {"running", "draining", "stopped"} /\ claimed \in 0..CallCount
  /\ looping \in Nat /\ waiting \in Nat
  /\ pc \in [Calls -> Places] /\ attempts \in [Calls -> 0..MaxAttempts]
  /\ outcome \in [Calls -> Outcomes]
  /\ dispatchState \in [Calls -> DispatchStates]
  /\ slots \subseteq Calls /\ permits \subseteq Calls /\ leases \subseteq Calls
  /\ permitQueue \in Seq(Calls) /\ record \in [Calls -> Seq(Events)] /\ approvals \subseteq Calls
  /\ parkRequested \in BOOLEAN /\ aborted \in BOOLEAN
  /\ executing \subseteq ran /\ ran \subseteq Calls
  /\ round \in {"tools", "settled", "caught", "over"} /\ failure \in Outcomes
  /\ terminal \in {"none", "completed", "failed", "interrupted", "parked"}

\* What a call holds at its place: its lease from TakeLease to the end of its
\* executor, its slot until it ends, an approval only while it is asked.
HoldsAt(c) ==
  /\ pc[c] \in {"final", "recheck", "confirmed", "dispatch", "started"} => c \in leases
  /\ pc[c] = "running" => c \in executing
  /\ c \in executing => c \in leases /\ pc[c] \in {"running"} \cup Gone
  /\ c \in leases \ executing =>
       pc[c] \in {"final", "recheck", "permit", "asked", "confirmed", "dispatch", "started"}
  /\ c \in slots => pc[c] \notin {"new", "barred", "claimed", "slot"} \cup Gone
  /\ c \in approvals /\ "bad-checkpoint" \notin Inputs => pc[c] = "asked"

LastOf(r) == r[Len(r)]
HasIn(r, event) == \E i \in DOMAIN r : r[i] = event
Untouched(c) == dispatchState[c] = "pending" /\ outcome[c] = "none"

\* dispatchState is what the last event of the call says, and the outcome of a
\* call that has ended fits it.
LogAt(c) ==
  /\ record[c] = << >> => dispatchState[c] = "pending"
  /\ dispatchState[c] = "started" <=> record[c] # << >> /\ LastOf(record[c]) = "started"
  /\ pc[c] \in Dispatched => dispatchState[c] = "started" /\ outcome[c] = "none"
  /\ pc[c] \notin {"new"} \cup Dispatched \cup Gone => Untouched(c)
  /\ pc[c] \in Gone => outcome[c] # "none"
  /\ outcome[c] \in {"fulfilled", "denied"} => dispatchState[c] \in {"not-dispatched", "finished"}
  /\ outcome[c] \in {"unknown", "revoked"} => dispatchState[c] = "started"
  /\ HasIn(record[c], "deferred") => pc[c] \in Gone /\ outcome[c] \in {"parked", "cancelled"}

\* What a call that has ended, or that nobody claimed, may leave open.
LeftAt(c) ==
  /\ pc[c] = "new" => IF round = "tools" THEN Untouched(c) /\ record[c] = << >>
                      ELSE dispatchState[c] # "started"
  /\ dispatchState[c] = "started" /\ pc[c] \in Gone =>
       outcome[c] \in {"unrecorded"} \cup IF round = "tools" THEN {"unknown", "revoked"} ELSE {}

\* Workers loop, wait, or stand at a call; calls are claimed in order.
Workforce ==
  /\ looping + waiting + Cardinality(InFlight(pc)) <= Workers
  /\ \A c \in Calls : pc[c] = "new" <=> c > claimed
  /\ round # "tools" => looping = 0 /\ waiting = 0 /\ InFlight(pc) = {}

LeasesApart == \A c, d \in leases : c # d => <<c, d>> \notin Clash /\ <<d, c>> \notin Clash

\* A permit is held from its grant to the answer or the end of the call; those in
\* the queue stand at the semaphore, and only full permits make a queue.
PermitPlaces == {"permit", "asked", "confirmed", "final", "recheck", "dispatch"} \cup Dispatched
PermitsCounted ==
  /\ Cardinality(permits) <= ApprovalSlots
  /\ permitQueue # << >> => Cardinality(permits) = ApprovalSlots
  /\ aborted => permitQueue = << >>
  /\ \A c \in permits : pc[c] \in PermitPlaces
  /\ \A i \in DOMAIN permitQueue :
       /\ pc[permitQueue[i]] = "permit" /\ permitQueue[i] \notin permits
       /\ \A j \in DOMAIN permitQueue : permitQueue[i] = permitQueue[j] => i = j

RoundInv ==
  /\ Typed /\ Workforce /\ LeasesApart /\ Cardinality(slots) <= CandidateSlots /\ PermitsCounted
  /\ \A c \in Calls : HoldsAt(c) /\ LogAt(c) /\ LeftAt(c)
-----------------------------------------------------------------------------
(* Events of a call.                                                       *)

\* Appending an event makes it the last, and adds it to those there are.
LEMMA Appended ==
  ASSUME NEW r \in Seq(Events), NEW event \in Events
  PROVE  /\ Append(r, event) \in Seq(Events) /\ Append(r, event) # << >>
         /\ LastOf(Append(r, event)) = event
         /\ \A x : HasIn(Append(r, event), x) <=> HasIn(r, x) \/ x = event
<1>1. Append(r, event) \in Seq(Events) /\ Len(Append(r, event)) = Len(r) + 1
  OBVIOUS
<1>2. LastOf(Append(r, event)) = event /\ Append(r, event) # << >>
  BY DEF LastOf
<1>3. ASSUME NEW x PROVE HasIn(Append(r, event), x) <=> HasIn(r, x) \/ x = event
  <2>1. \A i \in 1..Len(r) : Append(r, event)[i] = r[i]
    OBVIOUS
  <2>2. Append(r, event)[Len(r) + 1] = event
    OBVIOUS
  <2>3. DOMAIN r = 1..Len(r) /\ DOMAIN Append(r, event) = 1..(Len(r) + 1) /\ Len(r) \in Nat
    OBVIOUS
  <2> QED BY <2>1, <2>2, <2>3 DEF HasIn
<1> QED BY <1>1, <1>2, <1>3

\* Log writes one event of one call.
Noted(c, event, s) ==
  /\ record' \in [Calls -> Seq(Events)] /\ dispatchState' \in [Calls -> DispatchStates]
  /\ record'[c] = Append(record[c], event) /\ record'[c] # << >> /\ LastOf(record'[c]) = event
  /\ \A x : HasIn(record'[c], x) <=> HasIn(record[c], x) \/ x = event
  /\ dispatchState'[c] = s
  /\ \A d \in Calls \ {c} : record'[d] = record[d] /\ dispatchState'[d] = dispatchState[d]

\* What Log writes, as Noted says it.
LEMMA Logged ==
  ASSUME Typed, NEW c \in Calls, NEW event \in Events, NEW s \in DispatchStates, Log(c, event, s)
  PROVE  Noted(c, event, s)
<1>1. record[c] \in Seq(Events)
  BY DEF Typed
<1>2. record' = [record EXCEPT ![c] = Append(record[c], event)]
  BY DEF Log
<1>3. Append(record[c], event) \in Seq(Events)
  BY <1>1, Appended
<1>4. record' \in [Calls -> Seq(Events)] /\ record'[c] = Append(record[c], event)
  BY <1>2, <1>3 DEF Typed
<1>5. dispatchState' \in [Calls -> DispatchStates] /\ dispatchState'[c] = s
  BY DEF Log, Typed
<1>6. \A d \in Calls \ {c} : record'[d] = record[d] /\ dispatchState'[d] = dispatchState[d]
  BY DEF Log, Typed
<1>7. /\ record'[c] # << >> /\ LastOf(record'[c]) = event
      /\ \A x : HasIn(record'[c], x) <=> HasIn(record[c], x) \/ x = event
  BY <1>1, <1>4, Appended
<1> QED BY <1>4, <1>5, <1>6, <1>7 DEF Noted
-----------------------------------------------------------------------------
(* A step of a call.                                                       *)

\* Nothing of the other calls changes, but for the permits and their queue.
CallDone(c) ==
  /\ pc' \in [Calls -> Places] /\ attempts' \in [Calls -> 0..MaxAttempts]
  /\ outcome' \in [Calls -> Outcomes] /\ dispatchState' \in [Calls -> DispatchStates]
  /\ slots' \subseteq Calls /\ leases' \subseteq Calls /\ record' \in [Calls -> Seq(Events)]
  /\ approvals' \subseteq Calls /\ parkRequested' \in BOOLEAN
  /\ executing' \subseteq ran' /\ ran' \subseteq Calls
  /\ \A d \in Calls \ {c} :
       /\ pc'[d] = pc[d] /\ outcome'[d] = outcome[d]
       /\ record'[d] = record[d] /\ dispatchState'[d] = dispatchState[d]
       /\ d \in slots' <=> d \in slots
       /\ d \in leases' <=> d \in leases
       /\ d \in approvals' <=> d \in approvals
       /\ d \in executing' <=> d \in executing
       /\ d \in ran' <=> d \in ran
  /\ pc[c] \notin {"new"} \cup Gone /\ pc'[c] \notin {"new", "settled"}

SlotMove(c) == slots' \subseteq slots \/ (Cardinality(slots) < CandidateSlots /\ slots' = slots \cup {c})

LeaseMove(c) ==
  \/ leases' \subseteq leases
  \/ /\ leases' = leases \cup {c}
     /\ \A d \in leases : <<c, d>> \notin Clash /\ <<d, c>> \notin Clash

\* What a step of the call does to the permits.
PermitMove(c) ==
  \/ /\ UNCHANGED permit /\ (pc[c] = "permit" => c \in permits)
     /\ c \in permits /\ pc[c] \in PermitPlaces => pc'[c] \in PermitPlaces
  \/ GivePermit(c) /\ (pc[c] = "permit" => c \in permits \/ aborted)
  \/ TakePermit(c)

\* Which event it writes.
LogMove(c) ==
  \/ UNCHANGED log
  \/ Untouched(c) /\ pc[c] \notin Dispatched /\ Mark(c) /\ pc'[c] = "ended"
  \/ Untouched(c) /\ pc[c] = "asked" /\ Log(c, "deferred", "finished") /\ pc'[c] = "ended" /\ "deferred" \in Inputs
  \/ Untouched(c) /\ pc[c] = "dispatch" /\ Log(c, "started", "started") /\ pc'[c] = "started"
  \/ pc[c] = "started" /\ Mark(c) /\ pc'[c] = "ended"
  \/ pc[c] = "started" /\ Log(c, "not-dispatched", "pending") /\ "late-stale" \in Inputs
  \/ pc[c] = "finish" /\ Log(c, "finished", "finished") /\ pc'[c] = "ended"

RanMove(c) ==
  \/ UNCHANGED ran /\ (pc[c] \notin Dispatched => pc'[c] \notin {"running", "finish"}) /\ (pc[c] \in {"running", "finish"} => pc'[c] \in {"finish", "ended"})
  \/ pc[c] = "started" /\ UNCHANGED log /\ ran' = ran \cup {c} /\ pc'[c] = "running"

Moves(c) == SlotMove(c) /\ LeaseMove(c) /\ PermitMove(c) /\ LogMove(c) /\ RanMove(c)
Local(c) == HoldsAt(c) /\ LogAt(c) /\ LeftAt(c)

\* Every step of a call leaves the others alone, moves its own slot, lease and
\* permit, and keeps the account of what it holds and of what History says.
LEMMA CallKeeps ==
  ASSUME Typed, NEW c \in Calls, Local(c), CallStep(c), round = "tools"
  PROVE  CallDone(c) /\ Moves(c) /\ Local(c)'
<1> USE DEF Local, Gone, Dispatched, Places, Outcomes, sched, slot, permit, log, tools, ending
<1>0. UNCHANGED <<sched, aborted, ending>>
  BY DEF CallStep
<1>1. CASE Barred(c)
  <2>1. CallDone(c)
    BY <1>0, <1>1 DEF Barred, End, GiveSlot, Typed, CallDone, HoldsAt, LogAt
  <2>2. Moves(c)
    BY <1>0, <1>1 DEF Barred, End, GiveSlot, Typed, Moves, SlotMove, LeaseMove,
        PermitMove, PermitPlaces, LogMove, RanMove, HoldsAt, LogAt
  <2>3. HoldsAt(c)'
    BY <1>0, <1>1 DEF Barred, End, GiveSlot, Typed, HoldsAt
  <2>4. LogAt(c)' /\ LeftAt(c)'
    BY <1>0, <1>1 DEF Barred, End, GiveSlot, Typed, HoldsAt, LogAt, LeftAt, Untouched
  <2> QED BY <2>1, <2>2, <2>3, <2>4
<1>2. CASE TurnAway(c)
  <2>0. Noted(c, "not-dispatched", "not-dispatched")
    BY <1>2, Logged DEF TurnAway, Mark, Events, DispatchStates
  <2>1. CallDone(c)
    BY <1>0, <1>2, <2>0 DEF TurnAway, End, GiveSlot, Noted, Typed, CallDone, HoldsAt, LogAt
  <2>2. Moves(c)
    BY <1>0, <1>2 DEF TurnAway, End, GiveSlot, Typed, Moves, SlotMove, LeaseMove,
        PermitMove, PermitPlaces, LogMove, RanMove, HoldsAt, LogAt
  <2>3. HoldsAt(c)'
    BY <1>0, <1>2 DEF TurnAway, End, GiveSlot, Typed, HoldsAt
  <2>4. LogAt(c)' /\ LeftAt(c)'
    BY <1>0, <1>2, <2>0 DEF TurnAway, End, GiveSlot, Noted, Typed, HoldsAt, LogAt, LeftAt, Untouched
  <2> QED BY <2>1, <2>2, <2>3, <2>4
<1>3. CASE Admit(c)
  <2>1. CallDone(c)
    BY <1>0, <1>3 DEF Admit, Goto, Typed, CallDone, HoldsAt, LogAt
  <2>2. Moves(c)
    BY <1>0, <1>3 DEF Admit, Goto, Typed, Moves, SlotMove, LeaseMove,
        PermitMove, PermitPlaces, LogMove, RanMove, HoldsAt, LogAt
  <2>3. HoldsAt(c)'
    BY <1>0, <1>3 DEF Admit, Goto, Typed, HoldsAt
  <2>4. LogAt(c)' /\ LeftAt(c)'
    BY <1>0, <1>3 DEF Admit, Goto, Typed, HoldsAt, LogAt, LeftAt, Untouched
  <2> QED BY <2>1, <2>2, <2>3, <2>4
<1>4. CASE TakeSlot(c)
  <2>1. CallDone(c)
    BY <1>0, <1>4 DEF TakeSlot, Goto, Typed, CallDone, HoldsAt, LogAt
  <2>2. Moves(c)
    BY <1>0, <1>4 DEF TakeSlot, Goto, Typed, Moves, SlotMove, LeaseMove,
        PermitMove, PermitPlaces, LogMove, RanMove, HoldsAt, LogAt
  <2>3. HoldsAt(c)'
    BY <1>0, <1>4 DEF TakeSlot, Goto, Typed, HoldsAt
  <2>4. LogAt(c)' /\ LeftAt(c)'
    BY <1>0, <1>4 DEF TakeSlot, Goto, Typed, HoldsAt, LogAt, LeftAt, Untouched
  <2> QED BY <2>1, <2>2, <2>3, <2>4
<1>5. CASE Cancelled(c)
  <2>1. CallDone(c)
    BY <1>0, <1>5 DEF Cancelled, End, GiveSlot, Typed, CallDone, HoldsAt, LogAt
  <2>2. Moves(c)
    BY <1>0, <1>5 DEF Cancelled, End, GiveSlot, Typed, Moves, SlotMove, LeaseMove,
        PermitMove, PermitPlaces, LogMove, RanMove, HoldsAt, LogAt
  <2>3. HoldsAt(c)'
    BY <1>0, <1>5 DEF Cancelled, End, GiveSlot, Typed, HoldsAt
  <2>4. LogAt(c)' /\ LeftAt(c)'
    BY <1>0, <1>5 DEF Cancelled, End, GiveSlot, Typed, HoldsAt, LogAt, LeftAt, Untouched
  <2> QED BY <2>1, <2>2, <2>3, <2>4
<1>6. CASE Deny(c)
  <2>0. Noted(c, "not-dispatched", "not-dispatched")
    BY <1>6, Logged DEF Deny, Mark, Events, DispatchStates
  <2>1. CallDone(c)
    BY <1>0, <1>6, <2>0 DEF Deny, End, GiveSlot, Caught, Noted, Typed, CallDone, HoldsAt, LogAt
  <2>2. Moves(c)
    BY <1>0, <1>6 DEF Deny, End, GiveSlot, Caught, Typed, Moves, SlotMove, LeaseMove,
        PermitMove, PermitPlaces, LogMove, RanMove, HoldsAt, LogAt
  <2>3. HoldsAt(c)'
    BY <1>0, <1>6 DEF Deny, End, GiveSlot, Caught, Typed, HoldsAt
  <2>4. LogAt(c)' /\ LeftAt(c)'
    BY <1>0, <1>6, <2>0 DEF Deny, End, GiveSlot, Caught, Noted, Typed, HoldsAt, LogAt, LeftAt, Untouched
  <2> QED BY <2>1, <2>2, <2>3, <2>4
<1>7. CASE PrepareFails(c)
  <2>1. CallDone(c)
    BY <1>0, <1>7 DEF PrepareFails, End, GiveSlot, Typed, CallDone, HoldsAt, LogAt
  <2>2. Moves(c)
    BY <1>0, <1>7 DEF PrepareFails, End, GiveSlot, Typed, Moves, SlotMove, LeaseMove,
        PermitMove, PermitPlaces, LogMove, RanMove, HoldsAt, LogAt
  <2>3. HoldsAt(c)'
    BY <1>0, <1>7 DEF PrepareFails, End, GiveSlot, Typed, HoldsAt
  <2>4. LogAt(c)' /\ LeftAt(c)'
    BY <1>0, <1>7 DEF PrepareFails, End, GiveSlot, Typed, HoldsAt, LogAt, LeftAt, Untouched
  <2> QED BY <2>1, <2>2, <2>3, <2>4
<1>8. CASE Allow(c)
  <2>1. CallDone(c)
    BY <1>0, <1>8 DEF Allow, Goto, Typed, CallDone, HoldsAt, LogAt
  <2>2. Moves(c)
    BY <1>0, <1>8 DEF Allow, Goto, Typed, Moves, SlotMove, LeaseMove,
        PermitMove, PermitPlaces, LogMove, RanMove, HoldsAt, LogAt
  <2>3. HoldsAt(c)'
    BY <1>0, <1>8 DEF Allow, Goto, Typed, HoldsAt
  <2>4. LogAt(c)' /\ LeftAt(c)'
    BY <1>0, <1>8 DEF Allow, Goto, Typed, HoldsAt, LogAt, LeftAt, Untouched
  <2> QED BY <2>1, <2>2, <2>3, <2>4
<1>9. CASE AskFor(c)
  <2>1. CallDone(c)
    BY <1>0, <1>9 DEF AskFor, Goto, Typed, CallDone, HoldsAt, LogAt
  <2>2. Moves(c)
    BY <1>0, <1>9 DEF AskFor, Goto, Typed, Moves, SlotMove, LeaseMove,
        PermitMove, PermitPlaces, LogMove, RanMove, HoldsAt, LogAt
  <2>3. HoldsAt(c)'
    BY <1>0, <1>9 DEF AskFor, Goto, Typed, HoldsAt
  <2>4. LogAt(c)' /\ LeftAt(c)'
    BY <1>0, <1>9 DEF AskFor, Goto, Typed, HoldsAt, LogAt, LeftAt, Untouched
  <2> QED BY <2>1, <2>2, <2>3, <2>4
<1>10. CASE TakePermit(c)
  <2>1. CallDone(c)
    BY <1>0, <1>10 DEF TakePermit, Typed, CallDone, HoldsAt, LogAt
  <2>2. Moves(c)
    BY <1>0, <1>10 DEF TakePermit, Typed, Moves, SlotMove, LeaseMove,
        PermitMove, PermitPlaces, LogMove, RanMove, HoldsAt, LogAt
  <2>3. HoldsAt(c)'
    BY <1>0, <1>10 DEF TakePermit, Typed, HoldsAt
  <2>4. LogAt(c)' /\ LeftAt(c)'
    BY <1>0, <1>10 DEF TakePermit, Typed, HoldsAt, LogAt, LeftAt, Untouched
  <2> QED BY <2>1, <2>2, <2>3, <2>4
<1>11. CASE PermitAborted(c)
  <2>0. Noted(c, "not-dispatched", "not-dispatched")
    BY <1>11, Logged DEF PermitAborted, Mark, Events, DispatchStates
  <2>1. CallDone(c)
    BY <1>0, <1>11, <2>0 DEF PermitAborted, End, GiveSlot, Caught, Noted, Typed, CallDone, HoldsAt, LogAt
  <2>2. Moves(c)
    BY <1>0, <1>11 DEF PermitAborted, End, GiveSlot, Caught, Typed, Moves, SlotMove, LeaseMove,
        PermitMove, PermitPlaces, LogMove, RanMove, HoldsAt, LogAt
  <2>3. HoldsAt(c)'
    BY <1>0, <1>11 DEF PermitAborted, End, GiveSlot, Caught, Typed, HoldsAt
  <2>4. LogAt(c)' /\ LeftAt(c)'
    BY <1>0, <1>11, <2>0 DEF PermitAborted, End, GiveSlot, Caught, Noted, Typed, HoldsAt, LogAt, LeftAt, Untouched
  <2> QED BY <2>1, <2>2, <2>3, <2>4
<1>12. CASE AppendWaiting(c)
  <2>1. CallDone(c)
    BY <1>0, <1>12 DEF AppendWaiting, Goto, Typed, CallDone, HoldsAt, LogAt
  <2>2. Moves(c)
    BY <1>0, <1>12 DEF AppendWaiting, Goto, Typed, Moves, SlotMove, LeaseMove,
        PermitMove, PermitPlaces, LogMove, RanMove, HoldsAt, LogAt
  <2>3. HoldsAt(c)'
    BY <1>0, <1>12 DEF AppendWaiting, Goto, Typed, HoldsAt
  <2>4. LogAt(c)' /\ LeftAt(c)'
    BY <1>0, <1>12 DEF AppendWaiting, Goto, Typed, HoldsAt, LogAt, LeftAt, Untouched
  <2> QED BY <2>1, <2>2, <2>3, <2>4
<1>13. CASE TakeLease(c)
  <2>1. CallDone(c)
    BY <1>0, <1>13 DEF TakeLease, Goto, Typed, CallDone, HoldsAt, LogAt
  <2>2. Moves(c)
    BY <1>0, <1>13 DEF TakeLease, Goto, Typed, Moves, SlotMove, LeaseMove,
        PermitMove, PermitPlaces, LogMove, RanMove, HoldsAt, LogAt
  <2>3. HoldsAt(c)'
    BY <1>0, <1>13 DEF TakeLease, Goto, Typed, HoldsAt
  <2>4. LogAt(c)' /\ LeftAt(c)'
    BY <1>0, <1>13 DEF TakeLease, Goto, Typed, HoldsAt, LogAt, LeftAt, Untouched
  <2> QED BY <2>1, <2>2, <2>3, <2>4
<1>14. CASE NextAttempt(c)
  <2>1. CallDone(c)
    BY <1>0, <1>14 DEF NextAttempt, Goto, Typed, CallDone, HoldsAt, LogAt
  <2>2. Moves(c)
    BY <1>0, <1>14 DEF NextAttempt, Goto, Typed, Moves, SlotMove, LeaseMove,
        PermitMove, PermitPlaces, LogMove, RanMove, HoldsAt, LogAt
  <2>3. HoldsAt(c)'
    BY <1>0, <1>14 DEF NextAttempt, Goto, Typed, HoldsAt
  <2>4. LogAt(c)' /\ LeftAt(c)'
    BY <1>0, <1>14 DEF NextAttempt, Goto, Typed, HoldsAt, LogAt, LeftAt, Untouched
  <2> QED BY <2>1, <2>2, <2>3, <2>4
<1>15. CASE AttemptsExhausted(c)
  <2>0. Noted(c, "not-dispatched", "not-dispatched")
    BY <1>15, Logged DEF AttemptsExhausted, Mark, Events, DispatchStates
  <2>1. CallDone(c)
    BY <1>0, <1>15, <2>0 DEF AttemptsExhausted, End, GiveSlot, Caught, Noted, Typed, CallDone, HoldsAt, LogAt
  <2>2. Moves(c)
    BY <1>0, <1>15 DEF AttemptsExhausted, End, GiveSlot, Caught, Typed, Moves, SlotMove, LeaseMove,
        PermitMove, PermitPlaces, LogMove, RanMove, HoldsAt, LogAt
  <2>3. HoldsAt(c)'
    BY <1>0, <1>15 DEF AttemptsExhausted, End, GiveSlot, Caught, Typed, HoldsAt
  <2>4. LogAt(c)' /\ LeftAt(c)'
    BY <1>0, <1>15, <2>0 DEF AttemptsExhausted, End, GiveSlot, Caught, Noted, Typed, HoldsAt, LogAt, LeftAt, Untouched
  <2> QED BY <2>1, <2>2, <2>3, <2>4
<1>16. CASE Authorize(c)
  <2>1. CallDone(c)
    BY <1>0, <1>16 DEF Authorize, Goto, Typed, CallDone, HoldsAt, LogAt
  <2>2. Moves(c)
    BY <1>0, <1>16 DEF Authorize, Goto, Typed, Moves, SlotMove, LeaseMove,
        PermitMove, PermitPlaces, LogMove, RanMove, HoldsAt, LogAt
  <2>3. HoldsAt(c)'
    BY <1>0, <1>16 DEF Authorize, Goto, Typed, HoldsAt
  <2>4. LogAt(c)' /\ LeftAt(c)'
    BY <1>0, <1>16 DEF Authorize, Goto, Typed, HoldsAt, LogAt, LeftAt, Untouched
  <2> QED BY <2>1, <2>2, <2>3, <2>4
<1>17. CASE AppendStarted(c)
  <2>0. Noted(c, "started", "started")
    BY <1>17, Logged DEF AppendStarted, Events, DispatchStates
  <2>1. CallDone(c)
    BY <1>0, <1>17, <2>0 DEF AppendStarted, Goto, Noted, Typed, CallDone, HoldsAt, LogAt
  <2>2. Moves(c)
    BY <1>0, <1>17 DEF AppendStarted, Goto, Typed, Moves, SlotMove, LeaseMove,
        PermitMove, PermitPlaces, LogMove, RanMove, HoldsAt, LogAt
  <2>3. HoldsAt(c)'
    BY <1>0, <1>17 DEF AppendStarted, Goto, Typed, HoldsAt
  <2>4. LogAt(c)' /\ LeftAt(c)'
    BY <1>0, <1>17, <2>0 DEF AppendStarted, Goto, Noted, Typed, HoldsAt, LogAt, LeftAt, Untouched
  <2> QED BY <2>1, <2>2, <2>3, <2>4
<1>18. CASE StartFails(c)
  <2>1. CallDone(c)
    BY <1>0, <1>18 DEF StartFails, End, GiveSlot, Caught, Typed, CallDone, HoldsAt, LogAt
  <2>2. Moves(c)
    BY <1>0, <1>18 DEF StartFails, End, GiveSlot, Caught, Typed, Moves, SlotMove, LeaseMove,
        PermitMove, PermitPlaces, LogMove, RanMove, HoldsAt, LogAt
  <2>3. HoldsAt(c)'
    BY <1>0, <1>18 DEF StartFails, End, GiveSlot, Caught, Typed, HoldsAt
  <2>4. LogAt(c)' /\ LeftAt(c)'
    BY <1>0, <1>18 DEF StartFails, End, GiveSlot, Caught, Typed, HoldsAt, LogAt, LeftAt, Untouched
  <2> QED BY <2>1, <2>2, <2>3, <2>4
<1>19. CASE DispatchRefused(c)
  <2>0. Noted(c, "not-dispatched", "not-dispatched")
    BY <1>19, Logged DEF DispatchRefused, Mark, Events, DispatchStates
  <2>e. PICK what \in {"cancelled", "denied", "fulfilled"} : End(c, what)
    BY <1>19 DEF DispatchRefused
  <2>d. /\ pc[c] \in {"dispatch", "started"} /\ Mark(c)
        /\ UNCHANGED <<attempts, approvals, parkRequested, executing, ran>>
    BY <1>19 DEF DispatchRefused
  <2>1. CallDone(c)
    BY <1>0, <2>d, <2>e, <2>0 DEF End, GiveSlot, Noted, Typed, CallDone, HoldsAt, LogAt
  <2>2. Moves(c)
    BY <1>0, <2>d, <2>e DEF End, GiveSlot, Typed, Moves, SlotMove, LeaseMove,
        PermitMove, PermitPlaces, LogMove, RanMove, HoldsAt, LogAt
  <2>3. HoldsAt(c)'
    BY <1>0, <2>d, <2>e DEF End, GiveSlot, Typed, HoldsAt
  <2>4. LogAt(c)' /\ LeftAt(c)'
    BY <1>0, <2>d, <2>e, <2>0 DEF End, GiveSlot, Noted, Typed, HoldsAt, LogAt, LeftAt, Untouched
  <2> QED BY <2>1, <2>2, <2>3, <2>4
<1>20. CASE DispatchStale(c)
  <2>1. CASE pc[c] = "started"
    <3>1. Log(c, "not-dispatched", "pending")
      BY <1>20, <2>1 DEF DispatchStale
    <3>2. Noted(c, "not-dispatched", "pending")
      BY <3>1, Logged DEF Events, DispatchStates
    <3>3. CallDone(c)
      BY <1>0, <1>20, <2>1, <3>2 DEF DispatchStale, Goto, Noted, Typed, CallDone
    <3>4. Moves(c)
      BY <1>0, <1>20, <2>1, <3>1 DEF DispatchStale, Goto, Typed, Moves, SlotMove, LeaseMove,
          PermitMove, PermitPlaces, LogMove, RanMove, HoldsAt
    <3>5. HoldsAt(c)' /\ LogAt(c)' /\ LeftAt(c)'
      BY <1>0, <1>20, <2>1, <3>2 DEF DispatchStale, Goto, Noted, Typed, HoldsAt, LogAt, LeftAt, Untouched
    <3> QED BY <3>3, <3>4, <3>5
  <2>2. CASE pc[c] # "started"
    <3>1. UNCHANGED log
      BY <1>20, <2>2 DEF DispatchStale
    <3>2. CallDone(c)
      BY <1>0, <1>20, <2>2, <3>1 DEF DispatchStale, Goto, Typed, CallDone
    <3>3. Moves(c)
      BY <1>0, <1>20, <2>2, <3>1 DEF DispatchStale, Goto, Typed, Moves, SlotMove, LeaseMove,
          PermitMove, PermitPlaces, LogMove, RanMove, HoldsAt
    <3>4. HoldsAt(c)' /\ LogAt(c)' /\ LeftAt(c)'
      BY <1>0, <1>20, <2>2, <3>1 DEF DispatchStale, Goto, Typed, HoldsAt, LogAt, LeftAt, Untouched
    <3> QED BY <3>2, <3>3, <3>4
  <2> QED BY <2>1, <2>2
<1>21. CASE ExecutorEntered(c)
  <2>1. CallDone(c)
    BY <1>0, <1>21 DEF ExecutorEntered, Goto, Typed, CallDone, HoldsAt, LogAt
  <2>2. Moves(c)
    BY <1>0, <1>21 DEF ExecutorEntered, Goto, Typed, Moves, SlotMove, LeaseMove,
        PermitMove, PermitPlaces, LogMove, RanMove, HoldsAt, LogAt
  <2>3. HoldsAt(c)'
    BY <1>0, <1>21 DEF ExecutorEntered, Goto, Typed, HoldsAt
  <2>4. LogAt(c)' /\ LeftAt(c)'
    BY <1>0, <1>21 DEF ExecutorEntered, Goto, Typed, HoldsAt, LogAt, LeftAt, Untouched
  <2> QED BY <2>1, <2>2, <2>3, <2>4
<1>22. CASE ReturnsUnknown(c)
  <2>1. CallDone(c)
    BY <1>0, <1>22 DEF ReturnsUnknown, End, GiveSlot, Typed, CallDone, HoldsAt, LogAt
  <2>2. Moves(c)
    BY <1>0, <1>22 DEF ReturnsUnknown, End, GiveSlot, Typed, Moves, SlotMove, LeaseMove,
        PermitMove, PermitPlaces, LogMove, RanMove, HoldsAt, LogAt
  <2>3. HoldsAt(c)'
    BY <1>0, <1>22 DEF ReturnsUnknown, End, GiveSlot, Typed, HoldsAt
  <2>4. LogAt(c)' /\ LeftAt(c)'
    BY <1>0, <1>22 DEF ReturnsUnknown, End, GiveSlot, Typed, HoldsAt, LogAt, LeftAt, Untouched
  <2> QED BY <2>1, <2>2, <2>3, <2>4
<1>23. CASE AppendFinished(c)
  <2>0. Noted(c, "finished", "finished")
    BY <1>23, Logged DEF AppendFinished, Events, DispatchStates
  <2>1. CallDone(c)
    BY <1>0, <1>23, <2>0 DEF AppendFinished, End, GiveSlot, Noted, Typed, CallDone, HoldsAt, LogAt
  <2>2. Moves(c)
    BY <1>0, <1>23 DEF AppendFinished, End, GiveSlot, Typed, Moves, SlotMove, LeaseMove,
        PermitMove, PermitPlaces, LogMove, RanMove, HoldsAt, LogAt
  <2>3. HoldsAt(c)'
    BY <1>0, <1>23 DEF AppendFinished, End, GiveSlot, Typed, HoldsAt
  <2>4. LogAt(c)' /\ LeftAt(c)'
    BY <1>0, <1>23, <2>0 DEF AppendFinished, End, GiveSlot, Noted, Typed, HoldsAt, LogAt, LeftAt, Untouched
  <2> QED BY <2>1, <2>2, <2>3, <2>4
<1>24. CASE FinishedFails(c)
  <2>1. CallDone(c)
    BY <1>0, <1>24 DEF FinishedFails, End, GiveSlot, Typed, CallDone, HoldsAt, LogAt
  <2>2. Moves(c)
    BY <1>0, <1>24 DEF FinishedFails, End, GiveSlot, Typed, Moves, SlotMove, LeaseMove,
        PermitMove, PermitPlaces, LogMove, RanMove, HoldsAt, LogAt
  <2>3. HoldsAt(c)'
    BY <1>0, <1>24 DEF FinishedFails, End, GiveSlot, Typed, HoldsAt
  <2>4. LogAt(c)' /\ LeftAt(c)'
    BY <1>0, <1>24 DEF FinishedFails, End, GiveSlot, Typed, HoldsAt, LogAt, LeftAt, Untouched
  <2> QED BY <2>1, <2>2, <2>3, <2>4
<1>25. CASE Approved(c)
  <2>1. CallDone(c)
    BY <1>0, <1>25 DEF Approved, Goto, AfterAnswer, Typed, CallDone, HoldsAt, LogAt
  <2>2. Moves(c)
    BY <1>0, <1>25 DEF Approved, Goto, AfterAnswer, Typed, Moves, SlotMove, LeaseMove,
        PermitMove, PermitPlaces, LogMove, RanMove, HoldsAt, LogAt
  <2>3. HoldsAt(c)'
    BY <1>0, <1>25 DEF Approved, Goto, AfterAnswer, Typed, HoldsAt
  <2>4. LogAt(c)' /\ LeftAt(c)'
    BY <1>0, <1>25 DEF Approved, Goto, AfterAnswer, Typed, HoldsAt, LogAt, LeftAt, Untouched
  <2> QED BY <2>1, <2>2, <2>3, <2>4
<1>26. CASE Refused(c)
  <2>0. Noted(c, "not-dispatched", "not-dispatched")
    BY <1>26, Logged DEF Refused, Mark, Events, DispatchStates
  <2>1. CallDone(c)
    BY <1>0, <1>26, <2>0 DEF Refused, End, GiveSlot, Noted, Typed, CallDone, HoldsAt, LogAt
  <2>2. Moves(c)
    BY <1>0, <1>26 DEF Refused, End, GiveSlot, Typed, Moves, SlotMove, LeaseMove,
        PermitMove, PermitPlaces, LogMove, RanMove, HoldsAt, LogAt
  <2>3. HoldsAt(c)'
    BY <1>0, <1>26 DEF Refused, End, GiveSlot, Typed, HoldsAt
  <2>4. LogAt(c)' /\ LeftAt(c)'
    BY <1>0, <1>26, <2>0 DEF Refused, End, GiveSlot, Noted, Typed, HoldsAt, LogAt, LeftAt, Untouched
  <2> QED BY <2>1, <2>2, <2>3, <2>4
<1>27. CASE ConfirmationFails(c)
  <2>1. CallDone(c)
    BY <1>0, <1>27 DEF ConfirmationFails, End, GiveSlot, Caught, Typed, CallDone, HoldsAt, LogAt
  <2>2. Moves(c)
    BY <1>0, <1>27 DEF ConfirmationFails, End, GiveSlot, Caught, Typed, Moves, SlotMove, LeaseMove,
        PermitMove, PermitPlaces, LogMove, RanMove, HoldsAt, LogAt
  <2>3. HoldsAt(c)'
    BY <1>0, <1>27 DEF ConfirmationFails, End, GiveSlot, Caught, Typed, HoldsAt
  <2>4. LogAt(c)' /\ LeftAt(c)'
    BY <1>0, <1>27 DEF ConfirmationFails, End, GiveSlot, Caught, Typed, HoldsAt, LogAt, LeftAt, Untouched
  <2> QED BY <2>1, <2>2, <2>3, <2>4
<1>28. CASE PolicyChanged(c)
  <2>1. CallDone(c)
    BY <1>0, <1>28 DEF PolicyChanged, Goto, AfterAnswer, Typed, CallDone, HoldsAt, LogAt
  <2>2. Moves(c)
    BY <1>0, <1>28 DEF PolicyChanged, Goto, AfterAnswer, Typed, Moves, SlotMove, LeaseMove,
        PermitMove, PermitPlaces, LogMove, RanMove, HoldsAt, LogAt
  <2>3. HoldsAt(c)'
    BY <1>0, <1>28 DEF PolicyChanged, Goto, AfterAnswer, Typed, HoldsAt
  <2>4. LogAt(c)' /\ LeftAt(c)'
    BY <1>0, <1>28 DEF PolicyChanged, Goto, AfterAnswer, Typed, HoldsAt, LogAt, LeftAt, Untouched
  <2> QED BY <2>1, <2>2, <2>3, <2>4
<1>29. CASE Deferred(c)
  <2>0. Noted(c, "deferred", "finished")
    BY <1>29, Logged DEF Deferred, Events, DispatchStates
  <2>1. CallDone(c)
    BY <1>0, <1>29, <2>0 DEF Deferred, End, GiveSlot, Caught, Noted, Typed, CallDone, HoldsAt, LogAt
  <2>2. Moves(c)
    BY <1>0, <1>29 DEF Deferred, End, GiveSlot, Caught, Typed, Moves, SlotMove, LeaseMove,
        PermitMove, PermitPlaces, LogMove, RanMove, HoldsAt, LogAt
  <2>3. HoldsAt(c)'
    BY <1>0, <1>29 DEF Deferred, End, GiveSlot, Caught, Typed, HoldsAt
  <2>4. LogAt(c)' /\ LeftAt(c)'
    BY <1>0, <1>29, <2>0 DEF Deferred, End, GiveSlot, Caught, Noted, Typed, HoldsAt, LogAt, LeftAt, Untouched
  <2> QED BY <2>1, <2>2, <2>3, <2>4
<1>30. CASE DeferredInvalid(c)
  <2>0. Noted(c, "not-dispatched", "not-dispatched")
    BY <1>30, Logged DEF DeferredInvalid, Mark, Events, DispatchStates
  <2>1. CallDone(c)
    BY <1>0, <1>30, <2>0 DEF DeferredInvalid, End, GiveSlot, Caught, Noted, Typed, CallDone, HoldsAt, LogAt
  <2>2. Moves(c)
    BY <1>0, <1>30 DEF DeferredInvalid, End, GiveSlot, Caught, Typed, Moves, SlotMove, LeaseMove,
        PermitMove, PermitPlaces, LogMove, RanMove, HoldsAt, LogAt
  <2>3. HoldsAt(c)'
    BY <1>0, <1>30 DEF DeferredInvalid, End, GiveSlot, Caught, Typed, HoldsAt
  <2>4. LogAt(c)' /\ LeftAt(c)'
    BY <1>0, <1>30, <2>0 DEF DeferredInvalid, End, GiveSlot, Caught, Noted, Typed, HoldsAt, LogAt, LeftAt, Untouched
  <2> QED BY <2>1, <2>2, <2>3, <2>4
<1>31. CASE Returned(c)
  <2>1. CallDone(c)
    BY <1>0, <1>31 DEF Returned, Goto, Typed, CallDone, HoldsAt, LogAt
  <2>2. Moves(c)
    BY <1>0, <1>31 DEF Returned, Goto, Typed, Moves, SlotMove, LeaseMove,
        PermitMove, PermitPlaces, LogMove, RanMove, HoldsAt, LogAt
  <2>3. HoldsAt(c)'
    BY <1>0, <1>31 DEF Returned, Goto, Typed, HoldsAt
  <2>4. LogAt(c)' /\ LeftAt(c)'
    BY <1>0, <1>31 DEF Returned, Goto, Typed, HoldsAt, LogAt, LeftAt, Untouched
  <2> QED BY <2>1, <2>2, <2>3, <2>4
<1>32. CASE ExecutorFails(c)
  <2>1. CallDone(c)
    BY <1>0, <1>32 DEF ExecutorFails, End, GiveSlot, Typed, CallDone, HoldsAt, LogAt
  <2>2. Moves(c)
    BY <1>0, <1>32 DEF ExecutorFails, End, GiveSlot, Typed, Moves, SlotMove, LeaseMove,
        PermitMove, PermitPlaces, LogMove, RanMove, HoldsAt, LogAt
  <2>3. HoldsAt(c)'
    BY <1>0, <1>32 DEF ExecutorFails, End, GiveSlot, Typed, HoldsAt
  <2>4. LogAt(c)' /\ LeftAt(c)'
    BY <1>0, <1>32 DEF ExecutorFails, End, GiveSlot, Typed, HoldsAt, LogAt, LeftAt, Untouched
  <2> QED BY <2>1, <2>2, <2>3, <2>4
<1> QED
  BY <1>1, <1>2, <1>3, <1>4, <1>5, <1>6, <1>7, <1>8, <1>9, <1>10, <1>11, <1>12, <1>13,
     <1>14, <1>15, <1>16, <1>17, <1>18, <1>19, <1>20, <1>21, <1>22, <1>23, <1>24, <1>25,
     <1>26, <1>27, <1>28, <1>29, <1>30, <1>31, <1>32
     DEF CallStep, Prompt, Answer
-----------------------------------------------------------------------------
(* The counts.                                                             *)

\* Any set of calls is finite.
LEMMA CallsFinite == ASSUME NEW S, S \subseteq Calls PROVE IsFiniteSet(S) /\ Cardinality(S) \in Nat
<1>1. IsFiniteSet(Calls)
  BY FS_Interval DEF Calls
<1> QED BY <1>1, FS_Subset, FS_CardinalityType

\* A permit that goes back is handed to the first of the queue, so that permits
\* stay full while calls queue for one.
LEMMA PermitsKept ==
  ASSUME Typed, PermitsCounted, NEW c \in Calls, CallDone(c), PermitMove(c), UNCHANGED aborted
  PROVE  permits' \subseteq Calls /\ permitQueue' \in Seq(Calls) /\ PermitsCounted'
<1> USE DEF permit
<1>0. IsFiniteSet(permits) /\ Cardinality(permits) \in Nat /\ permitQueue \in Seq(Calls)
  BY CallsFinite DEF Typed
<1>1. \A d \in Calls \ {c} : pc'[d] = pc[d]
  BY DEF CallDone
<1>2. CASE UNCHANGED permit /\ (pc[c] = "permit" => c \in permits)
           /\ (c \in permits /\ pc[c] \in PermitPlaces => pc'[c] \in PermitPlaces)
  <2>1. \A d \in permits : pc'[d] \in PermitPlaces
    BY <1>1, <1>2 DEF PermitsCounted, Typed
  <2>2. \A i \in DOMAIN permitQueue : permitQueue[i] \in Calls \ {c}
    BY <1>0, <1>2 DEF PermitsCounted
  <2> QED BY <1>0, <1>1, <1>2, <2>1, <2>2 DEF PermitsCounted, Typed
<1>3. CASE GivePermit(c) /\ (pc[c] = "permit" => c \in permits \/ aborted)
  <2>1. CASE c \in permits /\ permitQueue # << >>
    <3> DEFINE h == Head(permitQueue)
    <3>1. permitQueue[1] = h /\ 1 \in DOMAIN permitQueue /\ h \in Calls
      BY <1>0, <2>1
    <3>2. h \notin permits /\ h # c /\ pc[h] = "permit"
      BY <2>1, <3>1 DEF PermitsCounted
    <3>3. permits' = (permits \ {c}) \cup {h} /\ permitQueue' = Tail(permitQueue)
      BY <1>3, <2>1 DEF GivePermit
    <3>4. Cardinality(permits') = Cardinality(permits)
      <4>1. IsFiniteSet(permits \ {c}) /\ Cardinality(permits \ {c}) = Cardinality(permits) - 1
        BY <1>0, <2>1, FS_RemoveElement
      <4>2. h \notin permits \ {c}
        BY <3>2
      <4>3. Cardinality(permits') = Cardinality(permits \ {c}) + 1
        BY <3>3, <4>1, <4>2, FS_AddElement
      <4> QED BY <1>0, <4>1, <4>3
    <3>5. /\ permitQueue' \in Seq(Calls)
          /\ \A i \in DOMAIN permitQueue' : i + 1 \in DOMAIN permitQueue /\ i + 1 # 1 /\ i \in Int
                                            /\ permitQueue'[i] = permitQueue[i + 1]
      BY <1>0, <2>1, <3>3
    <3>6. \A i \in DOMAIN permitQueue' :
            permitQueue'[i] # h /\ permitQueue'[i] \in Calls \ {c}
      BY <1>0, <2>1, <3>1, <3>5 DEF PermitsCounted
    <3>7. \A d \in permits' : pc'[d] \in PermitPlaces
      BY <1>1, <3>1, <3>2, <3>3 DEF PermitsCounted, Typed, PermitPlaces
    <3>8. \A i \in DOMAIN permitQueue' :
            /\ pc'[permitQueue'[i]] = "permit" /\ permitQueue'[i] \notin permits'
            /\ \A j \in DOMAIN permitQueue' : permitQueue'[i] = permitQueue'[j] => i = j
      BY <1>1, <3>3, <3>5, <3>6 DEF PermitsCounted
    <3>9. ~aborted
      BY <2>1 DEF PermitsCounted
    <3> QED BY <1>0, <2>1, <3>1, <3>3, <3>4, <3>5, <3>7, <3>8, <3>9 DEF PermitsCounted, Typed
  <2>2. CASE ~(c \in permits /\ permitQueue # << >>)
    <3>1. permits' = permits \ {c} /\ permitQueue' = permitQueue
      BY <1>3, <2>2 DEF GivePermit
    <3>2. Cardinality(permits') <= Cardinality(permits) /\ Cardinality(permits') \in Nat
      <4>1. Cardinality(permits \ {c}) = IF c \in permits THEN Cardinality(permits) - 1 ELSE Cardinality(permits)
        BY <1>0, FS_RemoveElement
      <4>2. Cardinality(permits \ {c}) \in Nat
        <5>1. permits \ {c} \subseteq Calls
          BY DEF Typed
        <5> QED BY <5>1, CallsFinite
      <4> QED BY <1>0, <3>1, <4>1, <4>2
    <3>3. permitQueue # << >> => permits' = permits
      BY <2>2, <3>1
    <3>4. \A i \in DOMAIN permitQueue : permitQueue[i] \in Calls \ {c}
      BY <1>0, <1>3, <2>2 DEF PermitsCounted
    <3>5. permits' \subseteq Calls /\ Cardinality(permits') <= ApprovalSlots
      BY <1>0, <3>1, <3>2 DEF PermitsCounted, Typed
    <3>6. permitQueue' # << >> => Cardinality(permits') = ApprovalSlots
      BY <3>1, <3>3 DEF PermitsCounted
    <3>7. \A d \in permits' : pc'[d] \in PermitPlaces
      BY <1>1, <3>1, <3>5 DEF PermitsCounted
    <3>8. \A i \in DOMAIN permitQueue' : pc'[permitQueue'[i]] = "permit" /\ permitQueue'[i] \notin permits'
      BY <1>1, <3>1, <3>4 DEF PermitsCounted
    <3> QED BY <1>0, <3>1, <3>5, <3>6, <3>7, <3>8 DEF PermitsCounted
  <2> QED BY <2>1, <2>2
<1>4. CASE TakePermit(c)
  <2>0. pc[c] = "permit" /\ pc'[c] = "permit" /\ c \notin permits /\ ~Queued(permitQueue, c) /\ ~aborted
    BY <1>4 DEF TakePermit
  <2>1. CASE Cardinality(permits) < ApprovalSlots
    <3>1. permits' = permits \cup {c} /\ permitQueue' = permitQueue /\ permitQueue = << >>
      BY <1>0, <1>4, <2>1 DEF TakePermit, PermitsCounted
    <3>2. Cardinality(permits') = Cardinality(permits) + 1
      BY <1>0, <2>0, <3>1, FS_AddElement
    <3> QED BY <1>0, <1>1, <2>0, <2>1, <3>1, <3>2 DEF PermitsCounted, Typed, PermitPlaces
  <2>2. CASE ~(Cardinality(permits) < ApprovalSlots)
    <3>1. permits' = permits /\ permitQueue' = Append(permitQueue, c)
      BY <1>4, <2>2 DEF TakePermit
    <3>2. Cardinality(permits) = ApprovalSlots
      BY <1>0, <2>2 DEF PermitsCounted
    <3>3. /\ permitQueue' \in Seq(Calls) /\ DOMAIN permitQueue' = DOMAIN permitQueue \cup {Len(permitQueue) + 1}
          /\ permitQueue'[Len(permitQueue) + 1] = c
          /\ \A i \in DOMAIN permitQueue : permitQueue'[i] = permitQueue[i] /\ permitQueue[i] # c /\ permitQueue[i] \in Calls
      BY <1>0, <2>0, <3>1 DEF Queued
    <3>4. \A d \in permits : pc'[d] \in PermitPlaces
      BY <1>1, <2>0 DEF PermitsCounted, Typed
    <3>5. \A i \in DOMAIN permitQueue' : pc'[permitQueue'[i]] = "permit" /\ permitQueue'[i] \notin permits
      BY <1>1, <2>0, <3>3 DEF PermitsCounted
    <3>6. \A i, j \in DOMAIN permitQueue' : permitQueue'[i] = permitQueue'[j] => i = j
      BY <3>3 DEF PermitsCounted
    <3> QED BY <1>4, <2>0, <3>1, <3>2, <3>3, <3>4, <3>5, <3>6 DEF PermitsCounted, Typed
  <2> QED BY <2>1, <2>2
<1> QED BY <1>2, <1>3, <1>4 DEF PermitMove

\* A worker that goes round its loop claims at most the next call, or waits.
LEMMA RoundGone ==
  ASSUME Typed, NEW p \in [Calls -> Places], NEW s \in {"running", "draining", "stopped"},
         NEW l \in Nat, NEW q \in Nat, GoRound(p, s, l, q),
         l + q + Cardinality(InFlight(p)) < Workers,
         \A c \in Calls : p[c] = "new" <=> c > claimed
  PROVE  /\ state' \in {"running", "draining", "stopped"} /\ claimed' \in 0..CallCount
         /\ looping' \in Nat /\ waiting' \in Nat /\ pc' \in [Calls -> Places]
         /\ looping' + waiting' + Cardinality(InFlight(pc)') <= Workers
         /\ \A c \in Calls : pc'[c] = "new" <=> c > claimed'
         /\ \A c \in Calls : pc'[c] = p[c] \/ (p[c] = "new" /\ pc'[c] = Entry)
         /\ claimed' # claimed => claimed' = claimed + 1 /\ s # "stopped" /\ (s = "draining" => InFlight(p) = {})
<1> DEFINE drained == s = "draining" /\ InFlight(p) = {}
           now == IF drained THEN "running" ELSE s
<1>1. /\ state' = now /\ looping' = IF drained THEN l + q ELSE l
      /\ waiting' = (IF drained THEN 0 ELSE q) + (IF now = "draining" THEN 1 ELSE 0)
  BY DEF GoRound
<1>2. state' \in {"running", "draining", "stopped"} /\ looping' \in Nat /\ waiting' \in Nat
      /\ looping' + waiting' = IF now = "draining" THEN l + q + 1 ELSE l + q
  BY <1>1
<1>3. claimed \in 0..CallCount /\ CallCount \in Nat /\ Entry \in Places
  BY DEF Typed, Entry, Places
<1>4. IsFiniteSet(InFlight(p)) /\ Cardinality(InFlight(p)) \in Nat
  <2>1. InFlight(p) \subseteq Calls
    BY <1>3 DEF InFlight, Calls
  <2> QED BY <2>1, CallsFinite
<1>5. Workers \in Nat
  BY DEF Workers
<1>6. CASE now = "running" /\ claimed < CallCount
  <2>1. claimed' = claimed + 1 /\ pc' = [p EXCEPT ![claimed + 1] = Entry]
    BY <1>6 DEF GoRound
  <2>2. claimed + 1 \in Calls /\ p[claimed + 1] = "new"
    BY <1>3, <1>6 DEF Calls
  <2>3. pc'[claimed + 1] = Entry /\ \A c \in Calls \ {claimed + 1} : pc'[c] = p[c]
    BY <2>1, <2>2
  <2>4. InFlight(pc)' = InFlight(p) \cup {claimed + 1} /\ claimed + 1 \notin InFlight(p)
    BY <1>3, <1>6, <2>1, <2>2, <2>3 DEF InFlight, Calls, Entry
  <2>5. Cardinality(InFlight(pc)') = Cardinality(InFlight(p)) + 1
    BY <1>4, <2>4, FS_AddElement
  <2>6. \A c \in Calls : pc'[c] = "new" <=> c > claimed'
    BY <1>3, <2>1, <2>2, <2>3 DEF Entry, Calls
  <2>7. pc' \in [Calls -> Places]
    BY <1>3, <2>1
  <2>8. claimed' \in 0..CallCount
    BY <1>3, <1>6, <2>1
  <2>9. looping' + waiting' + Cardinality(InFlight(pc)') <= Workers
    <3>1. looping' + waiting' = l + q
      BY <1>2, <1>6
    <3>2. Cardinality(InFlight(pc)') = Cardinality(InFlight(p)) + 1
      BY <2>5
    <3>3. \A n, m, k, w \in Nat : l + q + n < w /\ m = n + 1 /\ k = l + q => k + m <= w
      OBVIOUS
    <3>4. Cardinality(InFlight(pc)') \in Nat /\ looping' + waiting' \in Nat
      BY <1>4, <3>1, <3>2
    <3> HIDE DEF drained, now
    <3> QED BY <1>4, <1>5, <3>1, <3>2, <3>3, <3>4
  <2>10. s # "stopped" /\ (s = "draining" => InFlight(p) = {})
    BY <1>6
  <2> QED BY <1>2, <2>1, <2>2, <2>3, <2>6, <2>7, <2>8, <2>9, <2>10
<1>7. CASE ~(now = "running" /\ claimed < CallCount)
  <2>1. claimed' = claimed /\ pc' = p
    BY <1>7 DEF GoRound
  <2>2. InFlight(pc)' = InFlight(p)
    BY <2>1 DEF InFlight
  <2>3. looping' + waiting' + Cardinality(InFlight(pc)') <= Workers
    <3>1. looping' + waiting' <= l + q + 1 /\ looping' + waiting' \in Nat
      <4>1. looping' + waiting' = l + q + 1 \/ looping' + waiting' = l + q
        <5> HIDE DEF now
        <5> QED BY <1>2
      <4> QED BY <4>1
    <3>2. Cardinality(InFlight(pc)') = Cardinality(InFlight(p))
      BY <2>2
    <3>3. \A n, k, w \in Nat : l + q + n < w /\ k <= l + q + 1 => k + n <= w
      OBVIOUS
    <3> HIDE DEF drained, now
    <3> QED BY <1>4, <1>5, <3>1, <3>2, <3>3
  <2> QED BY <1>2, <1>3, <2>1, <2>3
<1> QED BY <1>6, <1>7
-----------------------------------------------------------------------------
(* The invariant, step by step.                                            *)

\* Once the round is settled no call is under way.
LEMMA RoundIsOpen ==
  ASSUME Typed, Workforce, NEW c \in Calls, pc[c] \notin {"new", "settled"}
  PROVE  round = "tools" /\ c \in InFlight(pc)
<1>1. c \in InFlight(pc)
  BY DEF Typed, Workforce, InFlight, Calls
<1> QED BY <1>1 DEF Workforce

\* A call steps between its claim and its end.
LEMMA UnderWay == ASSUME NEW c \in Calls, CallStep(c) PROVE pc[c] \notin {"new"} \cup Gone
BY DEF CallStep, Prompt, Answer, Barred, TurnAway, Admit, TakeSlot, Cancelled, Deny,
   PrepareFails, Allow, AskFor, TakePermit, PermitAborted, AppendWaiting, TakeLease,
   NextAttempt, AttemptsExhausted, Authorize, AppendStarted, StartFails, DispatchRefused,
   DispatchStale, ExecutorEntered, ReturnsUnknown, AppendFinished, FinishedFails, Approved,
   Refused, ConfirmationFails, PolicyChanged, Deferred, DeferredInvalid, Returned,
   ExecutorFails, Gone

\* A step of a call keeps the invariant.
LEMMA CallStepKeeps == ASSUME RoundInv, NEW c \in Calls, CallStep(c) PROVE RoundInv'
<1> USE DEF RoundInv
<1>0. UNCHANGED <<sched, aborted, ending>>
  BY DEF CallStep
<1>1. pc[c] \notin {"new"} \cup Gone
  BY UnderWay
<1>2. round = "tools"
  BY <1>1, RoundIsOpen DEF Gone
<1>3. CallDone(c) /\ Moves(c) /\ Local(c)'
  BY <1>2, CallKeeps DEF Local
<1>4. permits' \subseteq Calls /\ permitQueue' \in Seq(Calls) /\ PermitsCounted'
  BY <1>0, <1>3, PermitsKept DEF Moves
<1>5. Typed'
  BY <1>0, <1>3, <1>4 DEF Typed, CallDone, sched, ending
<1>6. Workforce'
  <2>1. InFlight(pc)' = InFlight(pc)
    <3>1. \A d \in Calls : pc'[d] = "settled" <=> pc[d] = "settled"
      BY <1>1, <1>3 DEF CallDone, Gone
    <3>2. 1..claimed \subseteq Calls /\ claimed' = claimed
      BY <1>0 DEF Typed, Calls, sched
    <3> QED BY <3>1, <3>2 DEF InFlight
  <2>2. Cardinality(InFlight(pc)') = Cardinality(InFlight(pc))
    BY <2>1
  <2>3. \A d \in Calls : pc'[d] = "new" <=> d > claimed
    BY <1>1, <1>3 DEF CallDone, Workforce
  <2> QED BY <1>0, <1>2, <2>1, <2>2, <2>3 DEF Workforce, sched, ending
<1>7. LeasesApart'
  <2>1. CASE leases' \subseteq leases
    BY <2>1 DEF LeasesApart
  <2>2. CASE leases' = leases \cup {c} /\ \A d \in leases : <<c, d>> \notin Clash /\ <<d, c>> \notin Clash
    BY <2>2 DEF LeasesApart
  <2> QED BY <1>3, <2>1, <2>2 DEF Moves, LeaseMove
<1>8. Cardinality(slots') <= CandidateSlots
  <2>0. IsFiniteSet(slots) /\ Cardinality(slots) \in Nat
    BY CallsFinite DEF Typed
  <2>1. CASE slots' \subseteq slots
    <3>1. Cardinality(slots') <= Cardinality(slots) /\ Cardinality(slots') \in Nat
      BY <2>0, <2>1, FS_Subset, FS_CardinalityType
    <3> QED BY <2>0, <3>1
  <2>2. CASE Cardinality(slots) < CandidateSlots /\ slots' = slots \cup {c}
    <3>1. Cardinality(slots') <= Cardinality(slots) + 1 /\ Cardinality(slots') \in Nat
      BY <2>0, <2>2, FS_AddElement
    <3> QED BY <2>0, <2>2, <3>1
  <2> QED BY <1>3, <2>1, <2>2 DEF Moves, SlotMove
<1>9. \A d \in Calls : HoldsAt(d)' /\ LogAt(d)' /\ LeftAt(d)'
  <2>1. ASSUME NEW d \in Calls \ {c} PROVE HoldsAt(d)' /\ LogAt(d)' /\ LeftAt(d)'
    <3>1. HoldsAt(d) /\ LogAt(d) /\ LeftAt(d)
      OBVIOUS
    <3>2. HoldsAt(d)'
      BY <1>3, <3>1 DEF HoldsAt, CallDone
    <3>3. LogAt(d)' /\ LeftAt(d)'
      BY <1>0, <1>3, <3>1 DEF LogAt, LeftAt, Untouched, CallDone, ending
    <3> QED BY <3>2, <3>3
  <2> QED BY <1>3, <2>1 DEF Local
<1> QED BY <1>4, <1>5, <1>6, <1>7, <1>8, <1>9

\* A worker goes round: its call, if it had one, is settled, and it may claim one.
LEMMA RoundGoneKeeps ==
  ASSUME RoundInv, round = "tools",
         NEW p \in [Calls -> Places], NEW s \in {"running", "draining", "stopped"},
         NEW l \in Nat, NEW q \in Nat, GoRound(p, s, l, q),
         l + q + Cardinality(InFlight(p)) < Workers,
         \A c \in Calls : p[c] = pc[c] \/ (pc[c] = "ended" /\ p[c] = "settled"),
         UNCHANGED <<attempts, outcome, slot, permit, leases, log, approvals, parkRequested,
                     aborted, tools, ending>>
  PROVE  RoundInv'
<1> USE DEF RoundInv, slot, permit, log, tools, ending
<1>1. \A c \in Calls : p[c] = "new" <=> c > claimed
  BY DEF Workforce
<1>2. /\ state' \in {"running", "draining", "stopped"} /\ claimed' \in 0..CallCount
      /\ looping' \in Nat /\ waiting' \in Nat /\ pc' \in [Calls -> Places]
      /\ looping' + waiting' + Cardinality(InFlight(pc)') <= Workers
      /\ \A c \in Calls : pc'[c] = "new" <=> c > claimed'
      /\ \A c \in Calls : pc'[c] = p[c] \/ (p[c] = "new" /\ pc'[c] = Entry)
  BY <1>1, RoundGone
<1>3. Typed'
  BY <1>2 DEF Typed
<1>4. Workforce'
  BY <1>2 DEF Workforce
<1>5. \A c \in Calls : \/ pc'[c] = pc[c]
                       \/ pc[c] = "ended" /\ pc'[c] = "settled"
                       \/ pc[c] = "new" /\ pc'[c] \in {"barred", "claimed"}
  <2>1. Entry \in {"barred", "claimed"}
    BY DEF Entry
  <2>2. ASSUME NEW c \in Calls
        PROVE  /\ p[c] = pc[c] \/ (pc[c] = "ended" /\ p[c] = "settled")
               /\ pc'[c] = p[c] \/ (p[c] = "new" /\ pc'[c] = Entry)
    BY <1>2
  <2> QED BY <2>1, <2>2
<1>6. PermitsCounted'
  <2>1. \A c \in Calls : pc[c] \in PermitPlaces => pc'[c] = pc[c]
    BY <1>5 DEF PermitPlaces, Dispatched
  <2>2. \A i \in DOMAIN permitQueue : permitQueue[i] \in Calls
    BY DEF Typed
  <2> QED BY <2>1, <2>2 DEF PermitsCounted, Typed, PermitPlaces
<1>7. LeasesApart' /\ Cardinality(slots') <= CandidateSlots
  BY DEF LeasesApart
<1>8. ASSUME NEW c \in Calls PROVE HoldsAt(c)' /\ LogAt(c)' /\ LeftAt(c)'
  <2>1. HoldsAt(c) /\ LogAt(c) /\ LeftAt(c)
    OBVIOUS
  <2>2. HoldsAt(c)'
    BY <1>5, <2>1 DEF HoldsAt, Gone
  <2>3. LogAt(c)' /\ LeftAt(c)'
    BY <1>5, <2>1 DEF LogAt, LeftAt, Untouched, Gone, Dispatched, HasIn, LastOf
  <2> QED BY <2>2, <2>3
<1> QED BY <1>3, <1>4, <1>6, <1>7, <1>8

\* What GoRound is called with.
LEMMA LoopGoes ==
  ASSUME RoundInv, Loop
  PROVE  /\ round = "tools" /\ looping - 1 \in Nat /\ looping - 1 + waiting + Cardinality(InFlight(pc)) < Workers
         /\ \A c \in Calls : pc[c] = "new" <=> c > claimed
<1> USE DEF RoundInv
<1>1. looping \in Nat \ {0} /\ waiting \in Nat /\ Workers \in Nat
  BY DEF Loop, Typed, Workers
<1>2. InFlight(pc) \subseteq Calls
  BY DEF InFlight, Calls, Typed
<1>3. Cardinality(InFlight(pc)) \in Nat
  BY <1>2, CallsFinite
<1> QED BY <1>1, <1>3 DEF Workforce

\* When a call has settled, its worker has a place for what comes next.
LEMMA SettleGoes ==
  ASSUME RoundInv, NEW c \in Calls, Settle(c)
  PROVE  LET p == [pc EXCEPT ![c] = "settled"]
         IN \E l, q \in Nat :
              /\ round = "tools" /\ p \in [Calls -> Places] /\ AfterSettling(c) \in {"running", "draining", "stopped"}
              /\ GoRound(p, AfterSettling(c), l, q) /\ l + q + Cardinality(InFlight(p)) < Workers
              /\ \A d \in Calls : p[d] = "new" <=> d > claimed
<1> USE DEF RoundInv
<1> DEFINE p == [pc EXCEPT ![c] = "settled"]
           wakes == AfterSettling(c) = "stopped" \/ InFlight(p) = {}
           l == IF wakes THEN looping + waiting ELSE looping
           q == IF wakes THEN 0 ELSE waiting
<1>1. pc[c] = "ended" /\ GoRound(p, AfterSettling(c), l, q)
  BY DEF Settle
<1>2. round = "tools" /\ c \in InFlight(pc)
  BY <1>1, RoundIsOpen
<1>3. p \in [Calls -> Places] /\ p[c] = "settled" /\ \A d \in Calls \ {c} : p[d] = pc[d]
  BY DEF Typed, Places
<1>4. InFlight(p) = InFlight(pc) \ {c}
  BY <1>3 DEF InFlight, Typed, Calls
<1>5. IsFiniteSet(InFlight(pc)) /\ Cardinality(InFlight(pc)) \in Nat
  <2>1. InFlight(pc) \subseteq Calls
    BY DEF InFlight, Calls, Typed
  <2> QED BY <2>1, CallsFinite
<1>6. Cardinality(InFlight(p)) = Cardinality(InFlight(pc)) - 1
  BY <1>2, <1>4, <1>5, FS_RemoveElement
<1>7. l \in Nat /\ q \in Nat /\ l + q = looping + waiting
  BY DEF Typed
<1>8. AfterSettling(c) \in {"running", "draining", "stopped"}
  BY DEF AfterSettling, Typed
<1>9. \A d \in Calls : p[d] = "new" <=> d > claimed
  BY <1>1, <1>3 DEF Workforce
<1>10. l + q + Cardinality(InFlight(p)) < Workers
  <2>1. looping + waiting \in Nat /\ Workers \in Nat
    BY DEF Typed, Workers
  <2>2. looping + waiting + Cardinality(InFlight(pc)) <= Workers
    BY DEF Workforce
  <2> HIDE DEF l, q
  <2> QED BY <1>5, <1>6, <1>7, <2>1, <2>2
<1> HIDE DEF l, q, p
<1> QED BY <1>1, <1>2, <1>3, <1>7, <1>8, <1>9, <1>10 DEF p

\* A worker that looks for its next call keeps the invariant.
LEMMA WorkerKeeps ==
  ASSUME RoundInv, Loop \/ \E c \in Calls : Settle(c)
  PROVE  RoundInv'
<1>1. CASE Loop
  <2>1. GoRound(pc, state, looping - 1, waiting)
    BY <1>1 DEF Loop
  <2>2. pc \in [Calls -> Places] /\ state \in {"running", "draining", "stopped"} /\ waiting \in Nat
    BY DEF RoundInv, Typed
  <2>3. UNCHANGED <<attempts, outcome, slot, permit, leases, log, approvals, parkRequested,
                    aborted, tools, ending>>
    BY <1>1 DEF Loop
  <2> QED BY <1>1, <2>1, <2>2, <2>3, LoopGoes, RoundGoneKeeps
<1>2. ASSUME NEW c \in Calls, Settle(c) PROVE RoundInv'
  <2> DEFINE p == [pc EXCEPT ![c] = "settled"]
  <2>1. PICK l, q \in Nat :
          /\ round = "tools" /\ p \in [Calls -> Places] /\ AfterSettling(c) \in {"running", "draining", "stopped"}
          /\ GoRound(p, AfterSettling(c), l, q) /\ l + q + Cardinality(InFlight(p)) < Workers
    BY <1>2, SettleGoes
  <2>2. \A d \in Calls : p[d] = pc[d] \/ (pc[d] = "ended" /\ p[d] = "settled")
    BY <1>2 DEF Settle, RoundInv, Typed
  <2>3. UNCHANGED <<attempts, outcome, slot, permit, leases, log, approvals, parkRequested,
                    aborted, tools, ending>>
    BY <1>2 DEF Settle
  <2> HIDE DEF p
  <2> QED BY <2>1, <2>2, <2>3, RoundGoneKeeps
<1> QED BY <1>1, <1>2

\* A cancel keeps the invariant.
LEMMA AbortKeeps == ASSUME RoundInv, Abort PROVE RoundInv'
<1> USE DEF RoundInv, Abort, sched, slot, permit, log, tools, ending
<1>1. Typed'
  BY DEF Typed
<1>2. Workforce' /\ LeasesApart' /\ Cardinality(slots') <= CandidateSlots
  BY DEF Workforce, LeasesApart, InFlight
<1>3. PermitsCounted'
  BY DEF PermitsCounted
<1>4. ASSUME NEW c \in Calls PROVE HoldsAt(c)' /\ LogAt(c)' /\ LeftAt(c)'
  BY DEF HoldsAt, LogAt, LeftAt, Untouched
<1> QED BY <1>1, <1>2, <1>3, <1>4

\* An executor that comes to its end keeps the invariant.
LEMMA ExecutorKeeps == ASSUME RoundInv, NEW c \in Calls, ExecutorSettles(c) PROVE RoundInv'
<1> USE DEF RoundInv, ExecutorSettles, sched, slot, permit, log, tools, ending
<1>1. Typed'
  BY DEF Typed
<1>2. Workforce' /\ LeasesApart' /\ Cardinality(slots') <= CandidateSlots
  BY DEF Workforce, LeasesApart, InFlight
<1>3. PermitsCounted'
  BY DEF PermitsCounted
<1>4. ASSUME NEW d \in Calls PROVE HoldsAt(d)' /\ LogAt(d)' /\ LeftAt(d)'
  BY DEF HoldsAt, LogAt, LeftAt, Untouched, Gone
<1> QED BY <1>1, <1>2, <1>3, <1>4

\* Calls are new or settled once none is in flight.
LEMMA NoneInFlight ==
  ASSUME Typed, Workforce, InFlight(pc) = {}, NEW c \in Calls
  PROVE  pc[c] \in {"new", "settled"}
<1>1. CASE c > claimed
  BY <1>1 DEF Workforce
<1>2. CASE ~(c > claimed)
  <2>1. c \in 1..claimed
    BY <1>2 DEF Typed, Calls
  <2> QED BY <2>1 DEF InFlight
<1> QED BY <1>1, <1>2

\* What Materialize does to a call.
LEMMA Materialized ==
  ASSUME RoundInv, Materialize
  PROVE  /\ round = "tools" /\ round' = "settled" /\ looping = 0 /\ waiting = 0 /\ InFlight(pc) = {}
         /\ record' \in [Calls -> Seq(Events)] /\ dispatchState' \in [Calls -> DispatchStates]
         /\ outcome' \in [Calls -> Outcomes]
         /\ \A c \in Calls :
              \/ /\ pc[c] = "new" /\ outcome'[c] = "fulfilled"
                 /\ record'[c] = Append(record[c], "not-dispatched") /\ dispatchState'[c] = "not-dispatched"
              \/ /\ pc[c] # "new" /\ outcome[c] \in {"unknown", "revoked"}
                 /\ outcome'[c] \in {"cancelled", "invalidated", "fulfilled"}
                 /\ record'[c] = Append(record[c], "finished") /\ dispatchState'[c] = "finished"
              \/ /\ pc[c] # "new" /\ outcome[c] \notin {"unknown", "revoked"}
                 /\ outcome'[c] = outcome[c] /\ record'[c] = record[c] /\ dispatchState'[c] = dispatchState[c]
<1> USE DEF RoundInv
<1>1. \A c \in Calls : record[c] \in Seq(Events) /\ outcome[c] \in Outcomes /\ dispatchState[c] \in DispatchStates
  BY DEF Typed
<1>2. \A c \in Calls : /\ Append(record[c], "not-dispatched") \in Seq(Events)
                       /\ Append(record[c], "finished") \in Seq(Events)
  BY <1>1, Appended DEF Events
<1>3. record' \in [Calls -> Seq(Events)]
  BY <1>1, <1>2 DEF Materialize
<1>4. dispatchState' \in [Calls -> DispatchStates]
  BY <1>1 DEF Materialize, DispatchStates
<1>5. outcome' \in [Calls -> Outcomes]
  BY <1>1 DEF Materialize, Outcomes
<1>6. ASSUME NEW c \in Calls, pc[c] = "new"
      PROVE  /\ outcome'[c] = "fulfilled"
             /\ record'[c] = Append(record[c], "not-dispatched") /\ dispatchState'[c] = "not-dispatched"
  BY <1>6 DEF Materialize
<1>7. ASSUME NEW c \in Calls, pc[c] # "new", outcome[c] \in {"unknown", "revoked"}
      PROVE  /\ outcome'[c] \in {"cancelled", "invalidated", "fulfilled"}
             /\ record'[c] = Append(record[c], "finished") /\ dispatchState'[c] = "finished"
  BY <1>7 DEF Materialize
<1>8. ASSUME NEW c \in Calls, pc[c] # "new", outcome[c] \notin {"unknown", "revoked"}
      PROVE  outcome'[c] = outcome[c] /\ record'[c] = record[c] /\ dispatchState'[c] = dispatchState[c]
  BY <1>8 DEF Materialize
<1>9. round = "tools" /\ round' = "settled" /\ looping = 0 /\ waiting = 0 /\ InFlight(pc) = {}
  BY DEF Materialize
<1> QED BY <1>3, <1>4, <1>5, <1>6, <1>7, <1>8, <1>9

\* Writing down what was not run keeps the invariant.
LEMMA MaterializeKeeps == ASSUME RoundInv, Materialize PROVE RoundInv'
<1> USE DEF RoundInv
<1>0. UNCHANGED <<sched, pc, attempts, slot, permit, leases, approvals, parkRequested,
                  aborted, tools, failure, terminal>>
  BY DEF Materialize
<1>1. Typed'
  BY <1>0, Materialized DEF Typed, sched, slot, permit, tools
<1>2. Workforce' /\ LeasesApart' /\ Cardinality(slots') <= CandidateSlots
  BY <1>0, Materialized DEF Workforce, LeasesApart, InFlight, sched, slot
<1>3. PermitsCounted'
  BY <1>0 DEF PermitsCounted, permit
<1>4. ASSUME NEW c \in Calls PROVE HoldsAt(c)' /\ LogAt(c)' /\ LeftAt(c)'
  <2>0. HoldsAt(c) /\ LogAt(c) /\ LeftAt(c) /\ round = "tools" /\ record[c] \in Seq(Events)
        /\ outcome[c] \in Outcomes
    BY Materialized DEF Typed
  <2>1. pc[c] \in {"new", "settled"} /\ pc'[c] = pc[c] /\ round' = "settled"
    BY <1>0, Materialized, NoneInFlight
  <2>2. HoldsAt(c)'
    BY <1>0, <2>0 DEF HoldsAt, tools, slot
  <2>3. CASE pc[c] = "new"
    <3>1. /\ outcome'[c] = "fulfilled" /\ dispatchState'[c] = "not-dispatched"
          /\ record'[c] = Append(record[c], "not-dispatched") /\ record[c] = << >>
      BY <2>0, <2>3, Materialized DEF LeftAt
    <3>2. record'[c] # << >> /\ LastOf(record'[c]) = "not-dispatched" /\ ~HasIn(record'[c], "deferred")
      <4>1. ~HasIn(record[c], "deferred")
        BY <3>1 DEF HasIn
      <4> QED BY <2>0, <3>1, <4>1, Appended DEF Events
    <3> QED BY <2>1, <2>2, <2>3, <3>1, <3>2 DEF LogAt, LeftAt, Gone, Dispatched
  <2>4. CASE pc[c] = "settled" /\ outcome[c] \in {"unknown", "revoked"}
    <3>1. /\ outcome'[c] \in {"cancelled", "invalidated", "fulfilled"} /\ dispatchState'[c] = "finished"
          /\ record'[c] = Append(record[c], "finished")
      BY <2>4, Materialized
    <3>2. record'[c] # << >> /\ LastOf(record'[c]) = "finished" /\ ~HasIn(record'[c], "deferred")
      BY <2>0, <2>4, <3>1, Appended DEF Events, LogAt
    <3> QED BY <2>1, <2>2, <2>4, <3>1, <3>2 DEF LogAt, LeftAt, Gone, Dispatched
  <2>5. CASE pc[c] = "settled" /\ outcome[c] \notin {"unknown", "revoked"}
    <3>1. outcome'[c] = outcome[c] /\ dispatchState'[c] = dispatchState[c] /\ record'[c] = record[c]
      BY <2>5, Materialized
    <3> QED BY <2>0, <2>1, <2>2, <2>5, <3>1 DEF LogAt, LeftAt, Gone, Dispatched, Untouched
  <2> QED BY <2>1, <2>3, <2>4, <2>5
<1> QED BY <1>1, <1>2, <1>3, <1>4

\* The event that a call with an open record gets when the round ends.
MarkedOr(c) ==
  \/ record'[c] = record[c] /\ dispatchState'[c] = dispatchState[c] /\ ~Pending(c)
  \/ record'[c] = Append(record[c], "not-dispatched") /\ dispatchState'[c] = "not-dispatched" /\ Pending(c)

\* MarkPending marks the calls that are pending, and those only.
LEMMA PendingMarked ==
  ASSUME Typed, MarkPending
  PROVE  /\ record' \in [Calls -> Seq(Events)] /\ dispatchState' \in [Calls -> DispatchStates]
         /\ \A c \in Calls : MarkedOr(c)
<1>1. \A c \in Calls : record[c] \in Seq(Events) /\ dispatchState[c] \in DispatchStates
  BY DEF Typed
<1>2. \A c \in Calls : Append(record[c], "not-dispatched") \in Seq(Events)
  BY <1>1, Appended DEF Events
<1>3. record' \in [Calls -> Seq(Events)] /\ dispatchState' \in [Calls -> DispatchStates]
  BY <1>1, <1>2 DEF MarkPending, DispatchStates
<1>4. ASSUME NEW c \in Calls PROVE MarkedOr(c)
  BY DEF MarkPending, MarkedOr
<1> QED BY <1>3, <1>4

\* The first of a set of calls is one of them.
LEMMA FirstIsIn ==
  ASSUME NEW S, S \subseteq Calls, S # {}
  PROVE  First(S) \in S
<1>1. IsWellFoundedOn(OpToRel(<, Nat), Nat)
  BY NatLessThanWellFounded
<1>2. S \subseteq Nat
  BY DEF Calls
<1>3. PICK c \in S : \A d \in S : ~(<<d, c>> \in OpToRel(<, Nat))
  BY <1>1, <1>2, WFMin
<1>4. ASSUME NEW d \in S PROVE c <= d
  <2>1. ~(<<d, c>> \in OpToRel(<, Nat)) /\ c \in Nat /\ d \in Nat
    BY <1>2, <1>3
  <2> QED BY <2>1 DEF OpToRel
<1> QED BY <1>4 DEF First

\* The rejection that speaks for the round is the outcome of a rejected call, and
\* a cancelled, an invalidated or an unrecorded one if there is any.
Grave == \E c \in Calls : outcome[c] \in {"cancelled", "invalidated", "unrecorded"}

\* The gravest rejection is that of a call.
LEMMA GravestIsOne ==
  ASSUME Rejected # {}
  PROVE  /\ \E c \in Rejected : Gravest = outcome[c]
         /\ Grave => Gravest \in {"cancelled", "invalidated", "unrecorded"}
<1> DEFINE Lifecycle == {c \in Rejected : outcome[c] \in {"cancelled", "invalidated"}}
           Unrecorded == {c \in Rejected : outcome[c] = "unrecorded"}
<1>0. Rejected \subseteq Calls
  BY DEF Rejected
<1>1. CASE Lifecycle # {}
  <2>1. First(Lifecycle) \in Lifecycle
    BY <1>0, <1>1, FirstIsIn
  <2> QED BY <1>1, <2>1 DEF Gravest
<1>2. CASE Lifecycle = {} /\ Unrecorded # {}
  <2>1. First(Unrecorded) \in Unrecorded
    BY <1>0, <1>2, FirstIsIn
  <2> QED BY <1>2, <2>1 DEF Gravest
<1>3. CASE Lifecycle = {} /\ Unrecorded = {}
  <2>1. First(Rejected) \in Rejected
    BY <1>0, FirstIsIn
  <2>2. Gravest = outcome[First(Rejected)]
    BY <1>3 DEF Gravest
  <2>3. ~Grave
    BY <1>3 DEF Grave, Rejected
  <2> QED BY <2>1, <2>2, <2>3
<1> QED BY <1>1, <1>2, <1>3

\* The steps after the tools keep the invariant.
LEMMA RoundStepKeeps == ASSUME RoundInv, RoundStep PROVE RoundInv'
<1> USE DEF RoundInv
<1>0. UNCHANGED <<sched, pc, attempts, outcome, slot, permit, leases, approvals, parkRequested,
                  aborted, tools>>
  BY DEF RoundStep
<1>1. round \in {"settled", "caught"} /\ round' \in {"caught", "over"}
  BY DEF RoundStep, Continue, Park, Throw, Catch, Finish
<1>2. failure' \in Outcomes /\ terminal' \in {"none", "completed", "failed", "interrupted", "parked"}
  <2>1. ASSUME NEW kind \in {"completed", "parked"}, NEW rec, Finish(kind, rec)
        PROVE  failure' \in Outcomes /\ terminal' \in {"none", "completed", "failed", "interrupted", "parked"}
    BY <2>1 DEF Finish, Typed, Outcomes
  <2>2. CASE Throw
    <3>1. Gravest \in Outcomes
      BY <2>2, GravestIsOne DEF Throw, Rejected, Typed
    <3> QED BY <2>2, <3>1 DEF Throw, Typed
  <2>3. CASE Catch
    BY <2>3 DEF Catch, Typed
  <2> QED BY <2>1, <2>2, <2>3 DEF RoundStep, Continue, Park
<1>3. /\ record' \in [Calls -> Seq(Events)] /\ dispatchState' \in [Calls -> DispatchStates]
      /\ \A c \in Calls :
           \/ record'[c] = record[c] /\ dispatchState'[c] = dispatchState[c]
           \/ record'[c] = Append(record[c], "not-dispatched") /\ dispatchState'[c] = "not-dispatched"
           \/ /\ record'[c] = Append(record[c], "not-dispatched") /\ dispatchState'[c] = dispatchState[c]
              /\ ~Has(c, "started")
  <2>1. CASE Continue
    BY <2>1 DEF Continue, Typed, log
  <2>2. CASE Park \/ Throw
    BY <2>2, PendingMarked DEF Park, Throw, MarkedOr
  <2>3. CASE Catch
    <3>1. \A c \in Calls : Append(record[c], "not-dispatched") \in Seq(Events) /\ record[c] \in Seq(Events)
      BY Appended DEF Typed, Events
    <3> QED BY <2>3, <3>1 DEF Catch, LeftOver, Typed
  <2> QED BY <2>1, <2>2, <2>3 DEF RoundStep
<1>4. Typed'
  BY <1>0, <1>1, <1>2, <1>3 DEF Typed, sched, slot, permit, tools
<1>5. Workforce' /\ LeasesApart' /\ Cardinality(slots') <= CandidateSlots
  BY <1>0, <1>1 DEF Workforce, LeasesApart, InFlight, sched, slot
<1>6. PermitsCounted'
  BY <1>0 DEF PermitsCounted, permit
<1>7. ASSUME NEW c \in Calls PROVE HoldsAt(c)' /\ LogAt(c)' /\ LeftAt(c)'
  <2>0. HoldsAt(c) /\ LogAt(c) /\ LeftAt(c) /\ record[c] \in Seq(Events)
    BY DEF Typed
  <2>1. pc[c] \in {"new", "settled"} /\ pc'[c] = pc[c] /\ outcome'[c] = outcome[c]
    BY <1>0, <1>1, NoneInFlight DEF Workforce
  <2>2. HoldsAt(c)'
    BY <1>0, <2>0 DEF HoldsAt, tools, slot
  <2>3. CASE record'[c] = record[c] /\ dispatchState'[c] = dispatchState[c]
    BY <1>1, <2>0, <2>1, <2>2, <2>3 DEF LogAt, LeftAt, Gone, Dispatched, Untouched
  <2>4. CASE record'[c] = Append(record[c], "not-dispatched")
             /\ (dispatchState'[c] = "not-dispatched"
                 \/ (dispatchState'[c] = dispatchState[c] /\ ~Has(c, "started")))
    <3>1. /\ record'[c] # << >> /\ LastOf(record'[c]) = "not-dispatched"
          /\ HasIn(record'[c], "deferred") <=> HasIn(record[c], "deferred")
      BY <2>0, <2>4, Appended DEF Events
    <3>2. dispatchState'[c] # "started"
      <4>1. record[c] # << >> => Len(record[c]) \in DOMAIN record[c]
        BY <2>0
      <4> QED BY <2>0, <2>4, <4>1 DEF LogAt, LastOf, Has
    <3>3. outcome[c] \in {"fulfilled", "denied"} => dispatchState'[c] \in {"not-dispatched", "finished"}
      BY <2>0, <2>4 DEF LogAt
    <3> QED BY <1>1, <2>0, <2>1, <2>2, <3>1, <3>2, <3>3 DEF LogAt, LeftAt, Gone, Dispatched
  <2> QED BY <1>3, <2>3, <2>4
<1> QED BY <1>4, <1>5, <1>6, <1>7

\* The invariant holds at the start.
LEMMA RoundInvInit == Init => RoundInv
<1> SUFFICES ASSUME Init PROVE RoundInv
  OBVIOUS
<1> USE DEF Init
<1>0. Workers \in Nat
  BY DEF Workers
<1>1. Typed
  <2>1. << >> \in Seq(Events) /\ << >> \in Seq(Calls)
    OBVIOUS
  <2>2. claimed \in 0..CallCount /\ 0 \in 0..MaxAttempts
    OBVIOUS
  <2>3. /\ pc \in [Calls -> Places] /\ attempts \in [Calls -> 0..MaxAttempts] /\ outcome \in [Calls -> Outcomes]
        /\ dispatchState \in [Calls -> DispatchStates] /\ record \in [Calls -> Seq(Events)]
    BY <2>1, <2>2 DEF Places, Outcomes, DispatchStates
  <2> QED BY <1>0, <2>1, <2>2, <2>3 DEF Typed, Outcomes
<1>2. InFlight(pc) = {} /\ Cardinality({}) = 0
  BY FS_EmptySet DEF InFlight
<1>3. Workforce
  <2>1. looping + waiting + Cardinality(InFlight(pc)) <= Workers
    <3>1. looping = Workers /\ waiting = 0
      OBVIOUS
    <3> HIDE DEF Init
    <3>2. Cardinality(InFlight(pc)) = 0
      BY <1>2
    <3> QED BY <1>0, <3>1, <3>2
  <2>2. \A c \in Calls : pc[c] = "new" <=> c > claimed
    BY DEF Calls
  <2> QED BY <1>2, <2>1, <2>2 DEF Workforce
<1>4. LeasesApart /\ Cardinality(slots) <= CandidateSlots /\ PermitsCounted
  BY <1>2 DEF LeasesApart, PermitsCounted
<1>5. ASSUME NEW c \in Calls PROVE HoldsAt(c) /\ LogAt(c) /\ LeftAt(c)
  <2>1. pc[c] = "new" /\ Untouched(c) /\ record[c] = << >>
    BY DEF Untouched
  <2>2. HoldsAt(c)
    BY <2>1 DEF HoldsAt, Gone
  <2>3. ~HasIn(record[c], "deferred")
    BY <2>1 DEF HasIn
  <2> QED BY <2>1, <2>2, <2>3 DEF LogAt, LeftAt, Untouched, Gone, Dispatched
<1> QED BY <1>1, <1>3, <1>4, <1>5 DEF RoundInv

\* Every step keeps it.
LEMMA RoundInvNext == RoundInv /\ [Next]_vars => RoundInv'
<1> SUFFICES ASSUME RoundInv, [Next]_vars PROVE RoundInv'
  OBVIOUS
<1>1. CASE UNCHANGED vars
  BY <1>1 DEF vars, sched, slot, permit, log, tools, ending, RoundInv, Typed, Workforce, InFlight,
     LeasesApart, PermitsCounted, HoldsAt, LogAt, LeftAt, Untouched
<1>2. CASE Over
  BY <1>1, <1>2 DEF Over
<1> QED BY <1>1, <1>2, WorkerKeeps, CallStepKeeps, AbortKeeps, ExecutorKeeps, MaterializeKeeps,
           RoundStepKeeps DEF Next

\* The account of calls, workers, leases and permits (RoundInv) holds in every
\* state of the program.
THEOREM RoundInvariant == Spec => []RoundInv
BY RoundInvInit, RoundInvNext, PTL DEF Spec
-----------------------------------------------------------------------------
(* What the invariant says of resources.                                   *)

\* Calls over the same resource never execute at once, whatever is answered: an
\* executor that outlives its call keeps the lease (turn.ts, the finally blocks).
THEOREM OverlapNever == Spec => []NoOverlap
<1>1. RoundInv => NoOverlap
  BY DEF RoundInv, HoldsAt, LeasesApart, NoOverlap, Typed
<1> QED BY <1>1, RoundInvariant, PTL

\* Slots, permits and workers stay within their numbers, and all are back when
\* the round is settled.
THEOREM AllIsReturned == Spec => []AllReturned
<1>1. ASSUME RoundInv PROVE AllReturned
  <2> USE <1>1 DEF RoundInv
  <2>1. TypeOK
    BY DEF TypeOK, Typed, Workforce, PermitsCounted, DispatchStates
  <2>2. ASSUME round # "tools" PROVE slots = {} /\ permits = {} /\ leases = executing
    <3>1. \A c \in Calls : pc[c] \in {"new", "settled"}
      BY <2>2, NoneInFlight DEF Workforce
    <3>2. permits = {}
      BY <3>1 DEF PermitsCounted, PermitPlaces, Dispatched, Typed
    <3>3. slots = {} /\ leases = executing
      BY <3>1 DEF HoldsAt, Gone, Typed
    <3> QED BY <3>2, <3>3
  <2> QED BY <2>1, <2>2 DEF AllReturned
<1> QED BY <1>1, RoundInvariant, PTL
-----------------------------------------------------------------------------
(* What a worker may claim.                                                *)

\* After a denial nothing is claimed before the calls in flight have settled
\* (mapWithConcurrency, the state "draining").
THEOREM DrainIsFirst == Spec => DrainFirst
<1>1. ASSUME RoundInv, [Next]_vars, claimed' > claimed,
             state = "draining" \/ \E c \in Calls : Denies(c)
      PROVE  \A d \in 1..claimed : pc'[d] = "settled"
  <2> USE <1>1 DEF RoundInv
  <2>0. claimed' # claimed
    BY DEF Typed
  <2>1. ASSUME NEW p \in [Calls -> Places], NEW s \in {"running", "draining", "stopped"},
               NEW l \in Nat, NEW q \in Nat, GoRound(p, s, l, q), s \in {"draining", "stopped"},
               l + q + Cardinality(InFlight(p)) < Workers,
               \A d \in Calls : p[d] = "new" <=> d > claimed
        PROVE  \A d \in 1..claimed : pc'[d] = "settled"
    <3>1. /\ InFlight(p) = {}
          /\ \A d \in Calls : pc'[d] = p[d] \/ (p[d] = "new" /\ pc'[d] = Entry)
      BY <2>0, <2>1, RoundGone
    <3>2. 1..claimed \subseteq Calls /\ \A d \in 1..claimed : ~(d > claimed)
      BY DEF Typed, Calls
    <3> QED BY <2>1, <3>1, <3>2 DEF InFlight
  <2>2. CASE Loop
    <3>1. \A c \in Calls : ~Denies(c)
      <4>1. ASSUME NEW c \in Calls, Denies(c) PROVE FALSE
        <5>1. pc[c] = "ended" /\ pc'[c] = "settled"
          BY <4>1 DEF Denies
        <5>2. pc'[c] = pc[c] \/ pc[c] = "new"
          BY <2>2, LoopGoes, RoundGone DEF Loop, Typed
        <5> QED BY <5>1, <5>2
      <4> QED BY <4>1
    <3>2. state = "draining" /\ GoRound(pc, state, looping - 1, waiting)
      BY <2>2, <3>1 DEF Loop
    <3>3. pc \in [Calls -> Places] /\ waiting \in Nat
      BY DEF Typed
    <3> QED BY <2>1, <2>2, <3>2, <3>3, LoopGoes
  <2>3. ASSUME NEW c \in Calls, Settle(c) PROVE \A d \in 1..claimed : pc'[d] = "settled"
    <3> DEFINE p == [pc EXCEPT ![c] = "settled"]
    <3>1. PICK l, q \in Nat :
            /\ p \in [Calls -> Places] /\ AfterSettling(c) \in {"running", "draining", "stopped"}
            /\ GoRound(p, AfterSettling(c), l, q) /\ l + q + Cardinality(InFlight(p)) < Workers
            /\ \A d \in Calls : p[d] = "new" <=> d > claimed
      BY <2>3, SettleGoes
    <3>2. \A d \in Calls \ {c} : p[d] = pc[d]
      BY DEF Typed
    <3> HIDE DEF p
    <3>3. \A d \in Calls \ {c} : ~Denies(d)
      <4>1. ASSUME NEW d \in Calls \ {c}, Denies(d) PROVE FALSE
        <5>1. pc[d] = "ended" /\ pc'[d] = "settled"
          BY <4>1 DEF Denies
        <5>2. pc'[d] = p[d] \/ p[d] = "new"
          BY <3>1, RoundGone
        <5> QED BY <3>2, <5>1, <5>2
      <4> QED BY <4>1
    <3>4. state = "draining" \/ outcome[c] = "denied"
      BY <3>3 DEF Denies
    <3>5. AfterSettling(c) \in {"draining", "stopped"}
      BY <3>4 DEF AfterSettling, Typed
    <3> QED BY <2>1, <3>1, <3>5
  <2>4. CASE UNCHANGED vars \/ Abort \/ Materialize \/ RoundStep \/ Over
             \/ \E c \in Calls : CallStep(c) \/ ExecutorSettles(c)
    BY <2>0, <2>4 DEF vars, sched, Abort, Materialize, RoundStep, Over, CallStep, ExecutorSettles
  <2> QED BY <2>2, <2>3, <2>4 DEF Next
<1>2. RoundInv /\ [Next]_vars
        => [claimed' > claimed /\ (state = "draining" \/ \E c \in Calls : Denies(c))
              => \A c \in 1..claimed : pc'[c] = "settled"]_vars
  BY <1>1
<1> QED BY <1>2, RoundInvariant, PTL DEF Spec, DrainFirst

\* Once a sibling was deferred a call that nobody claimed is not dispatched.
THEOREM ParkIsStop == Spec => ParkStops
<1>1. ASSUME RoundInv, [Next]_vars, parkRequested, NEW c \in Calls, pc[c] = "new"
      PROVE  pc'[c] \in {"new", "barred"}
  <2> USE <1>1 DEF RoundInv
  <2>1. ASSUME NEW p \in [Calls -> Places], NEW s \in {"running", "draining", "stopped"},
               NEW l \in Nat, NEW q \in Nat, GoRound(p, s, l, q), p[c] = "new",
               l + q + Cardinality(InFlight(p)) < Workers,
               \A d \in Calls : p[d] = "new" <=> d > claimed
        PROVE  pc'[c] \in {"new", "barred"}
    <3>1. pc'[c] = p[c] \/ pc'[c] = Entry
      BY <2>1, RoundGone
    <3> QED BY <2>1, <3>1 DEF Entry
  <2>2. CASE Loop
    <3>1. GoRound(pc, state, looping - 1, waiting) /\ pc \in [Calls -> Places] /\ waiting \in Nat
          /\ state \in {"running", "draining", "stopped"}
      BY <2>2 DEF Loop, Typed
    <3> QED BY <2>1, <2>2, <3>1, LoopGoes
  <2>3. ASSUME NEW d \in Calls, Settle(d) PROVE pc'[c] \in {"new", "barred"}
    <3> DEFINE p == [pc EXCEPT ![d] = "settled"]
    <3>1. PICK l, q \in Nat :
            /\ p \in [Calls -> Places] /\ AfterSettling(d) \in {"running", "draining", "stopped"}
            /\ GoRound(p, AfterSettling(d), l, q) /\ l + q + Cardinality(InFlight(p)) < Workers
            /\ \A e \in Calls : p[e] = "new" <=> e > claimed
      BY <2>3, SettleGoes
    <3>2. p[c] = "new"
      BY <2>3 DEF Settle, Typed
    <3> HIDE DEF p
    <3> QED BY <2>1, <3>1, <3>2
  <2>4. ASSUME NEW d \in Calls, CallStep(d) PROVE pc'[c] \in {"new", "barred"}
    <3>1. pc[d] \notin {"new", "settled"}
      BY <2>4, UnderWay DEF Gone
    <3>2. CallDone(d) /\ d # c
      BY <2>4, <3>1, RoundIsOpen, CallKeeps DEF Local
    <3> QED BY <3>2 DEF CallDone
  <2>5. CASE UNCHANGED vars \/ Abort \/ Materialize \/ RoundStep \/ Over
             \/ \E d \in Calls : ExecutorSettles(d)
    BY <2>5 DEF vars, Abort, Materialize, RoundStep, Over, ExecutorSettles
  <2> QED BY <2>2, <2>3, <2>4, <2>5 DEF Next
<1>2. RoundInv /\ [Next]_vars
        => [parkRequested => \A c \in Calls : pc[c] = "new" => pc'[c] \in {"new", "barred"}]_vars
  BY <1>1
<1> QED BY <1>2, RoundInvariant, PTL DEF Spec, ParkStops
-----------------------------------------------------------------------------
(* How a round ends. While it is in its tools it is far from that; once it *)
(* is settled only the round itself, an abort and late executors step.     *)

\* While tools run, no end is written.
LEMMA InTools ==
  ASSUME [Next]_vars, round = "tools"
  PROVE  round' \in {"tools", "settled"} /\ UNCHANGED <<failure, terminal>>
BY DEF Next, vars, ending, Loop, Settle, Abort, Materialize, RoundStep, Continue, Park, Throw, Catch,
   Over, CallStep, ExecutorSettles

\* After the tools, only the steps of the round touch the calls.
LEMMA AfterTools ==
  ASSUME RoundInv, [Next]_vars, round # "tools", ~RoundStep
  PROVE  /\ UNCHANGED <<pc, outcome, log, approvals, ran, ending>> /\ (aborted => aborted')
<1> USE DEF RoundInv
<1>1. CASE UNCHANGED vars
  BY <1>1 DEF vars, tools
<1>2. CASE Abort \/ Over
  BY <1>2 DEF Abort, Over, vars, tools
<1>3. ASSUME NEW c \in Calls, ExecutorSettles(c)
      PROVE  UNCHANGED <<pc, outcome, log, approvals, ran, ending>> /\ (aborted => aborted')
  BY <1>3 DEF ExecutorSettles
<1>4. ~Loop /\ ~Materialize
  BY DEF Loop, Materialize, Workforce
<1>5. ASSUME NEW c \in Calls PROVE ~CallStep(c) /\ ~Settle(c)
  BY UnderWay, RoundIsOpen DEF Settle, Gone
<1> QED BY <1>1, <1>2, <1>3, <1>4, <1>5 DEF Next

\* A record that ends with a result leaves nothing open.
LEMMA OpenIsStarted ==
  ASSUME RoundInv, NEW c \in Calls
  PROVE  c \in OpenFor(record) <=> record[c] = << >> \/ dispatchState[c] = "started"
BY DEF RoundInv, LogAt, OpenFor, LastOf

\* A round that has not ended has no terminal event; a terminal event for certain
\* closed every call; and a grave rejection reached the outer catch.
Ending ==
  /\ round # "over" => terminal = "none"
  /\ terminal \in {"completed", "failed", "parked"} => OpenFor(record) = {}
  /\ round = "caught" /\ Grave => failure \in {"cancelled", "invalidated", "unrecorded"}
  /\ round = "over" /\ Grave => terminal = "interrupted"

\* Finish ends the round if nothing is open, and else goes to the catch.
LEMMA FinishEnds ==
  ASSUME NEW kind \in {"completed", "parked"}, NEW rec, Finish(kind, rec)
  PROVE  \/ round' = "over" /\ terminal' = kind /\ OpenFor(rec) = {} /\ approvals = {}
         \/ round' = "caught" /\ UNCHANGED terminal /\ ~(OpenFor(rec) = {} /\ approvals = {})
BY DEF Finish, Accepts

\* Without a rejection, or with a deferral only, nothing is grave.
LEMMA NotGrave ==
  ASSUME Rejected = {} \/ Gravest = "parked"
  PROVE  ~Grave
<1>1. CASE Rejected = {}
  BY <1>1 DEF Rejected, Grave
<1>2. CASE Rejected # {} /\ Gravest = "parked"
  BY <1>2, GravestIsOne
<1> QED BY <1>1, <1>2

\* Every step keeps the account of the rejections.
LEMMA EndingStep == ASSUME RoundInv, RoundInv', [Next]_vars, Ending PROVE Ending'
<1>1. CASE round = "tools"
  BY <1>1, InTools DEF Ending
<1>2. CASE round # "tools" /\ ~RoundStep
  BY <1>2, AfterTools DEF Ending, Grave, OpenFor, log, ending
<1>3. CASE RoundStep
  <2>0. UNCHANGED <<outcome, approvals>> /\ Grave' = Grave
    BY <1>3 DEF RoundStep, Grave
  <2>1. CASE Continue
    <3>1. Finish("completed", record) /\ record' = record /\ ~Grave /\ terminal = "none"
      BY <2>1, NotGrave DEF Continue, log, Ending
    <3>2. round' \in {"over", "caught"} /\ terminal' \in {"none", "completed"}
          /\ (terminal' # "none" => round' = "over" /\ OpenFor(record) = {})
      BY <3>1, FinishEnds
    <3> QED BY <2>0, <3>1, <3>2 DEF Ending, OpenFor
  <2>2. CASE Park
    <3>1. Finish("parked", record') /\ ~Grave /\ terminal = "none"
      BY <2>2, NotGrave DEF Park, Ending
    <3>2. round' \in {"over", "caught"} /\ terminal' \in {"none", "parked"}
          /\ (terminal' # "none" => round' = "over" /\ OpenFor(record') = {})
      BY <3>1, FinishEnds
    <3> QED BY <2>0, <3>1, <3>2 DEF Ending, OpenFor
  <2>3. CASE Throw
    <3>1. round' = "caught" /\ terminal' = "none" /\ failure' = Gravest
      BY <2>3 DEF Throw, Ending
    <3>2. Grave => failure' \in {"cancelled", "invalidated", "unrecorded"}
      BY <2>3, <3>1, GravestIsOne DEF Throw
    <3> QED BY <2>0, <3>1, <3>2 DEF Ending
  <2>4. CASE Catch
    <3>1. round' = "over" /\ round = "caught"
      BY <2>4 DEF Catch
    <3>2. Grave => terminal' = "interrupted"
      BY <2>4, <3>1 DEF Catch, Accepts, Ending
    <3>3. terminal' \in {"completed", "failed", "parked"} => OpenFor(record') = {}
      BY <2>4 DEF Catch, Accepts
    <3> QED BY <2>0, <3>1, <3>2, <3>3 DEF Ending, OpenFor
  <2> QED BY <1>3, <2>1, <2>2, <2>3, <2>4 DEF RoundStep
<1> QED BY <1>1, <1>2, <1>3

\* The account of the rejections holds in every state of the program.
LEMMA EndingAlways == Spec => []Ending
<1>1. Init => Ending
  BY DEF Init, Ending
<1>2. RoundInv /\ RoundInv' /\ [Next]_vars /\ Ending => Ending'
  BY EndingStep
<1> QED BY <1>1, <1>2, RoundInvariant, PTL DEF Spec
-----------------------------------------------------------------------------
(* A turn with a deferred approval parks, where denials go to the model.   *)

DeferredOnly ==
  /\ ~aborted /\ approvals = {} /\ \E c \in Calls : Has(c, "deferred")
  /\ \A c \in Calls : outcome[c] \in {"fulfilled", "denied", "parked"}

Parks ==
  /\ round = "caught" => ~DeferredOnly
  /\ round = "over" /\ DeferredOnly => terminal = "parked"

\* The events a step of the round adds are no deferrals.
LEMMA NoneDeferred ==
  ASSUME RoundInv, RoundStep, NEW c \in Calls, Has(c, "deferred")'
  PROVE  Has(c, "deferred")
<1>1. record[c] \in Seq(Events)
  BY DEF RoundInv, Typed
<1>2. record'[c] \in {record[c], Append(record[c], "not-dispatched")}
  <2>1. CASE Continue
    BY <2>1 DEF Continue, log
  <2>2. CASE Park \/ Throw
    BY <2>2, PendingMarked DEF RoundInv, Park, Throw, MarkedOr
  <2>3. CASE Catch
    BY <2>3 DEF Catch
  <2> QED BY <2>1, <2>2, <2>3 DEF RoundStep
<1>3. HasIn(Append(record[c], "not-dispatched"), "deferred") <=> HasIn(record[c], "deferred")
  BY <1>1, Appended DEF Events
<1> QED BY <1>2, <1>3 DEF Has, HasIn

\* With a deferral, and nothing but deferrals rejected, the round parks.
LEMMA DeferredParks ==
  ASSUME ReturnDenied = TRUE, RoundInv, RoundInv', DeferredOnly, RoundStep, round = "settled"
  PROVE  round' = "over" /\ terminal' = "parked"
<1> USE DEF RoundInv
<1>1. PICK c \in Calls : HasIn(record[c], "deferred")
  BY DEF DeferredOnly, Has, HasIn
<1>2. outcome[c] = "parked"
  BY <1>1 DEF LogAt, DeferredOnly
<1>3. Rejected # {} /\ \A d \in Rejected : outcome[d] = "parked"
  BY <1>2 DEF Rejected, DeferredOnly
<1>4. Gravest = "parked"
  BY <1>3, GravestIsOne
<1>5. Park
  BY <1>3, <1>4 DEF RoundStep, Continue, Throw, Catch
<1>6. OpenFor(record') = {}
  <2>1. ASSUME NEW d \in Calls PROVE ~(record'[d] = << >> \/ dispatchState'[d] = "started")
    <3>1. dispatchState[d] # "started"
      <4>1. pc[d] \in {"new", "settled"}
        BY NoneInFlight DEF Workforce
      <4> QED BY <4>1 DEF LeftAt, Gone, DeferredOnly
    <3>2. MarkedOr(d) /\ record[d] \in Seq(Events)
      BY <1>5, PendingMarked DEF Park, Typed
    <3>3. record[d] = << >> => Pending(d)
      BY DEF LogAt, Pending
    <3> QED BY <3>1, <3>2, <3>3, Appended DEF MarkedOr, Events
  <2>2. \A d \in Calls : d \notin OpenFor(record)'
    BY <2>1 DEF LogAt, OpenFor, LastOf
  <2> QED BY <2>2 DEF OpenFor
<1>7. Finish("parked", record') /\ approvals = {}
  BY <1>5 DEF Park, DeferredOnly
<1> QED BY <1>6, <1>7, FinishEnds

\* Every step keeps that a deferral alone leads to a parked end.
LEMMA ParksStep ==
  ASSUME ReturnDenied = TRUE, RoundInv, RoundInv', [Next]_vars, Parks
  PROVE  Parks'
<1>1. CASE round = "tools"
  BY <1>1, InTools DEF Parks
<1>2. CASE round # "tools" /\ ~RoundStep
  <2>1. UNCHANGED <<outcome, record, approvals, round, terminal>> /\ (aborted => aborted')
    BY <1>2, AfterTools DEF log, ending
  <2>2. DeferredOnly' => DeferredOnly
    BY <2>1 DEF DeferredOnly, Has
  <2> QED BY <2>1, <2>2 DEF Parks
<1>3. CASE RoundStep
  <2>1. DeferredOnly' => DeferredOnly
    BY <1>3, NoneDeferred DEF DeferredOnly, RoundStep
  <2>2. CASE round = "settled"
    BY <1>3, <2>1, <2>2, DeferredParks DEF Parks
  <2>3. CASE round = "caught"
    BY <2>1, <2>3 DEF Parks
  <2> QED BY <1>3, <2>2, <2>3 DEF RoundStep, Continue, Park, Throw, Catch
<1> QED BY <1>1, <1>2, <1>3

\* A round ends with nothing held, and parked if a deferral is all that stopped it,
\* when the model is told of denials (returnDeniedToolsToModel). When it is not, a
\* denied sibling speaks for the round in the order of the calls.
THEOREM RoundEndsParked ==
  ASSUME ReturnDenied = TRUE
  PROVE  Spec => []RoundEnds
<1>1. Init => Parks
  BY DEF Init, Parks
<1>2. RoundInv /\ RoundInv' /\ [Next]_vars /\ Parks => Parks'
  BY ParksStep
<1>3. Parks => DeferredIsParked
  BY DEF Parks, DeferredOnly, DeferredIsParked
<1> QED BY <1>1, <1>2, <1>3, RoundInvariant, AllIsReturned, PTL DEF Spec, RoundEnds
-----------------------------------------------------------------------------
(* What History is told. With "late-stale" a call may start twice, and the *)
(* violation run shows what becomes of that.                               *)

OneResult == {<< >>, <<"started">>, <<"not-dispatched">>, <<"started", "finished">>,
              <<"started", "not-dispatched">>}

\* The whole record of a call that is open, started, or was ever run.
ToldAt(c) ==
  /\ Pending(c) => record[c] = << >> /\ round \in {"tools", "settled"}
  /\ dispatchState[c] = "started" => record[c] = <<"started">>
  /\ c \in ran => /\ pc[c] \in {"running", "finish"} \cup Gone
                  /\ record[c] \in {<<"started">>, <<"started", "finished">>}
  /\ "deferred" \notin Inputs => record[c] \in OneResult

\* Sequences that agree everywhere are the same.
LEMMA SameSequence ==
  ASSUME NEW S, NEW r \in Seq(S), NEW t \in Seq(S), Len(r) = Len(t), \A i \in 1..Len(r) : r[i] = t[i]
  PROVE  r = t
OBVIOUS

\* The first and the second event of a record.
LEMMA Appends ==
  /\ \A x \in Events : Append(<< >>, x) = <<x>>
  /\ \A x, y \in Events : Append(<<x>>, y) = <<x, y>>
<1>1. ASSUME NEW x \in Events PROVE Append(<< >>, x) = <<x>>
  <2>1. << >> \in Seq(Events) /\ <<x>> \in Seq(Events) /\ Append(<< >>, x) \in Seq(Events)
    OBVIOUS
  <2> QED BY <2>1
<1>2. ASSUME NEW x \in Events, NEW y \in Events PROVE Append(<<x>>, y) = <<x, y>>
  <2>1. <<x>> \in Seq(Events) /\ <<x, y>> \in Seq(Events) /\ Append(<<x>>, y) \in Seq(Events)
    OBVIOUS
  <2>2. Len(<<x>>) = 1 /\ Len(<<x, y>>) = 2 /\ <<x>>[1] = x
    OBVIOUS
  <2>3. Len(Append(<<x>>, y)) = 2 /\ Append(<<x>>, y)[1] = x /\ Append(<<x>>, y)[2] = y
    BY <2>1, <2>2
  <2>4. \A i \in 1..2 : i = 1 \/ i = 2
    OBVIOUS
  <2>5. \A i \in 1..2 : Append(<<x>>, y)[i] = <<x, y>>[i]
    BY <2>3, <2>4
  <2> QED BY <2>1, <2>2, <2>3, <2>5, SameSequence
<1> QED BY <1>1, <1>2

\* A step of one call leaves what History has of each one true.
LEMMA ToldCall ==
  ASSUME "late-stale" \notin Inputs, RoundInv, NEW c \in Calls, CallStep(c), NEW d \in Calls, ToldAt(d)
  PROVE  ToldAt(d)'
<1> USE DEF RoundInv
<1>0. pc[c] \notin {"new"} \cup Gone /\ round = "tools" /\ round' = round
  BY UnderWay, RoundIsOpen DEF Gone, CallStep, ending
<1>1. CallDone(c) /\ Moves(c)
  BY <1>0, CallKeeps DEF Local
<1>2. CASE d # c
  BY <1>0, <1>1, <1>2 DEF ToldAt, CallDone, Pending
<1>3. CASE d = c
  <2> USE <1>3
  <2>0. LogAt(c) /\ ToldAt(c) /\ pc'[c] \in Places \ {"new", "settled"}
    BY <1>1 DEF CallDone
  <2>1. CASE UNCHANGED log
    <3>1. record'[c] = record[c] /\ dispatchState'[c] = dispatchState[c]
      BY <2>1 DEF log
    <3>2. c \in ran' => /\ pc'[c] \in {"running", "finish"} \cup Gone
                        /\ record[c] \in {<<"started">>, <<"started", "finished">>}
      <4>1. CASE UNCHANGED ran
        BY <1>0, <1>1, <2>0, <4>1 DEF Moves, RanMove, ToldAt, Gone
      <4>2. CASE pc[c] = "started" /\ ran' = ran \cup {c} /\ pc'[c] = "running"
        BY <2>0, <4>2 DEF LogAt, Dispatched, ToldAt
      <4> QED BY <1>1, <4>1, <4>2 DEF Moves, RanMove
    <3> QED BY <1>0, <2>0, <3>1, <3>2 DEF ToldAt, Pending
  <2>2. CASE ~(UNCHANGED log)
    <3>0. UNCHANGED ran /\ (pc[c] \in {"running", "finish"} => pc'[c] \in {"finish", "ended"})
      BY <1>1, <2>2 DEF Moves, RanMove
    <3>1. record \in [Calls -> Seq(Events)] /\ dispatchState \in [Calls -> DispatchStates]
      BY DEF Typed
    <3>2. CASE Untouched(c) /\ pc[c] \notin Dispatched
      <4>1. record[c] = << >> /\ c \notin ran
        BY <1>0, <2>0, <3>2 DEF Untouched, ToldAt, Pending, Dispatched
      <4>2. CASE Mark(c)
        <5>1. record'[c] = <<"not-dispatched">> /\ dispatchState'[c] = "not-dispatched"
          BY <3>1, <4>1, <4>2, Appends DEF Mark, Log, Events
        <5> QED BY <3>0, <4>1, <5>1 DEF ToldAt, Pending, OneResult
      <4>3. CASE Log(c, "deferred", "finished") /\ "deferred" \in Inputs
        <5>1. dispatchState'[c] = "finished"
          BY <3>1, <4>3 DEF Log
        <5> QED BY <3>0, <4>1, <4>3, <5>1 DEF ToldAt, Pending
      <4>4. CASE Log(c, "started", "started")
        <5>1. record'[c] = <<"started">> /\ dispatchState'[c] = "started"
          BY <3>1, <4>1, <4>4, Appends DEF Log, Events
        <5> QED BY <3>0, <4>1, <5>1 DEF ToldAt, Pending, OneResult
      <4> QED BY <1>1, <2>2, <3>2, <4>2, <4>3, <4>4 DEF Moves, LogMove, Dispatched
    <3>3. CASE pc[c] = "started" /\ Mark(c)
      <4>1. record[c] = <<"started">> /\ c \notin ran
        BY <2>0, <3>3 DEF LogAt, Dispatched, ToldAt, Gone
      <4>2. record'[c] = <<"started", "not-dispatched">> /\ dispatchState'[c] = "not-dispatched"
        BY <3>1, <3>3, <4>1, Appends DEF Mark, Log, Events
      <4> QED BY <3>0, <4>1, <4>2 DEF ToldAt, Pending, OneResult
    <3>4. CASE pc[c] = "finish" /\ Log(c, "finished", "finished")
      <4>1. record[c] = <<"started">>
        BY <2>0, <3>4 DEF LogAt, Dispatched, ToldAt
      <4>2. record'[c] = <<"started", "finished">> /\ dispatchState'[c] = "finished"
        BY <3>1, <3>4, <4>1, Appends DEF Log, Events
      <4> QED BY <3>0, <3>4, <4>2 DEF ToldAt, Pending, OneResult, Gone
    <3> QED BY <1>1, <2>2, <3>2, <3>3, <3>4 DEF Moves, LogMove, Dispatched
  <2> QED BY <2>1, <2>2
<1> QED BY <1>2, <1>3

\* So does a worker that looks for its next call,
LEMMA ToldWorker ==
  ASSUME RoundInv, Loop \/ \E c \in Calls : Settle(c), NEW d \in Calls, ToldAt(d)
  PROVE  ToldAt(d)'
<1> USE DEF RoundInv
<1>1. UNCHANGED <<log, tools, ending>>
  BY DEF Loop, Settle
<1>2. pc'[d] = pc[d] \/ pc'[d] = "settled" \/ pc[d] = "new"
  <2>1. CASE Loop
    <3>1. GoRound(pc, state, looping - 1, waiting) /\ pc \in [Calls -> Places] /\ waiting \in Nat
          /\ state \in {"running", "draining", "stopped"}
      BY <2>1 DEF Loop, Typed
    <3> QED BY <2>1, <3>1, LoopGoes, RoundGone
  <2>2. ASSUME NEW c \in Calls, Settle(c) PROVE pc'[d] = pc[d] \/ pc'[d] = "settled" \/ pc[d] = "new"
    <3> DEFINE p == [pc EXCEPT ![c] = "settled"]
    <3>1. PICK l, q \in Nat :
            /\ p \in [Calls -> Places] /\ AfterSettling(c) \in {"running", "draining", "stopped"}
            /\ GoRound(p, AfterSettling(c), l, q) /\ l + q + Cardinality(InFlight(p)) < Workers
            /\ \A e \in Calls : p[e] = "new" <=> e > claimed
      BY <2>2, SettleGoes
    <3>2. p[d] = pc[d] \/ p[d] = "settled"
      BY DEF Typed
    <3> HIDE DEF p
    <3>3. pc'[d] = p[d] \/ p[d] = "new"
      BY <3>1, RoundGone
    <3> QED BY <3>2, <3>3
  <2> QED BY <2>1, <2>2
<1> QED BY <1>1, <1>2 DEF ToldAt, Pending, log, tools, ending, Gone

\* writing down what was not run,
LEMMA ToldMaterialized ==
  ASSUME RoundInv, Materialize, NEW c \in Calls, ToldAt(c)
  PROVE  ToldAt(c)'
<1> USE DEF RoundInv
<1>0. pc[c] \in {"new", "settled"} /\ pc'[c] = pc[c] /\ ran' = ran /\ round' = "settled" /\ round = "tools"
  BY Materialized, NoneInFlight DEF Materialize, tools
<1>1. CASE pc[c] = "new"
  <2>1. record[c] = << >> /\ c \notin ran
    BY <1>0, <1>1 DEF LeftAt, ToldAt, Gone
  <2>2. record'[c] = <<"not-dispatched">> /\ dispatchState'[c] = "not-dispatched"
    BY <1>1, <2>1, Materialized, Appends DEF Events
  <2> QED BY <1>0, <2>1, <2>2 DEF ToldAt, Pending, OneResult
<1>2. CASE pc[c] = "settled" /\ outcome[c] \in {"unknown", "revoked"}
  <2>1. record[c] = <<"started">>
    BY <1>2 DEF LogAt, ToldAt
  <2>2. record'[c] = <<"started", "finished">> /\ dispatchState'[c] = "finished"
    BY <1>2, <2>1, Materialized, Appends DEF Events
  <2> QED BY <1>0, <1>2, <2>2 DEF ToldAt, Pending, OneResult, Gone
<1>3. CASE pc[c] = "settled" /\ outcome[c] \notin {"unknown", "revoked"}
  <2>1. record'[c] = record[c] /\ dispatchState'[c] = dispatchState[c]
    BY <1>3, Materialized
  <2> QED BY <1>0, <2>1 DEF ToldAt, Pending
<1> QED BY <1>0, <1>1, <1>2, <1>3

\* and each step after the tools.
LEMMA ToldRound ==
  ASSUME RoundInv, RoundStep, NEW c \in Calls, ToldAt(c)
  PROVE  ToldAt(c)'
<1> USE DEF RoundInv
<1>0. pc' = pc /\ ran' = ran
  BY DEF RoundStep, tools
<1>1. CASE Continue
  <2>1. record' = record /\ dispatchState' = dispatchState /\ Rejected = {}
    BY <1>1 DEF Continue, log
  <2>2. ~Pending(c)
    <3>1. outcome[c] \in {"fulfilled", "denied"}
      BY <2>1 DEF Rejected
    <3> QED BY <3>1 DEF LogAt, Pending
  <2> QED BY <1>0, <2>1, <2>2 DEF ToldAt, Pending
<1>2. CASE Park \/ Throw
  <2>1. MarkedOr(c)
    BY <1>2, PendingMarked DEF Park, Throw
  <2>2. CASE Pending(c)
    <3>1. record'[c] = <<"not-dispatched">> /\ dispatchState'[c] = "not-dispatched" /\ c \notin ran
      BY <2>1, <2>2, Appends DEF MarkedOr, ToldAt, Events
    <3> QED BY <1>0, <3>1 DEF ToldAt, Pending, OneResult
  <2>3. CASE ~Pending(c)
    BY <1>0, <2>1, <2>3 DEF MarkedOr, ToldAt, Pending
  <2> QED BY <2>2, <2>3
<1>3. CASE Catch
  <2>0. dispatchState' = dispatchState /\ round = "caught"
        /\ record'[c] = IF c \in LeftOver THEN Append(record[c], "not-dispatched") ELSE record[c]
    BY <1>3 DEF Catch
  <2>1. ~Pending(c) /\ record[c] # << >>
    BY <2>0 DEF ToldAt, LogAt, Pending
  <2>2. c \in LeftOver => record[c] \notin OneResult \cup {<<"started">>, <<"started", "finished">>}
    <3>1. Has(c, "started") \/ Has(c, "not-dispatched") \/ record[c] \notin OneResult
      BY <2>1 DEF Has, OneResult
    <3> QED BY <3>1 DEF LeftOver, Closed, OneResult
  <2>3. c \notin LeftOver => record'[c] = record[c]
    BY <2>0
  <2>4. "deferred" \notin Inputs => c \notin LeftOver
    BY <2>2 DEF ToldAt
  <2>5. dispatchState[c] = "started" \/ c \in ran => c \notin LeftOver
    BY <2>2 DEF ToldAt
  <2> QED BY <1>0, <2>0, <2>1, <2>3, <2>4, <2>5 DEF ToldAt, Pending
<1> QED BY <1>1, <1>2, <1>3 DEF RoundStep

Told == \A c \in Calls : ToldAt(c)

\* What History has of each call is true in every state of the program.
LEMMA ToldAlways ==
  ASSUME "late-stale" \notin Inputs
  PROVE  Spec => []Told
<1>1. Init => Told
  BY DEF Init, Told, ToldAt, OneResult
<1>2. ASSUME RoundInv, [Next]_vars, Told PROVE Told'
  <2>1. ASSUME NEW c \in Calls PROVE ToldAt(c)'
    <3>0. ToldAt(c)
      BY <1>2 DEF Told
    <3>1. CASE UNCHANGED vars \/ Over \/ Abort \/ \E d \in Calls : ExecutorSettles(d)
      BY <3>0, <3>1 DEF vars, Over, Abort, ExecutorSettles, log, tools, ending, ToldAt, Pending
    <3> QED BY <1>2, <3>0, <3>1, ToldCall, ToldWorker, ToldMaterialized, ToldRound DEF Next
  <2> QED BY <2>1 DEF Told
<1> QED BY <1>1, <1>2, RoundInvariant, PTL DEF Spec

\* A terminal event other than an interruption leaves no call started.
Silent == round = "over" /\ terminal # "interrupted" => \A c \in Calls : dispatchState[c] # "started"

\* History refuses no terminal event, since no approval is left open.
Accepted == round = "over" => terminal # "none"

\* Every step keeps that a round which does not end interrupted leaves no call
\* merely started.
LEMMA SilentStep ==
  ASSUME RoundInv, RoundInv', Told, Ending, Silent, [Next]_vars
  PROVE  Silent'
<1> USE DEF RoundInv
<1>1. CASE round = "tools"
  BY <1>1, InTools DEF Silent
<1>2. CASE round # "tools" /\ ~RoundStep
  BY <1>2, AfterTools DEF Silent, log, ending
<1>3. CASE Continue \/ Park
  <2>1. round' = "over" => OpenFor(record)' = {}
    BY <1>3, FinishEnds DEF Continue, Park, OpenFor, log
  <2>2. \A c \in Calls : dispatchState'[c] = "started" => c \in OpenFor(record)'
    BY DEF LogAt, OpenFor, LastOf
  <2> QED BY <2>1, <2>2 DEF Silent
<1>4. CASE Throw
  BY <1>4 DEF Throw, Silent
<1>5. CASE Catch
  <2>1. ASSUME NEW c \in Calls, dispatchState[c] = "started" PROVE ~Closed(c) /\ Has(c, "started")
    <3>1. record[c] = <<"started">>
      BY <2>1 DEF Told, ToldAt
    <3> QED BY <3>1 DEF Closed, Has
  <2>2. (\E c \in Calls : dispatchState[c] = "started") => terminal' = "interrupted"
    BY <1>5, <2>1 DEF Catch, Accepts
  <2> QED BY <1>5, <2>2 DEF Catch, Silent
<1> QED BY <1>1, <1>2, <1>3, <1>4, <1>5 DEF RoundStep

\* Every step keeps that a round which is over has its terminal event.
LEMMA AcceptedStep ==
  ASSUME "bad-checkpoint" \notin Inputs, RoundInv, RoundInv', Told, Accepted, [Next]_vars
  PROVE  Accepted'
<1> USE DEF RoundInv
<1>1. CASE round = "tools"
  BY <1>1, InTools DEF Accepted
<1>2. CASE round # "tools" /\ ~RoundStep
  BY <1>2, AfterTools DEF Accepted, ending
<1>3. CASE Continue \/ Park
  <2>1. round' = "over" => terminal' \in {"completed", "parked"}
    BY <1>3, FinishEnds DEF Continue, Park
  <2> QED BY <2>1 DEF Accepted
<1>4. CASE Throw
  BY <1>4 DEF Throw, Accepted
<1>5. CASE Catch
  <2>0. round = "caught" /\ approvals = {}
    <3>1. round = "caught"
      BY <1>5 DEF Catch
    <3>2. \A c \in Calls : pc[c] \in {"new", "settled"}
      BY <3>1, NoneInFlight DEF Workforce
    <3> QED BY <3>1, <3>2 DEF HoldsAt, Typed
  <2>1. ASSUME NEW c \in Calls
        PROVE  record[c] # << >> /\ (dispatchState[c] = "started" => ~Closed(c) /\ Has(c, "started"))
    <3>1. record[c] # << >>
      BY <2>0 DEF Told, ToldAt, LogAt, Pending
    <3>2. dispatchState[c] = "started" => record[c] = <<"started">>
      BY DEF Told, ToldAt
    <3> QED BY <3>1, <3>2 DEF Closed, Has
  <2>2. CASE \E c \in Calls : dispatchState[c] = "started"
    BY <1>5, <2>1, <2>2 DEF Catch, Accepts, Accepted
  <2>3. CASE ~(\E c \in Calls : dispatchState[c] = "started")
    <3>1. dispatchState' = dispatchState /\ \A c \in Calls : record'[c] # << >>
      <4>1. \A c \in Calls : Append(record[c], "not-dispatched") # << >>
        BY Appended DEF Typed, Events
      <4> QED BY <1>5, <2>1, <4>1 DEF Catch
    <3>2. OpenFor(record)' = {}
      <4>1. \A c \in Calls : c \notin OpenFor(record)'
        BY <2>3, <3>1 DEF LogAt, OpenFor, LastOf
      <4> QED BY <4>1 DEF OpenFor
    <3>3. OpenFor(record') = {}
      BY <3>2 DEF OpenFor
    <3> QED BY <1>5, <2>0, <3>3 DEF Catch, Accepts, Accepted
  <2> QED BY <2>2, <2>3
<1> QED BY <1>1, <1>2, <1>3, <1>4, <1>5 DEF RoundStep

\* Every turn gets its terminal event, and a cancelled, an invalidated or an
\* unrecorded call makes it an interruption, unless a checkpoint is invalid (its
\* approval stays open) or an authorization goes stale after the start (a known
\* disagreement).
THEOREM TerminalAlwaysFits ==
  ASSUME "late-stale" \notin Inputs, "bad-checkpoint" \notin Inputs
  PROVE  Spec => []TerminalFits
<1>1. Init => Accepted
  BY DEF Init, Accepted
<1>2. RoundInv /\ RoundInv' /\ Told /\ [Next]_vars /\ Accepted => Accepted'
  BY AcceptedStep
<1>3. Ending /\ Accepted => TerminalFits
  BY DEF Ending, Accepted, Grave, TerminalFits
<1> QED BY <1>1, <1>2, <1>3, RoundInvariant, ToldAlways, EndingAlways, PTL DEF Spec

\* A round that does not end interrupted leaves no call merely started, in any
\* state of the program.
LEMMA SilentAlways ==
  ASSUME "late-stale" \notin Inputs
  PROVE  Spec => []Silent
<1>1. Init => Silent
  BY DEF Init, Silent
<1>2. RoundInv /\ RoundInv' /\ Told /\ Ending /\ [Next]_vars /\ Silent => Silent'
  BY SilentStep
<1> QED BY <1>1, <1>2, RoundInvariant, ToldAlways, EndingAlways, PTL DEF Spec

\* A call whose executor ran is never written off as not dispatched, and if its
\* result was lost the turn is interrupted.
THEOREM RanAlwaysTold ==
  ASSUME "late-stale" \notin Inputs
  PROVE  Spec => []RanIsTold
<1>1. ASSUME RoundInv, Told, Silent PROVE RanIsTold
  <2>1. ASSUME NEW c \in ran
        PROVE  ~Has(c, "not-dispatched") /\ (round = "over" => Has(c, "finished") \/ terminal = "interrupted")
    <3>1. c \in Calls
      BY <1>1 DEF RoundInv, Typed
    <3>2. record[c] \in {<<"started">>, <<"started", "finished">>}
      BY <1>1, <2>1, <3>1 DEF Told, ToldAt
    <3>3. CASE record[c] = <<"started">>
      <4>1. dispatchState[c] = "started"
        BY <1>1, <3>1, <3>3 DEF RoundInv, LogAt, LastOf
      <4> QED BY <1>1, <3>1, <3>3, <4>1 DEF Silent, Has
    <3>4. CASE record[c] = <<"started", "finished">>
      <4>1. record[c][2] = "finished" /\ 2 \in DOMAIN record[c]
        BY <3>4
      <4> QED BY <3>4, <4>1 DEF Has
    <3> QED BY <3>2, <3>3, <3>4
  <2> QED BY <2>1 DEF RanIsTold
<1> QED BY <1>1, RoundInvariant, ToldAlways, SilentAlways, PTL

\* What History says of a call it says once, and it is so: without a late stale
\* authorization, and without a deferral, which the outer catch does not count as
\* a result and follows by a second one.
THEOREM ToldAlwaysOnce ==
  ASSUME "late-stale" \notin Inputs, "deferred" \notin Inputs
  PROVE  Spec => []ToldOnce
<1>1. ASSUME RoundInv, Told, Ending PROVE ClosedOnce
  <2>1. ASSUME NEW c \in Calls
        PROVE  LET results == {i \in DOMAIN record[c] : record[c][i] # "started"}
               IN /\ Cardinality(results) <= 1
                  /\ terminal \in {"completed", "failed", "parked"} => results # {}
    <3> DEFINE results == {i \in DOMAIN record[c] : record[c][i] # "started"}
    <3>1. record[c] \in OneResult
      BY <1>1 DEF Told, ToldAt
    <3>2. CASE record[c] \in {<< >>, <<"started">>}
      <4>1. results = {} /\ Cardinality({}) = 0
        BY <3>2, FS_EmptySet
      <4>2. c \in OpenFor(record)
        BY <3>2 DEF OpenFor
      <4> QED BY <1>1, <4>1, <4>2 DEF Ending
    <3>3. CASE record[c] = <<"not-dispatched">>
      <4>1. results = {1} /\ Cardinality({1}) = 1
        BY <3>3, FS_Singleton
      <4> QED BY <4>1
    <3>4. CASE record[c] \in {<<"started", "finished">>, <<"started", "not-dispatched">>}
      <4>1. DOMAIN record[c] = {1, 2} /\ record[c][1] = "started" /\ record[c][2] # "started"
        BY <3>4
      <4>2. results = {2} /\ Cardinality({2}) = 1
        BY <4>1, FS_Singleton
      <4> QED BY <4>2
    <3> QED BY <3>1, <3>2, <3>3, <3>4 DEF OneResult
  <2> QED BY <2>1 DEF ClosedOnce
<1>2. Spec => []RanIsTold
  BY RanAlwaysTold
<1>3. RoundInv /\ Told /\ Ending => ClosedOnce
  BY <1>1
<1>4. ClosedOnce /\ RanIsTold => ToldOnce
  BY DEF ToldOnce
<1> QED BY <1>2, <1>3, <1>4, RoundInvariant, ToldAlways, EndingAlways, PTL
=============================================================================
