----------------------------- MODULE ToolRound -----------------------------
(***************************************************************************)
(* One round of tool calls of a turn (packages/agent-sdk/src/turn.ts): the *)
(* calls of a model response run on a few workers, each through admission, *)
(* a candidate slot, the safety gate, approval, resource lease, recheck,   *)
(* dispatch and History; then the round is settled and the turn goes on,   *)
(* parks, or ends.                                                         *)
(*                                                                         *)
(* Calls are numbered in the order they are dispatched. pc[c] names the    *)
(* await that call c stands at; one action runs to the next one. What the  *)
(* host, the user, the gate and the port may answer is the set Inputs, so  *)
(* that a run can leave some of it out. ToolDispatch has the inside of the *)
(* port, ResourceLocks the inside of the leases.                           *)
(***************************************************************************)
EXTENDS Integers, Sequences, FiniteSets

CONSTANTS
  CallCount,       \* calls of the model response
  Limit,           \* maxConcurrentTools
  CandidateSlots,  \* limit of ApprovalCandidateSlots (2 in the code)
  ApprovalSlots,   \* limit of the approval semaphore (2 in the code)
  MaxAttempts,     \* dispatch authorizations of one call (8 in the code)
  Candidates,      \* calls for which isApprovalCandidate holds
  Clash,           \* pairs of calls whose resource keys conflict
  ReturnDenied,    \* returnDeniedToolsToModel
  Inputs           \* what may be answered besides the plain yes

Calls == 1..CallCount

ASSUME RoundAssumption ==
  /\ CallCount \in Nat \ {0} /\ Limit \in Nat \ {0}
  /\ CandidateSlots \in Nat \ {0} /\ ApprovalSlots \in Nat \ {0} /\ MaxAttempts \in Nat
  /\ Candidates \subseteq Calls /\ Clash \subseteq Calls \X Calls
  /\ ReturnDenied \in BOOLEAN

VARIABLES
  state, claimed, looping, waiting,    \* mapWithConcurrency: its workers, by what they do
  pc, attempts, outcome, dispatchState,
  slots, slotQueue,                    \* ApprovalCandidateSlots
  permits, permitQueue,                \* approvalSlots, a FIFO semaphore
  leases,                              \* calls that hold their resource keys
  record, approvals,                   \* History: events of a call, approvals waiting
  parkRequested, aborted,
  executing, ran,                      \* executors that run, that ever ran
  round, failure, terminal

sched == <<state, claimed, looping, waiting>>
slot == <<slots, slotQueue>>
permit == <<permits, permitQueue>>
log == <<record, dispatchState>>
tools == <<executing, ran>>
ending == <<round, failure, terminal>>
vars == <<sched, pc, attempts, outcome, slot, permit, leases, log, approvals,
          parkRequested, aborted, tools, ending>>

Outcomes == {"none", "fulfilled", "denied", "failed", "cancelled", "invalidated", "parked",
             "unknown", "revoked", "unrecorded"}
Workers == IF Limit < CallCount THEN Limit ELSE CallCount
InFlight(p) == {c \in 1..claimed : p[c] # "settled"}
Queued(q, c) == \E i \in DOMAIN q : q[i] = c

TypeOK ==
  /\ state \in {"running", "draining", "stopped"}
  /\ claimed \in 0..CallCount
  /\ looping + waiting + Cardinality(InFlight(pc)) <= Workers
  /\ \A c \in Calls : pc[c] = "new" <=> c > claimed
  /\ outcome \in [Calls -> Outcomes] /\ \A c \in Calls : attempts[c] <= MaxAttempts
  /\ dispatchState \in [Calls -> {"pending", "not-dispatched", "started", "finished"}]
  /\ Cardinality(slots) <= CandidateSlots /\ Cardinality(permits) <= ApprovalSlots
  /\ permitQueue # << >> => Cardinality(permits) = ApprovalSlots
  /\ executing \subseteq ran /\ ran \subseteq Calls
  /\ round \in {"tools", "settled", "caught", "over"} /\ failure \in Outcomes
  /\ terminal \in {"none", "completed", "failed", "interrupted", "parked"}

Init ==
  /\ state = "running" /\ claimed = 0 /\ looping = Workers /\ waiting = 0
  /\ pc = [c \in Calls |-> "new"] /\ attempts = [c \in Calls |-> 0]
  /\ outcome = [c \in Calls |-> "none"] /\ dispatchState = [c \in Calls |-> "pending"]
  /\ slots = {} /\ slotQueue = << >> /\ permits = {} /\ permitQueue = << >> /\ leases = {}
  /\ record = [c \in Calls |-> << >>] /\ approvals = {}
  /\ parkRequested = FALSE /\ aborted = FALSE
  /\ executing = {} /\ ran = {}
  /\ round = "tools" /\ failure = "none" /\ terminal = "none"
-----------------------------------------------------------------------------
(* The workers.                                                            *)

\* Mutated form of Entry: the park request is not looked at.
EntryAlways == "claimed"
Entry == IF parkRequested THEN "barred" ELSE "claimed"

\* A worker goes round its loop when it finds the calls at p, the scheduler in
\* state s, and l other workers about to loop while q wait for the drain.
GoRound(p, s, l, q) ==
  LET drained == s = "draining" /\ InFlight(p) = {}
      now == IF drained THEN "running" ELSE s
  IN /\ state' = now
     /\ looping' = IF drained THEN l + q ELSE l
     /\ waiting' = (IF drained THEN 0 ELSE q) + (IF now = "draining" THEN 1 ELSE 0)
     /\ IF now = "running" /\ claimed < CallCount
        THEN claimed' = claimed + 1 /\ pc' = [p EXCEPT ![claimed + 1] = Entry]
        ELSE UNCHANGED claimed /\ pc' = p

\* A worker starts, or was woken.
Loop ==
  /\ looping > 0
  /\ GoRound(pc, state, looping - 1, waiting)
  /\ UNCHANGED <<attempts, outcome, slot, permit, leases, log, approvals, parkRequested,
                 aborted, tools, ending>>

\* The state of the scheduler once call c settled: a denial only drains.
AfterSettling(c) ==
  CASE outcome[c] = "fulfilled" -> state
    [] outcome[c] = "denied" -> IF state = "running" THEN "draining" ELSE state
    [] OTHER -> "stopped"

\* Mutated form of Settle: a denial does not drain.
SettleUndrained(c) ==
  /\ pc[c] = "ended"
  /\ GoRound([pc EXCEPT ![c] = "settled"], IF outcome[c] = "denied" THEN state ELSE AfterSettling(c),
             looping + waiting, 0)
  /\ UNCHANGED <<attempts, outcome, slot, permit, leases, log, approvals, parkRequested,
                 aborted, tools, ending>>

\* The worker of call c sees it settle and goes on.
Settle(c) ==
  LET p == [pc EXCEPT ![c] = "settled"]
      s == AfterSettling(c)
      wakes == s = "stopped" \/ InFlight(p) = {}
  IN /\ pc[c] = "ended"
     /\ GoRound(p, s, IF wakes THEN looping + waiting ELSE looping, IF wakes THEN 0 ELSE waiting)
     /\ UNCHANGED <<attempts, outcome, slot, permit, leases, log, approvals, parkRequested,
                    aborted, tools, ending>>
-----------------------------------------------------------------------------
(* What the steps of a call have in common.                                *)

Goto(c, where) == pc' = [pc EXCEPT ![c] = where] /\ UNCHANGED outcome

Log(c, event, s) ==
  /\ record' = [record EXCEPT ![c] = Append(@, event)]
  /\ dispatchState' = [dispatchState EXCEPT ![c] = s]

\* markNotDispatched; the calls below are at "pending" when they come to it.
Mark(c) == Log(c, "not-dispatched", "not-dispatched")

\* The slot goes back and the first waiter is woken: it asks again, and may
\* find that another call was faster.
GiveSlot(c) ==
  /\ slots' = slots \ {c}
  /\ slotQueue' = IF c \in slots /\ slotQueue # << >> THEN Tail(slotQueue) ELSE slotQueue

\* The permit is handed to the first waiter.
GivePermit(c) ==
  IF c \in permits /\ permitQueue # << >>
  THEN permits' = (permits \ {c}) \cup {Head(permitQueue)} /\ permitQueue' = Tail(permitQueue)
  ELSE permits' = permits \ {c} /\ UNCHANGED permitQueue

\* Mutated forms of End: the permit is kept; the lease never waits for the executor.
EndKeepsPermit(c, how) ==
  /\ pc' = [pc EXCEPT ![c] = "ended"] /\ outcome' = [outcome EXCEPT ![c] = how]
  /\ GiveSlot(c) /\ UNCHANGED permit
  /\ leases' = IF c \in executing' THEN leases ELSE leases \ {c}
EndReleases(c, how) ==
  /\ pc' = [pc EXCEPT ![c] = "ended"] /\ outcome' = [outcome EXCEPT ![c] = how]
  /\ GiveSlot(c) /\ GivePermit(c)
  /\ leases' = leases \ {c}

\* The call returns or throws, through its finally blocks. The lease stays
\* while an executor that ignored its cancellation still runs.
End(c, how) ==
  /\ pc' = [pc EXCEPT ![c] = "ended"] /\ outcome' = [outcome EXCEPT ![c] = how]
  /\ GiveSlot(c) /\ GivePermit(c)
  /\ leases' = IF c \in executing' THEN leases ELSE leases \ {c}

\* The catch block around everything that holds the lease.
Caught(c, how) == IF c \in leases /\ aborted THEN "cancelled" ELSE how
-----------------------------------------------------------------------------
(* Admission, candidate slot and first decision.                           *)

\* The call was claimed after a sibling had been deferred.
Barred(c) ==
  /\ pc[c] = "barred"
  /\ UNCHANGED <<tools, log>> /\ End(c, "parked")
  /\ UNCHANGED <<attempts, approvals, parkRequested>>

\* The host turns the call away, or it is the sibling of a work directory switch:
\* the model is told.
TurnAway(c) ==
  /\ pc[c] = "claimed"
  /\ "reject" \in Inputs
  /\ UNCHANGED tools /\ Mark(c) /\ End(c, "fulfilled")
  /\ UNCHANGED <<attempts, approvals, parkRequested>>

Admit(c) ==
  /\ pc[c] = "claimed"
  /\ Goto(c, IF c \in Candidates THEN "slot" ELSE "check")
  /\ UNCHANGED <<slot, permit, leases, attempts, log, approvals, parkRequested, tools>>

TakeSlot(c) ==
  /\ pc[c] = "slot" /\ ~Queued(slotQueue, c) /\ ~aborted
  /\ IF Cardinality(slots) < CandidateSlots
     THEN slots' = slots \cup {c} /\ Goto(c, "check") /\ UNCHANGED slotQueue
     ELSE slotQueue' = Append(slotQueue, c) /\ UNCHANGED <<slots, pc, outcome>>
  /\ UNCHANGED <<permit, leases, attempts, log, approvals, parkRequested, tools>>

\* Cancelled before it was marked: a wait for the slot or the lease, or a check
\* of the signal after the gate answered.
Cancelled(c) ==
  /\ pc[c] \in {"slot", "check", "refresh", "lease", "recheck", "confirmed"} /\ aborted
  /\ UNCHANGED <<tools, log>> /\ End(c, "cancelled")
  /\ UNCHANGED <<attempts, approvals, parkRequested>>

\* prepareTool or the gate refuses: at first, after the policy changed, at the
\* recheck, or after the second approval.
Deny(c) ==
  /\ pc[c] \in {"check", "refresh", "recheck", "confirmed"} /\ "deny" \in Inputs
  /\ UNCHANGED tools /\ Mark(c) /\ End(c, Caught(c, "denied"))
  /\ UNCHANGED <<attempts, approvals, parkRequested>>

\* An error of the host that is no denial ends the call unmarked.
PrepareFails(c) ==
  /\ pc[c] = "check" /\ "throws" \in Inputs
  /\ UNCHANGED <<tools, log>> /\ End(c, "failed")
  /\ UNCHANGED <<attempts, approvals, parkRequested>>

Allow(c) ==
  /\ pc[c] \in {"check", "refresh"} /\ ~aborted
  /\ Goto(c, "lease")
  /\ UNCHANGED <<slot, permit, leases, attempts, log, approvals, parkRequested, tools>>

\* The gate wants an approval, at first or again at the recheck.
AskFor(c) ==
  /\ \/ pc[c] \in {"check", "refresh"} /\ "ask" \in Inputs
     \/ pc[c] = "recheck" /\ "ask-again" \in Inputs
  /\ ~aborted
  /\ Goto(c, "permit")
  /\ UNCHANGED <<slot, permit, leases, attempts, log, approvals, parkRequested, tools>>
-----------------------------------------------------------------------------
(* Approval. A call that holds its lease asks for the second time: it keeps *)
(* the permit until it ends.                                               *)

\* Mutated form of TakePermit: one permit too many.
TakeOneMore(c) ==
  /\ pc[c] = "permit" /\ c \notin permits /\ ~Queued(permitQueue, c) /\ ~aborted
  /\ IF Cardinality(permits) <= ApprovalSlots
     THEN permits' = permits \cup {c} /\ UNCHANGED permitQueue
     ELSE permitQueue' = Append(permitQueue, c) /\ UNCHANGED permits
  /\ UNCHANGED <<pc, outcome, slot, leases, attempts, log, approvals, parkRequested, tools>>

TakePermit(c) ==
  /\ pc[c] = "permit" /\ c \notin permits /\ ~Queued(permitQueue, c) /\ ~aborted
  /\ IF Cardinality(permits) < ApprovalSlots
     THEN permits' = permits \cup {c} /\ UNCHANGED permitQueue
     ELSE permitQueue' = Append(permitQueue, c) /\ UNCHANGED permits
  /\ UNCHANGED <<pc, outcome, slot, leases, attempts, log, approvals, parkRequested, tools>>

\* The semaphore rejects with an error of its own, which is no cancellation
\* unless the catch block around the lease sees it.
PermitAborted(c) ==
  /\ pc[c] = "permit" /\ c \notin permits /\ aborted
  /\ UNCHANGED tools /\ Mark(c) /\ End(c, Caught(c, "failed"))
  /\ UNCHANGED <<attempts, approvals, parkRequested>>

\* The approval-waiting event. A signal found aborted right after it is treated
\* as Refused treats it.
AppendWaiting(c) ==
  /\ pc[c] = "permit" /\ c \in permits
  /\ approvals' = approvals \cup {c} /\ Goto(c, "asked")
  /\ UNCHANGED <<slot, permit, leases, attempts, log, parkRequested, tools>>

AfterAnswer(c) == IF c \in leases THEN UNCHANGED permit ELSE GivePermit(c)

Approved(c) ==
  /\ pc[c] = "asked" /\ ~aborted
  /\ approvals' = approvals \ {c} /\ AfterAnswer(c)
  /\ Goto(c, IF c \in leases THEN "confirmed" ELSE "lease")
  /\ UNCHANGED <<slot, leases, attempts, log, parkRequested, tools>>

\* Any other settled answer, or an approval that came after the abort.
Refused(c) ==
  /\ pc[c] = "asked"
  /\ approvals' = approvals \ {c}
  /\ UNCHANGED tools /\ Mark(c) /\ End(c, IF aborted THEN "cancelled" ELSE "denied")
  /\ UNCHANGED <<attempts, parkRequested>>

\* Mutated form of ConfirmationFails: the approval is left waiting.
FailsUnresolved(c) ==
  /\ pc[c] = "asked" /\ "throws" \in Inputs
  /\ UNCHANGED <<tools, log>> /\ End(c, Caught(c, "failed"))
  /\ UNCHANGED <<attempts, approvals, parkRequested>>
ConfirmationFails(c) ==
  /\ pc[c] = "asked" /\ "throws" \in Inputs
  /\ approvals' = approvals \ {c}
  /\ UNCHANGED <<tools, log>> /\ End(c, Caught(c, "failed"))
  /\ UNCHANGED <<attempts, parkRequested>>

\* The policy changed while the approval waited: check again, or authorize again.
PolicyChanged(c) ==
  /\ pc[c] = "asked" /\ "changed" \in Inputs
  /\ approvals' = approvals \ {c} /\ AfterAnswer(c)
  /\ Goto(c, IF c \in leases THEN "final" ELSE "refresh")
  /\ UNCHANGED <<slot, leases, attempts, log, parkRequested, tools>>

\* The approval became a todo and the turn is to park.
Deferred(c) ==
  /\ pc[c] = "asked" /\ "deferred" \in Inputs
  /\ approvals' = approvals \ {c} /\ parkRequested' = TRUE
  /\ UNCHANGED tools /\ Log(c, "deferred", "finished") /\ End(c, Caught(c, "parked"))
  /\ UNCHANGED attempts

\* The checkpoint of the todo is not valid. No approval-resolved event is written.
DeferredInvalid(c) ==
  /\ pc[c] = "asked" /\ "bad-checkpoint" \in Inputs
  /\ UNCHANGED tools /\ Mark(c) /\ End(c, Caught(c, "denied"))
  /\ UNCHANGED <<attempts, approvals, parkRequested>>
-----------------------------------------------------------------------------
(* Lease, recheck and dispatch.                                            *)

TakeLease(c) ==
  /\ pc[c] = "lease" /\ ~aborted
  /\ \A d \in leases : <<c, d>> \notin Clash /\ <<d, c>> \notin Clash
  /\ leases' = leases \cup {c} /\ Goto(c, "final")
  /\ UNCHANGED <<slot, permit, attempts, log, approvals, parkRequested, tools>>

NextAttempt(c) ==
  /\ pc[c] = "final" /\ attempts[c] < MaxAttempts
  /\ attempts' = [attempts EXCEPT ![c] = @ + 1] /\ Goto(c, "recheck")
  /\ UNCHANGED <<slot, permit, leases, log, approvals, parkRequested, tools>>

AttemptsExhausted(c) ==
  /\ pc[c] = "final" /\ attempts[c] = MaxAttempts
  /\ UNCHANGED tools /\ Mark(c) /\ End(c, Caught(c, "denied"))
  /\ UNCHANGED <<attempts, approvals, parkRequested>>

Authorize(c) ==
  /\ pc[c] \in {"recheck", "confirmed"} /\ ~aborted
  /\ Goto(c, "dispatch")
  /\ UNCHANGED <<slot, permit, leases, attempts, log, approvals, parkRequested, tools>>

\* The port claimed the dispatch and tool-call-started is appended.
AppendStarted(c) ==
  /\ pc[c] = "dispatch"
  /\ Log(c, "started", "started") /\ Goto(c, "started")
  /\ UNCHANGED <<slot, permit, leases, attempts, approvals, parkRequested, tools>>

StartFails(c) ==
  /\ pc[c] = "dispatch" /\ "throws" \in Inputs
  /\ UNCHANGED <<tools, log>> /\ End(c, Caught(c, "failed"))
  /\ UNCHANGED <<attempts, approvals, parkRequested>>

\* The port proves that the executor was not entered: the state is pending
\* again and the call is marked. A refusal of the recovery guard is told to the
\* model as the result of the call, any other one is a denial.
DispatchRefused(c) ==
  /\ pc[c] \in {"dispatch", "started"}
  /\ UNCHANGED tools /\ Mark(c)
  /\ \E how \in {"cancelled", "denied", "fulfilled"} :
       /\ IF aborted THEN how = "cancelled"
          ELSE \/ how = "denied" /\ "refused" \in Inputs
               \/ how = "fulfilled" /\ "verify-only" \in Inputs
       /\ End(c, how)
  /\ UNCHANGED <<attempts, approvals, parkRequested>>

\* The authorization went stale before the start was appended, or after it:
\* then the start is taken back by an event. The call authorizes again.
DispatchStale(c) ==
  /\ \/ pc[c] = "dispatch" /\ "stale" \in Inputs
     \/ pc[c] = "started" /\ "late-stale" \in Inputs
  /\ ~aborted
  /\ IF pc[c] = "started" THEN Log(c, "not-dispatched", "pending") ELSE UNCHANGED log
  /\ Goto(c, "final")
  /\ UNCHANGED <<slot, permit, leases, attempts, approvals, parkRequested, tools>>

\* The port may miss a cancellation (module ToolDispatch), so none is asked for.
ExecutorEntered(c) ==
  /\ pc[c] = "started"
  /\ executing' = executing \cup {c} /\ ran' = ran \cup {c} /\ Goto(c, "running")
  /\ UNCHANGED <<slot, permit, leases, attempts, log, approvals, parkRequested>>

Returned(c) ==
  /\ pc[c] = "running"
  /\ executing' = executing \ {c} /\ leases' = leases \ {c} /\ Goto(c, "finish")
  /\ UNCHANGED <<slot, permit, attempts, log, approvals, parkRequested, ran>>

\* The executor throws: the result is unknown.
ExecutorFails(c) ==
  /\ pc[c] = "running" /\ "throws" \in Inputs
  /\ executing' = executing \ {c} /\ End(c, "unknown")
  /\ UNCHANGED <<attempts, log, approvals, parkRequested, ran>>

\* Mutated form of ReturnsUnknown: a cancelled call waits for its executor.
ReturnsIfRevoked(c) ==
  /\ pc[c] = "running" /\ ~aborted /\ "revoked" \in Inputs
  /\ UNCHANGED tools /\ End(c, "revoked")
  /\ UNCHANGED <<attempts, log, approvals, parkRequested>>

\* The port returns without its executor: the request was cancelled, or the
\* lease invalidated by a revocation or a change of policy.
ReturnsUnknown(c) ==
  /\ pc[c] = "running"
  /\ aborted \/ "revoked" \in Inputs
  /\ UNCHANGED tools /\ End(c, IF aborted THEN "unknown" ELSE "revoked")
  /\ UNCHANGED <<attempts, log, approvals, parkRequested>>

AppendFinished(c) ==
  /\ pc[c] = "finish"
  /\ UNCHANGED tools /\ Log(c, "finished", "finished") /\ End(c, "fulfilled")
  /\ UNCHANGED <<attempts, approvals, parkRequested>>

FinishedFails(c) ==
  /\ pc[c] = "finish" /\ "append-fails" \in Inputs
  /\ UNCHANGED <<tools, log>> /\ End(c, "unrecorded")
  /\ UNCHANGED <<attempts, approvals, parkRequested>>

\* The steps that are continuations of the SDK or promises of its host.
Prompt(c) ==
  \/ Barred(c) \/ TurnAway(c) \/ Admit(c) \/ TakeSlot(c) \/ Cancelled(c) \/ Deny(c)
  \/ PrepareFails(c) \/ Allow(c) \/ AskFor(c)
  \/ TakePermit(c) \/ PermitAborted(c) \/ AppendWaiting(c)
  \/ TakeLease(c) \/ NextAttempt(c) \/ AttemptsExhausted(c) \/ Authorize(c)
  \/ AppendStarted(c) \/ StartFails(c) \/ DispatchRefused(c) \/ DispatchStale(c)
  \/ ExecutorEntered(c) \/ ReturnsUnknown(c) \/ AppendFinished(c) \/ FinishedFails(c)

\* The answer to an approval.
Answer(c) ==
  Approved(c) \/ Refused(c) \/ ConfirmationFails(c) \/ PolicyChanged(c) \/ Deferred(c)
  \/ DeferredInvalid(c)

CallStep(c) ==
  /\ Prompt(c) \/ Answer(c) \/ Returned(c) \/ ExecutorFails(c)
  /\ UNCHANGED <<sched, aborted, ending>>

\* The request is cancelled: every wait for a slot or a permit is rejected.
Abort ==
  /\ ~aborted /\ "abort" \in Inputs /\ round # "over"
  /\ aborted' = TRUE /\ slotQueue' = << >> /\ permitQueue' = << >>
  /\ UNCHANGED <<sched, pc, attempts, outcome, slots, permits, leases, log, approvals,
                 parkRequested, tools, ending>>

\* An executor that outlived its call settles, and its lease is released.
ExecutorSettles(c) ==
  /\ c \in executing /\ pc[c] # "running"
  /\ executing' = executing \ {c} /\ leases' = leases \ {c}
  /\ UNCHANGED <<sched, pc, attempts, outcome, slot, permit, log, approvals, parkRequested,
                 aborted, ran, ending>>
-----------------------------------------------------------------------------
(* The round is settled.                                                   *)

Pending(c) == dispatchState[c] = "pending"

\* Promise.all returned: calls nobody claimed are marked and become results,
\* and an unknown result is written down. With a lifecycle disposition it
\* stays a rejection.
Materialize ==
  LET Unclaimed == {c \in Calls : pc[c] = "new"}
      Unknown == {c \in Calls : outcome[c] \in {"unknown", "revoked"}}
  IN /\ round = "tools" /\ looping = 0 /\ waiting = 0 /\ InFlight(pc) = {}
     /\ record' = [c \in Calls |-> IF c \in Unclaimed THEN Append(record[c], "not-dispatched")
                                   ELSE IF c \in Unknown THEN Append(record[c], "finished")
                                   ELSE record[c]]
     /\ dispatchState' = [c \in Calls |-> IF c \in Unclaimed THEN "not-dispatched"
                                          ELSE IF c \in Unknown THEN "finished"
                                          ELSE dispatchState[c]]
     /\ outcome' = [c \in Calls |-> IF c \in Unclaimed THEN "fulfilled"
                                    ELSE IF c \notin Unknown THEN outcome[c]
                                    ELSE IF aborted THEN "cancelled"
                                    ELSE IF outcome[c] = "revoked" THEN "invalidated"
                                    ELSE "fulfilled"]
     /\ round' = "settled"
     /\ UNCHANGED <<sched, pc, attempts, slot, permit, leases, approvals, parkRequested,
                    aborted, tools, failure, terminal>>

Rejected == {c \in Calls : /\ outcome[c] # "fulfilled"
                           /\ ~(ReturnDenied /\ outcome[c] = "denied")}

First(S) == CHOOSE c \in S : \A d \in S : c <= d

\* Mutated form of Gravest: the first rejection in the order of the calls.
FirstRejection == outcome[First(Rejected)]

\* The rejection that speaks for the round.
Gravest ==
  LET Lifecycle == {c \in Rejected : outcome[c] \in {"cancelled", "invalidated"}}
      Unrecorded == {c \in Rejected : outcome[c] = "unrecorded"}
  IN outcome[First(IF Lifecycle # {} THEN Lifecycle
                   ELSE IF Unrecorded # {} THEN Unrecorded ELSE Rejected)]

\* validateHistoryTransition, over the events of the calls.
OpenFor(rec) == {c \in Calls : rec[c] = << >> \/ rec[c][Len(rec[c])] = "started"}
Accepts(kind, rec) == kind = "interrupted" \/ (OpenFor(rec) = {} /\ approvals = {})

\* A terminal event is appended; a turn that cannot complete or park fails.
Finish(kind, rec) ==
  IF Accepts(kind, rec)
  THEN terminal' = kind /\ round' = "over" /\ UNCHANGED failure
  ELSE round' = "caught" /\ failure' = "failed" /\ UNCHANGED terminal

\* Mutated form of MarkPending: every call is marked again.
MarkAll ==
  /\ record' = [c \in Calls |-> Append(record[c], "not-dispatched")]
  /\ dispatchState' = [c \in Calls |-> "not-dispatched"]

MarkPending ==
  /\ record' = [c \in Calls |-> IF Pending(c) THEN Append(record[c], "not-dispatched") ELSE record[c]]
  /\ dispatchState' = [c \in Calls |-> IF Pending(c) THEN "not-dispatched" ELSE dispatchState[c]]

\* Nothing was rejected: the results go to the model. The next response has no
\* calls, and the turn completes.
Continue ==
  /\ round = "settled" /\ Rejected = {}
  /\ Finish("completed", record)
  /\ UNCHANGED log

\* Mutated form of Park: calls still pending are not marked.
ParkUnmarked ==
  /\ round = "settled" /\ Rejected # {} /\ Gravest = "parked"
  /\ Finish("parked", record)
  /\ UNCHANGED log

Park ==
  /\ round = "settled" /\ Rejected # {} /\ Gravest = "parked"
  /\ MarkPending
  /\ Finish("parked", record')

Throw ==
  /\ round = "settled" /\ Rejected # {} /\ Gravest # "parked"
  /\ MarkPending
  /\ round' = "caught" /\ failure' = Gravest /\ UNCHANGED terminal

Has(c, event) == \E i \in DOMAIN record[c] : record[c][i] = event

\* A result event of the call; the outer catch does not count a deferral.
Closed(c) == Has(c, "finished") \/ Has(c, "not-dispatched")

\* Mutated form of LeftOver: the started calls are closed like the others.
LeftOverStarted == {c \in Calls : ~Closed(c)}
LeftOver == {c \in Calls : ~Closed(c) /\ ~Has(c, "started")}

\* The outer catch of runAgentTurn: what History leaves open and was not
\* started is closed, and the turn is interrupted or failed.
Catch ==
  LET uncertain == failure = "unrecorded" \/ \E c \in Calls : ~Closed(c) /\ Has(c, "started")
      kind == IF uncertain \/ failure \in {"cancelled", "invalidated"} THEN "interrupted" ELSE "failed"
  IN /\ round = "caught"
     /\ record' = [c \in Calls |-> IF c \in LeftOver THEN Append(record[c], "not-dispatched")
                                   ELSE record[c]]
     /\ terminal' = IF Accepts(kind, record') THEN kind ELSE "none"
     /\ round' = "over"
     /\ UNCHANGED <<dispatchState, failure>>

RoundStep ==
  /\ Continue \/ Park \/ Throw \/ Catch
  /\ UNCHANGED <<sched, pc, attempts, outcome, slot, permit, leases, approvals, parkRequested,
                 aborted, tools>>

Over == round = "over" /\ UNCHANGED vars

Next ==
  \/ Loop \/ Abort \/ Materialize \/ RoundStep \/ Over
  \/ \E c \in Calls : Settle(c) \/ CallStep(c) \/ ExecutorSettles(c)

Spec == Init /\ [][Next]_vars

\* Promises of the SDK and its host continue, and a confirmation answers once
\* its signal is aborted. A user need not answer before, and an executor need
\* not ever return.
FairSpec ==
  /\ Spec
  /\ WF_vars(Loop) /\ WF_vars(Materialize) /\ WF_vars(RoundStep)
  /\ \A c \in Calls :
       /\ WF_vars(Settle(c))
       /\ WF_vars(Prompt(c) /\ UNCHANGED <<sched, aborted, ending>>)
       /\ WF_vars(aborted /\ Answer(c) /\ UNCHANGED <<sched, aborted, ending>>)
-----------------------------------------------------------------------------
(* Properties.                                                             *)

\* History holds one result per call: canonicalHistory throws on a second one,
\* and a turn that ends for certain leaves no call without.
ClosedOnce ==
  \A c \in Calls :
    LET results == {i \in DOMAIN record[c] : record[c][i] # "started"}
    IN /\ Cardinality(results) <= 1
       /\ terminal \in {"completed", "failed", "parked"} => results # {}

\* A call whose executor ran is never written off as not dispatched; if its
\* result was lost the turn is interrupted, and never completed or failed.
RanIsTold ==
  \A c \in ran :
    /\ ~Has(c, "not-dispatched")
    /\ round = "over" => Has(c, "finished") \/ terminal = "interrupted"

\* What History says of a call it says once, and it is so.
ToldOnce == ClosedOnce /\ RanIsTold

\* Every turn gets its terminal event: no approval and no call is left open that
\* would make History refuse it. A cancellation, an invalidated lease or a lost
\* result of one call speaks for it, whatever its siblings came to.
TerminalFits ==
  round = "over" =>
    /\ terminal # "none"
    /\ (\E c \in Calls : outcome[c] \in {"cancelled", "invalidated", "unrecorded"})
         => terminal = "interrupted"

\* Two calls over the same resource never execute at once, also when one of them
\* was given up and its executor goes on.
NoOverlap == \A c, d \in executing : c # d => <<c, d>> \notin Clash /\ <<d, c>> \notin Clash

\* Slots, permits and workers stay within their numbers, a permit is handed on to
\* whoever queues, and when the round is settled all are back and only executors
\* that outlived their call hold leases.
AllReturned ==
  /\ TypeOK
  /\ round # "tools" => slots = {} /\ permits = {} /\ leases = executing

\* After a denial the calls in flight come to their end before another is claimed.
Denies(c) == outcome[c] = "denied" /\ pc[c] = "ended" /\ pc'[c] = "settled"
DrainFirst ==
  [][claimed' > claimed /\ (state = "draining" \/ \E c \in Calls : Denies(c))
       => \A c \in 1..claimed : pc'[c] = "settled"]_vars

\* Once a sibling was deferred no call that was not claimed yet is dispatched,
\* although the scheduler learns of it only when the sibling settles.
ParkStops ==
  [][parkRequested => \A c \in Calls : pc[c] = "new" => pc'[c] \in {"new", "barred"}]_vars

\* A turn with a deferred approval ends parked, unless it is cancelled, a sibling
\* failed for a reason of its own, or one whose checkpoint is invalid left its
\* approval open.
DeferredIsParked ==
  /\ round = "over" /\ ~aborted /\ approvals = {} /\ (\E c \in Calls : Has(c, "deferred"))
  /\ \A c \in Calls : outcome[c] \in {"fulfilled", "denied", "parked"}
  => terminal = "parked"

\* A round ends with nothing held, and parked if that is what it came to.
RoundEnds == AllReturned /\ DeferredIsParked

\* A cancelled round comes to its end, though executors hang and waiters of
\* slots, permits and leases queue behind each other.
CancelEnds == aborted ~> round = "over"
=============================================================================
