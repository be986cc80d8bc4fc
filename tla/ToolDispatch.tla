---------------------------- MODULE ToolDispatch ----------------------------
(***************************************************************************)
(* The path a tool call of one model turn takes from its authorization to  *)
(* its executor: SafetyGate issues a one-use permit, the permit-bound      *)
(* execution port subscribes to revocation, policy change and abort,       *)
(* consumes the permit, claims a dispatch lease from the admission         *)
(* coordinator, persists tool-call-started and only then enters the        *)
(* executor (packages/agent-sdk/src/{safetyGate,safetyPermit,              *)
(* executionAdmission,toolExecutionPort,turn}.ts).                         *)
(*                                                                         *)
(* The code runs on one JavaScript thread: a step here is what runs        *)
(* between two awaits, and every await is a point where another call, the  *)
(* user's cancel, a revocation or a policy change may come in between.     *)
(* Calls that share an invocation share its fences.                        *)
(***************************************************************************)
EXTENDS Naturals, FiniteSets

CONSTANTS
  Calls,          \* tool calls of one request
  Invocations,    \* (requestId, invocationId) keys
  Tools,          \* capability names
  InvOf,          \* the invocation a call belongs to
  ToolOf,         \* the capability a call names
  Asking,         \* the calls a policy may want a fresh approval for
  MaxAttempts,    \* dispatchAuthorizationAttempts limit (8 in turn.ts)
  MaxVersion      \* bound on the number of policy changes

ASSUME CallsAssumption ==
  /\ InvOf \in [Calls -> Invocations]
  /\ ToolOf \in [Calls -> Tools]
  /\ Asking \subseteq Calls
ASSUME BoundsAssumption == MaxAttempts \in Nat /\ MaxVersion \in Nat

VARIABLES
  \* the world: request signal, ToolRevocationRegistry, policy revision
  cancelled, revoked, version,
  \* each call of the execution port, and the turn's worker around it
  pc, attempts, bound, confirmed, stale, valid, reason, listening, record,
  \* InMemorySafetyPermitStore: records and invalidBindings
  permit, storeFence,
  \* InMemoryExecutionAdmissionCoordinator: permits, invalidations, active
  admitted, fence, lease,
  \* the executor behind the port, and how often each permit entered it
  exec, entries

world == <<cancelled, revoked, version>>
store == <<permit, storeFence>>
admission == <<admitted, fence, lease>>
executor == <<exec, entries>>
local == <<attempts, bound, confirmed, stale, valid, reason, listening, record>>
vars == <<world, pc, local, store, admission, executor>>

Reasons == {"CANCELLED", "REVOKED", "AUTHORIZATION_STALE"}
Terminal == {"finished", "unknown", "denied", "cancelled", "failed", "parked", "not-dispatched"}

TypeOK ==
  /\ cancelled \in BOOLEAN
  /\ revoked \subseteq Tools
  /\ version \in 0..MaxVersion
  /\ pc \in [Calls -> {"prepare", "prepared", "approval", "authorized", "resolving",
                       "consumed", "validating", "claimed", "started", "running", "acked",
                       "rejecting", "failing", "reporting"} \cup Terminal]
  /\ attempts \in [Calls -> 0..MaxAttempts]
  /\ bound \in [Calls -> 0..MaxVersion]
  /\ confirmed \subseteq Calls
  /\ stale \in [Calls -> BOOLEAN]
  /\ valid \in [Calls -> BOOLEAN]
  /\ reason \in [Calls -> Reasons \cup {"none", "UNKNOWN", "CONSUMED", "EXPIRED",
                                         "PERMIT_NOT_CONSUMED", "GATE", "UNRESOLVED"}]
  /\ listening \subseteq Calls
  /\ record \in [Calls -> {"none", "started", "not-dispatched", "finished"}]
  /\ permit \in [Calls -> {"none", "issued", "consumed", "CANCELLED", "AUTHORIZATION_STALE"}]
  /\ storeFence \in [Invocations -> {"none", "CANCELLED", "AUTHORIZATION_STALE"}]
  /\ admitted \in [Calls -> {"absent", "unclaimed", "claimed"}]
  /\ fence \in [Invocations -> Reasons \cup {"none"}]
  /\ lease \in [Calls -> Reasons \cup {"none", "open"}]
  /\ exec \in [Calls -> {"none", "running", "ok", "threw"}]
  /\ entries \in [Calls -> Nat]

Init ==
  /\ cancelled = FALSE /\ revoked = {} /\ version = 0
  /\ pc = [c \in Calls |-> "prepare"]
  /\ attempts = [c \in Calls |-> 0]
  /\ bound = [c \in Calls |-> 0]
  /\ confirmed = {}
  /\ stale = [c \in Calls |-> FALSE]
  /\ valid = [c \in Calls |-> FALSE]
  /\ reason = [c \in Calls |-> "none"]
  /\ listening = {}
  /\ record = [c \in Calls |-> "none"]
  /\ permit = [c \in Calls |-> "none"]
  /\ storeFence = [i \in Invocations |-> "none"]
  /\ admitted = [c \in Calls |-> "absent"]
  /\ fence = [i \in Invocations |-> "none"]
  /\ lease = [c \in Calls |-> "none"]
  /\ exec = [c \in Calls |-> "none"]
  /\ entries = [c \in Calls |-> 0]

-----------------------------------------------------------------------------
(* The two stores. An operator that changes a store is given the set I of  *)
(* invocations the event reaches.                                          *)

\* The permit store keeps 'revoked' as AUTHORIZATION_STALE.
StoreReason(why) == IF why = "CANCELLED" THEN "CANCELLED" ELSE "AUTHORIZATION_STALE"

\* invalidateBinding: the fence takes the latest reason, issued permits die.
InvalidateBinding(I, why) ==
  /\ storeFence' = [i \in Invocations |-> IF i \in I THEN StoreReason(why) ELSE storeFence[i]]
  /\ permit' = [c \in Calls |-> IF InvOf[c] \in I /\ permit[c] = "issued"
                                THEN StoreReason(why) ELSE permit[c]]

\* Mutated form of Invalidate: the unclaimed permits are left usable.
InvalidateFenceOnly(I, why) ==
  /\ fence' = [i \in Invocations |-> IF i \in I THEN why ELSE fence[i]]
  /\ lease' = [c \in Calls |-> IF InvOf[c] \in I /\ lease[c] = "open" THEN why ELSE lease[c]]
  /\ UNCHANGED admitted

\* invalidate: fence, burn unclaimed permits, abort the active leases; an
\* AbortSignal keeps the first reason it was aborted with.
Invalidate(I, why) ==
  /\ fence' = [i \in Invocations |-> IF i \in I THEN why ELSE fence[i]]
  /\ admitted' = [c \in Calls |-> IF InvOf[c] \in I /\ admitted[c] = "unclaimed"
                                  THEN "claimed" ELSE admitted[c]]
  /\ lease' = [c \in Calls |-> IF InvOf[c] \in I /\ lease[c] = "open" THEN why ELSE lease[c]]

\* clearAuthorizationInvalidation: only the policy-stale fence is lifted.
Lifted(f) == IF f = "AUTHORIZATION_STALE" THEN "none" ELSE f

Siblings(c) == {d \in Calls \ {c} : InvOf[d] = InvOf[c]}
Aborted(c) == lease[c] \notin {"none", "open"}

\* lease.close, settle of both stores, removal of the three listeners. The
\* invocation's fence goes with its last permit and lease.
Cleanup(c) ==
  /\ listening' = listening \ {c}
  /\ lease' = [lease EXCEPT ![c] = "none"]
  /\ admitted' = [admitted EXCEPT ![c] = "absent"]
  /\ permit' = [permit EXCEPT ![c] = "none"]
  /\ fence' = IF /\ admitted[c] # "absent"
                 /\ \A d \in Siblings(c) : admitted[d] = "absent" /\ lease[d] = "none"
              THEN [fence EXCEPT ![InvOf[c]] = "none"]
              ELSE fence
  /\ UNCHANGED storeFence
-----------------------------------------------------------------------------
(* The world.                                                              *)

\* The request's AbortSignal fires: every installed onAbort runs at once.
Cancel ==
  /\ ~cancelled
  /\ cancelled' = TRUE
  /\ LET I == {InvOf[c] : c \in listening} IN
       InvalidateBinding(I, "CANCELLED") /\ Invalidate(I, "CANCELLED")
  /\ UNCHANGED <<revoked, version, pc, local, executor>>

\* ToolRevocationRegistry.revoke: a listener reacts to its own tool only.
Revoke(t) ==
  /\ t \notin revoked
  /\ revoked' = revoked \cup {t}
  /\ LET I == {InvOf[c] : c \in {d \in listening : ToolOf[d] = t}} IN
       InvalidateBinding(I, "REVOKED") /\ Invalidate(I, "REVOKED")
  /\ UNCHANGED <<cancelled, version, pc, local, executor>>

\* The policy is written and published in one synchronous handler; each
\* listener compares the new version with the one its call is bound to.
ChangePolicy ==
  /\ version < MaxVersion
  /\ version' = version + 1
  /\ LET hit == {c \in listening : bound[c] # version'} IN
       /\ stale' = [c \in Calls |-> stale[c] \/ c \in hit]
       /\ LET I == {InvOf[c] : c \in hit} IN
            /\ InvalidateBinding(I, "AUTHORIZATION_STALE")
            /\ Invalidate(I, "AUTHORIZATION_STALE")
  /\ UNCHANGED <<cancelled, revoked, pc, executor>>
  /\ UNCHANGED <<attempts, bound, confirmed, valid, reason, listening, record>>
-----------------------------------------------------------------------------
(* The turn's worker: recheck, authorize, hand over to the port.           *)

Goto(c, where) == pc' = [pc EXCEPT ![c] = where]

\* prepareTool({kind: 'recheck'}) binds the current authorization version.
Prepare(c) ==
  /\ pc[c] = "prepare" /\ attempts[c] < MaxAttempts
  /\ attempts' = [attempts EXCEPT ![c] = @ + 1]
  /\ bound' = [bound EXCEPT ![c] = version]
  /\ confirmed' = confirmed \ {c}
  /\ Goto(c, IF cancelled THEN "cancelled" ELSE "prepared")
  /\ UNCHANGED <<world, store, admission, executor>>
  /\ UNCHANGED <<stale, valid, reason, listening, record>>

\* prepareTool throws, or the attempts are used up: markNotDispatched.
PrepareFails(c) ==
  /\ pc[c] = "prepare"
  /\ Goto(c, IF cancelled THEN "cancelled" ELSE "denied")
  /\ record' = [record EXCEPT ![c] = IF cancelled /\ attempts[c] < MaxAttempts
                                     THEN @ ELSE "not-dispatched"]
  /\ UNCHANGED <<world, store, admission, executor>>
  /\ UNCHANGED <<attempts, bound, confirmed, stale, valid, reason, listening>>

\* SafetyGate.authorize: the policy allows, and it still speaks of the
\* version the binding carries.
Authorize(c) ==
  /\ pc[c] = "prepared"
  /\ ~cancelled /\ bound[c] = version
  /\ permit' = [permit EXCEPT ![c] = "issued"]
  /\ Goto(c, "authorized")
  /\ UNCHANGED <<world, local, storeFence, admission, executor>>

\* The policy denies, the request is aborted, or the binding is stale.
AuthorizeDenies(c) ==
  /\ pc[c] = "prepared"
  /\ Goto(c, IF cancelled THEN "cancelled" ELSE "denied")
  /\ record' = [record EXCEPT ![c] = IF cancelled THEN @ ELSE "not-dispatched"]
  /\ UNCHANGED <<world, store, admission, executor>>
  /\ UNCHANGED <<attempts, bound, confirmed, stale, valid, reason, listening>>

\* SafetyGate.authorize asks for a fresh approval, once in an attempt.
AskApproval(c) ==
  /\ pc[c] = "prepared" /\ c \in Asking \ confirmed
  /\ ~cancelled
  /\ Goto(c, "approval")
  /\ UNCHANGED <<world, local, store, admission, executor>>

\* Approved: the call is prepared again, and goes to the gate a second time.
Approve(c) ==
  /\ pc[c] = "approval" /\ ~cancelled
  /\ bound' = [bound EXCEPT ![c] = version]
  /\ confirmed' = confirmed \cup {c}
  /\ Goto(c, "prepared")
  /\ UNCHANGED <<world, store, admission, executor>>
  /\ UNCHANGED <<attempts, stale, valid, reason, listening, record>>

\* The policy changed while the approval waited: the recheck starts over.
ApprovalOutdated(c) ==
  /\ pc[c] = "approval"
  /\ Goto(c, "prepare")
  /\ UNCHANGED <<world, local, store, admission, executor>>

\* No approval: it is refused or comes too late, its slot or the second
\* prepareTool fails (markNotDispatched); or its channel throws or defers it.
ApprovalEnds(c) ==
  /\ pc[c] = "approval"
  /\ \/ /\ record' = [record EXCEPT ![c] = "not-dispatched"]
        /\ \E how \in {"denied", "failed"} : Goto(c, IF cancelled THEN "cancelled" ELSE how)
     \/ /\ UNCHANGED record
        /\ \E how \in {"failed", "parked"} : Goto(c, IF cancelled THEN "cancelled" ELSE how)
  /\ UNCHANGED <<world, store, admission, executor>>
  /\ UNCHANGED <<attempts, bound, confirmed, stale, valid, reason, listening>>

\* Mutated form of Handoff: discardPermit is forgotten.
HandoffKeepsPermit(c) ==
  /\ pc[c] = "authorized"
  /\ Goto(c, IF cancelled THEN "cancelled" ELSE "resolving")
  /\ UNCHANGED <<world, local, store, admission, executor>>

\* Back in the turn: an abort that won against authorize discards the permit,
\* but not the one of the second authorize, after a fresh approval.
Handoff(c) ==
  /\ pc[c] = "authorized"
  /\ Goto(c, IF cancelled THEN "cancelled" ELSE "resolving")
  /\ permit' = [permit EXCEPT ![c] = IF cancelled /\ c \notin confirmed THEN "none" ELSE @]
  /\ UNCHANGED <<world, local, storeFence, admission, executor>>
-----------------------------------------------------------------------------
(* The port, from the resolved binding to the consumed permit: one step,   *)
(* since InMemorySafetyPermitStore.consume runs synchronously.             *)

Reject(c, why) ==
  /\ Goto(c, "rejecting")
  /\ reason' = [reason EXCEPT ![c] = why]

\* resolveExpected throws, or what it resolves is not of this call: the port is
\* left before its try block, so nothing settles the permit.
ResolveFails(c) ==
  /\ pc[c] = "resolving"
  /\ reason' = [reason EXCEPT ![c] = "UNRESOLVED"]
  /\ \E where \in {"failed", "reporting"} : Goto(c, where)
  /\ UNCHANGED <<world, store, admission, executor>>
  /\ UNCHANGED <<attempts, bound, confirmed, stale, valid, listening, record>>

EnterRevoked(c) ==
  /\ pc[c] = "resolving" /\ ToolOf[c] \in revoked
  /\ listening' = listening \cup {c}
  /\ stale' = [stale EXCEPT ![c] = FALSE]
  /\ Reject(c, "REVOKED")
  /\ UNCHANGED <<world, store, admission, executor>>
  /\ UNCHANGED <<attempts, bound, confirmed, valid, record>>

\* The version moved since the binding was made, or cannot be read.
EnterStale(c) ==
  /\ pc[c] = "resolving" /\ ToolOf[c] \notin revoked
  /\ listening' = listening \cup {c}
  /\ stale' = [stale EXCEPT ![c] = TRUE]
  /\ InvalidateBinding({InvOf[c]}, "AUTHORIZATION_STALE")
  /\ Invalidate({InvOf[c]}, "AUTHORIZATION_STALE")
  /\ \/ bound[c] # version /\ Reject(c, "AUTHORIZATION_STALE")
     \/ Goto(c, "failing") /\ UNCHANGED reason
  /\ UNCHANGED <<world, executor>>
  /\ UNCHANGED <<attempts, bound, confirmed, valid, record>>

\* Why consume refuses a permit that is not in the issued state.
Refusal(p) == CASE p = "none" -> "UNKNOWN"
                [] p = "consumed" -> "CONSUMED"
                [] OTHER -> p

Fresh(c) == pc[c] = "resolving" /\ ToolOf[c] \notin revoked /\ bound[c] = version

\* The signal is already aborted: onAbort runs in place, consume then fails.
EnterCancelled(c) ==
  /\ Fresh(c) /\ cancelled
  /\ listening' = listening \cup {c}
  /\ stale' = [stale EXCEPT ![c] = FALSE]
  /\ InvalidateBinding({InvOf[c]}, "CANCELLED")
  /\ Invalidate({InvOf[c]}, "CANCELLED")
  /\ Reject(c, Refusal(permit'[c]))
  /\ UNCHANGED <<world, executor>>
  /\ UNCHANGED <<attempts, bound, confirmed, valid, record>>

\* The policy-stale fences are lifted and the permit is consumed, unless it
\* was invalidated or has expired since it was issued. Taken alone it is the
\* mutated form of EnterConsume that only adds an abort listener.
ConsumePermit(c) ==
  /\ Fresh(c)
  /\ listening' = listening \cup {c}
  /\ stale' = [stale EXCEPT ![c] = FALSE]
  /\ storeFence' = [storeFence EXCEPT ![InvOf[c]] = Lifted(@)]
  /\ fence' = [fence EXCEPT ![InvOf[c]] = Lifted(@)]
  /\ LET refuse(why, left) == Reject(c, why) /\ permit' = [permit EXCEPT ![c] = left]
         blocked == storeFence'[InvOf[c]]
     IN \/ /\ permit[c] = "issued" /\ blocked = "none"
           /\ permit' = [permit EXCEPT ![c] = "consumed"]
           /\ Goto(c, "consumed") /\ UNCHANGED reason
        \/ permit[c] = "issued" /\ blocked # "none" /\ refuse(blocked, blocked)
        \/ permit[c] = "issued" /\ refuse("EXPIRED", "CANCELLED")
        \/ permit[c] # "issued" /\ refuse(Refusal(permit[c]), permit[c])
  /\ UNCHANGED <<world, admitted, lease, executor>>
  /\ UNCHANGED <<attempts, bound, confirmed, valid, record>>

EnterConsume(c) == ~cancelled /\ ConsumePermit(c)
-----------------------------------------------------------------------------
(* Admission: mark, validate, claim.                                       *)

\* markPermitConsumed, then beginDispatch up to its await. The callback
\* reads authorizationStale, isRevoked and the current version at once.
Mark(c) ==
  /\ pc[c] = "consumed"
  /\ admitted' = [admitted EXCEPT ![c] = "unclaimed"]
  /\ IF fence[InvOf[c]] # "none"
     THEN Reject(c, fence[InvOf[c]]) /\ UNCHANGED valid
     ELSE /\ Goto(c, "validating")
          /\ valid' = [valid EXCEPT ![c] = /\ ~stale[c]
                                           /\ ToolOf[c] \notin revoked
                                           /\ bound[c] = version]
          /\ UNCHANGED reason
  /\ UNCHANGED <<world, store, fence, lease, executor>>
  /\ UNCHANGED <<attempts, bound, confirmed, stale, listening, record>>

\* beginDispatch after its await: everything is read again, then claimed.
Claim(c) ==
  /\ pc[c] = "validating"
  /\ valid[c] /\ fence[InvOf[c]] = "none" /\ admitted[c] = "unclaimed"
  /\ admitted' = [admitted EXCEPT ![c] = "claimed"]
  /\ lease' = [lease EXCEPT ![c] = "open"]
  /\ Goto(c, "claimed")
  /\ UNCHANGED <<world, local, store, fence, executor>>

ClaimRefused(c) ==
  /\ pc[c] = "validating"
  /\ \/ ~valid[c] /\ Reject(c, "AUTHORIZATION_STALE")
     \/ valid[c] /\ fence[InvOf[c]] # "none" /\ Reject(c, fence[InvOf[c]])
     \/ /\ valid[c] /\ fence[InvOf[c]] = "none" /\ admitted[c] # "unclaimed"
        /\ Reject(c, "PERMIT_NOT_CONSUMED")
  /\ UNCHANGED <<world, store, admission, executor>>
  /\ UNCHANGED <<attempts, bound, confirmed, stale, valid, listening, record>>

\* onDispatchClaimed: the host gate lets the call pass and tool-call-started
\* is durable.
AppendStarted(c) ==
  /\ pc[c] = "claimed"
  /\ record' = [record EXCEPT ![c] = "started"]
  /\ Goto(c, "started")
  /\ UNCHANGED <<world, store, admission, executor>>
  /\ UNCHANGED <<attempts, bound, confirmed, stale, valid, reason, listening>>

\* The host gate rejects, or the append fails: the lease is closed.
StartFails(c) ==
  /\ pc[c] = "claimed"
  /\ lease' = [lease EXCEPT ![c] = "none"]
  /\ \/ Reject(c, "GATE")
     \/ Goto(c, "failing") /\ UNCHANGED reason
  /\ UNCHANGED <<world, store, admitted, fence, executor>>
  /\ UNCHANGED <<attempts, bound, confirmed, stale, valid, listening, record>>
-----------------------------------------------------------------------------
(* The executor.                                                           *)

\* Mutated form of EnterExecutor: the abort is not looked at again after
\* tool-call-started was written.
EnterUnchecked(c) ==
  /\ pc[c] = "started"
  /\ exec' = [exec EXCEPT ![c] = "running"]
  /\ entries' = [entries EXCEPT ![c] = @ + 1]
  /\ Goto(c, "running")
  /\ UNCHANGED <<world, local, store, admission>>

EnterExecutor(c) == ~Aborted(c) /\ EnterUnchecked(c)

\* The lease was aborted while tool-call-started was being written.
EntryRefused(c) ==
  /\ pc[c] = "started" /\ Aborted(c)
  /\ Reject(c, lease[c])
  /\ lease' = [lease EXCEPT ![c] = "none"]
  /\ UNCHANGED <<world, store, admitted, fence, executor>>
  /\ UNCHANGED <<attempts, bound, confirmed, stale, valid, listening, record>>

\* The executor's own promise settles, now or long after the port returned.
ExecutorSettles(c) ==
  /\ exec[c] = "running"
  /\ \E how \in {"ok", "threw"} : exec' = [exec EXCEPT ![c] = how]
  /\ UNCHANGED <<world, pc, local, store, admission, entries>>

\* The race is won by the executor and the lease is still whole.
Acknowledge(c) ==
  /\ pc[c] = "running" /\ exec[c] \in {"ok", "threw"} /\ ~Aborted(c)
  /\ Goto(c, IF exec[c] = "ok" THEN "acked" ELSE "unknown")
  /\ exec' = [exec EXCEPT ![c] = "none"]
  /\ Cleanup(c)
  /\ UNCHANGED <<world, entries, attempts, bound, confirmed, stale, valid, reason, record>>

\* Mutated forms of AbortReturns: an abort after the entry is answered as a
\* rejection that may be retried; the cleanup does not wait for the executor.
AbortRejects(c) ==
  /\ pc[c] = "running" /\ Aborted(c)
  /\ Reject(c, lease[c])
  /\ UNCHANGED <<world, store, admission, executor>>
  /\ UNCHANGED <<attempts, bound, confirmed, stale, valid, listening, record>>

AbortCleansUp(c) ==
  /\ pc[c] = "running" /\ Aborted(c)
  /\ Goto(c, "unknown")
  /\ Cleanup(c)
  /\ UNCHANGED <<world, executor, attempts, bound, confirmed, stale, valid, reason, record>>

\* The race is won by the abort: the port answers unknown-after-dispatch and
\* leaves the cleanup to the executor's settlement.
AbortReturns(c) ==
  /\ pc[c] = "running" /\ Aborted(c)
  /\ Goto(c, "unknown")
  /\ UNCHANGED <<world, local, store, admission, executor>>

DeferredCleanup(c) ==
  /\ pc[c] = "unknown" /\ exec[c] \in {"ok", "threw"}
  /\ exec' = [exec EXCEPT ![c] = "none"]
  /\ Cleanup(c)
  /\ UNCHANGED <<world, pc, entries, attempts, bound, confirmed, stale, valid, reason, record>>

\* tool-call-finished is appended, or the append fails and the turn with it.
AppendFinished(c) ==
  /\ pc[c] = "acked"
  /\ \/ record' = [record EXCEPT ![c] = "finished"] /\ Goto(c, "finished")
     \/ UNCHANGED record /\ Goto(c, "failed")
  /\ UNCHANGED <<world, store, admission, executor>>
  /\ UNCHANGED <<attempts, bound, confirmed, stale, valid, reason, listening>>
-----------------------------------------------------------------------------
(* Rejections: the port's finally block, then the turn's catch.            *)

Settle(c) ==
  /\ pc[c] \in {"rejecting", "failing"}
  /\ Goto(c, IF pc[c] = "failing" THEN "failed" ELSE "reporting")
  /\ Cleanup(c)
  /\ UNCHANGED <<world, executor, attempts, bound, confirmed, stale, valid, reason, record>>

Cancellation(c) == reason[c] = "CANCELLED" \/ cancelled

\* A rejection that is not a stale policy becomes tool-call-not-dispatched.
ReportNotDispatched(c) ==
  /\ pc[c] = "reporting"
  /\ Cancellation(c) \/ reason[c] # "AUTHORIZATION_STALE"
  /\ Goto(c, IF Cancellation(c) THEN "cancelled"
             ELSE IF reason[c] = "GATE" THEN "not-dispatched" ELSE "denied")
  /\ record' = [record EXCEPT ![c] = "not-dispatched"]
  /\ UNCHANGED <<world, store, admission, executor>>
  /\ UNCHANGED <<attempts, bound, confirmed, stale, valid, reason, listening>>

\* A stale policy starts the recheck over, after a started projection that
\* will not be entered has been taken back.
RetryAuthorization(c) ==
  /\ pc[c] = "reporting"
  /\ ~Cancellation(c) /\ reason[c] = "AUTHORIZATION_STALE"
  /\ Goto(c, "prepare")
  /\ reason' = [reason EXCEPT ![c] = "none"]
  /\ record' = [record EXCEPT ![c] = IF @ = "started" THEN "not-dispatched" ELSE @]
  /\ UNCHANGED <<world, store, admission, executor>>
  /\ UNCHANGED <<attempts, bound, confirmed, stale, valid, listening>>

\* The history append of either fails.
ReportFails(c) ==
  /\ pc[c] = "reporting"
  /\ Goto(c, "failed")
  /\ UNCHANGED <<world, local, store, admission, executor>>
-----------------------------------------------------------------------------
PortStep(c) ==
  \/ Prepare(c) \/ PrepareFails(c) \/ Authorize(c) \/ AuthorizeDenies(c)
  \/ AskApproval(c) \/ Approve(c) \/ ApprovalOutdated(c) \/ ApprovalEnds(c) \/ Handoff(c)
  \/ ResolveFails(c) \/ EnterRevoked(c) \/ EnterStale(c) \/ EnterCancelled(c) \/ EnterConsume(c)
  \/ Mark(c) \/ Claim(c) \/ ClaimRefused(c) \/ AppendStarted(c) \/ StartFails(c)
  \/ EnterExecutor(c) \/ EntryRefused(c) \/ Acknowledge(c) \/ AbortReturns(c)
  \/ DeferredCleanup(c) \/ AppendFinished(c)
  \/ Settle(c) \/ ReportNotDispatched(c) \/ RetryAuthorization(c) \/ ReportFails(c)

World == Cancel \/ (\E t \in Tools : Revoke(t)) \/ ChangePolicy

Next == World \/ \E c \in Calls : PortStep(c) \/ ExecutorSettles(c)

Spec == Init /\ [][Next]_vars

-----------------------------------------------------------------------------
(* Properties.                                                             *)

\* However often the policy changes and the recheck starts over, the
\* executor of a tool call is entered at most once (turn.ts retry loop,
\* claimed flag of the coordinator).
EnteredAtMostOnce == \A c \in Calls : entries[c] <= 1

\* A lease that carries no abort belongs to a call whose tool is still
\* granted and whose policy is still current: whatever revocation or policy
\* change comes after the claim reaches the lease, even when siblings of the
\* invocation lift or drop the shared fence in between.
LiveLeaseAuthorized ==
  \A c \in Calls : lease[c] = "open" => ToolOf[c] \notin revoked /\ bound[c] = version

\* The path keeps the promise of DispatchPromise: what a call asked, whether
\* it ran, and under which policy.
PhaseOf(c) ==
  IF entries[c] > 0 THEN IF pc[c] = "running" THEN "entered" ELSE "answered"
  ELSE IF pc[c] \in Terminal THEN "refused" ELSE "asking"
phase == [c \in Calls |-> PhaseOf(c)]
Promise == INSTANCE DispatchPromise WITH asked <- bound
PromiseKept == Promise!Spec

\* What the history says of an executor is true: a call last recorded as
\* not dispatched, or answered to the model as refused, never ran.
RefusedNeverRan ==
  \A c \in Calls :
    \/ record[c] = "not-dispatched"
    \/ pc[c] \in {"denied", "cancelled", "not-dispatched"}
    => entries[c] = 0

\* The two ways out on which the code leaves a permit in its store: a cancel
\* that wins against the authorize after a fresh approval (turn.ts:2473), and a
\* binding that cannot be resolved (toolExecutionPort.ts:59). The permit was
\* not consumed, and the executor never entered.
LeftBehind(c) ==
  /\ \/ pc[c] = "cancelled" /\ c \in confirmed /\ reason[c] = "none"
     \/ reason[c] = "UNRESOLVED"
  /\ permit[c] # "consumed" /\ entries[c] = 0

\* A call that has returned and whose executor is gone holds no admission
\* record, no lease, no listener, and no permit but for the two ways out named in
\* LeftBehind; and one that was refused leaves no open tool-call-started in the
\* history.
NothingLeaked ==
  \A c \in Calls :
    /\ pc[c] \in Terminal /\ exec[c] = "none" =>
         /\ admitted[c] = "absent" /\ lease[c] = "none" /\ c \notin listening
         /\ permit[c] = "none" \/ LeftBehind(c)
    /\ pc[c] \in {"denied", "cancelled", "not-dispatched"} => record[c] # "started"

\* The lease outlives the port's answer for as long as the executor runs, so
\* the admission coordinator still counts a side effect that may be going on.
RunningIsLeased == \A c \in Calls : exec[c] # "none" => lease[c] # "none"

=============================================================================
