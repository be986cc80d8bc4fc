------------------------- MODULE ToolDispatchProofs -------------------------
(***************************************************************************)
(* Proofs about ToolDispatch for any number of calls, invocations, tools,  *)
(* attempts and policy changes. DispatchInv is the inductive invariant: it *)
(* ties the place a call has reached to what the two stores, the listeners *)
(* and the history hold for it.                                            *)
(***************************************************************************)
EXTENDS ToolDispatch, TLAPS

USE CallsAssumption, BoundsAssumption

Authorized(c) == ToolOf[c] \notin revoked /\ bound[c] = version

\* Between the consumed permit and the executor's answer.
Held == {"consumed", "validating", "claimed", "started", "running"}
Leased == {"claimed", "started", "running"}
Entered == {"running", "unknown", "acked", "finished", "failed"}

\* A call that holds a permit listens, so no revocation or policy change can
\* pass it by.
Listens == \A c \in Calls : pc[c] \in Held => c \in listening

\* A claim that is about to be made, and a lease that was not aborted, belong
\* to an authorized call.
ClaimSound ==
  \A c \in Calls :
    /\ pc[c] = "validating" /\ valid[c] /\ admitted[c] = "unclaimed" => Authorized(c)
    /\ lease[c] = "open" => pc[c] \in Leased /\ Authorized(c)

LeaseHeld ==
  \A c \in Calls :
    /\ pc[c] \in Leased => lease[c] # "none"
    /\ exec[c] # "none" => pc[c] \in {"running", "unknown"} /\ lease[c] # "none"

EntrySound ==
  \A c \in Calls :
    /\ entries[c] <= 1
    /\ pc[c] \notin Entered => entries[c] = 0
    /\ pc[c] \in {"running", "unknown", "acked"} => entries[c] = 1
    /\ pc[c] \in {"started", "running", "unknown", "acked"} => record[c] = "started"
    /\ record[c] = "not-dispatched" => entries[c] = 0

DispatchInv == TypeOK /\ Listens /\ ClaimSound /\ LeaseHeld /\ EntrySound

\* Every variable of the module keeps its type (ToolDispatch.TypeOK): the
\* stores and the port never reach a state outside the ones they name.
LEMMA TypingStep == TypeOK /\ [Next]_vars => TypeOK'
<1> SUFFICES ASSUME TypeOK, [Next]_vars PROVE TypeOK'
  OBVIOUS
<1> USE DEF TypeOK, Reasons, Terminal, Goto, Reject
<1>1. CASE Cancel
  BY <1>1 DEF Cancel, InvalidateBinding, Invalidate, StoreReason, local, executor
<1>2. ASSUME NEW t \in Tools, Revoke(t) PROVE TypeOK'
  BY <1>2 DEF Revoke, InvalidateBinding, Invalidate, StoreReason, local, executor
<1>3. CASE ChangePolicy
  BY <1>3 DEF ChangePolicy, InvalidateBinding, Invalidate, StoreReason, executor
<1>4. ASSUME NEW c \in Calls, PortStep(c) PROVE TypeOK'
  <2>1. CASE Prepare(c)
    BY <2>1 DEF Prepare, world, store, admission, executor
  <2>2. CASE PrepareFails(c)
    BY <2>2 DEF PrepareFails, world, store, admission, executor
  <2>3. CASE Authorize(c)
    BY <2>3 DEF Authorize, world, local, admission, executor
  <2>4. CASE AuthorizeDenies(c)
    BY <2>4 DEF AuthorizeDenies, world, store, admission, executor
  <2>5. CASE Handoff(c)
    BY <2>5 DEF Handoff, world, local, admission, executor
  <2>6. CASE EnterRevoked(c)
    BY <2>6 DEF EnterRevoked, world, store, admission, executor
  <2>7. CASE EnterStale(c)
    BY <2>7 DEF EnterStale, InvalidateBinding, Invalidate, StoreReason, world, executor
  <2>8. CASE EnterCancelled(c)
    <3>1. permit' \in [Calls -> {"none", "issued", "consumed", "CANCELLED", "AUTHORIZATION_STALE"}]
      BY <2>8 DEF EnterCancelled, InvalidateBinding, StoreReason
    <3>2. permit'[c] # "issued"
      BY <2>8 DEF EnterCancelled, InvalidateBinding, StoreReason
    <3>3. Refusal(permit'[c]) \in {"UNKNOWN", "CONSUMED", "CANCELLED", "AUTHORIZATION_STALE"}
      BY <3>1, <3>2 DEF Refusal
    <3> QED
      BY <2>8, <3>1, <3>3 DEF EnterCancelled, InvalidateBinding, Invalidate, StoreReason, world, executor
  <2>9. CASE EnterConsume(c)
    <3>1. permit[c] # "issued" =>
            Refusal(permit[c]) \in {"UNKNOWN", "CONSUMED", "CANCELLED", "AUTHORIZATION_STALE"}
      BY DEF Refusal
    <3>2. storeFence' \in [Invocations -> {"none", "CANCELLED", "AUTHORIZATION_STALE"}]
      BY <2>9 DEF EnterConsume, ConsumePermit, Lifted
    <3>3. fence' \in [Invocations -> Reasons \cup {"none"}]
      BY <2>9 DEF EnterConsume, ConsumePermit, Lifted
    <3>4. /\ permit' \in [Calls -> {"none", "issued", "consumed", "CANCELLED", "AUTHORIZATION_STALE"}]
          /\ \/ Goto(c, "consumed") /\ UNCHANGED reason
             \/ \E why \in {"UNKNOWN", "CONSUMED", "EXPIRED", "CANCELLED", "AUTHORIZATION_STALE"} :
                  Reject(c, why)
      BY <2>9, <3>1, <3>2 DEF EnterConsume, ConsumePermit
    <3> QED
      BY <2>9, <3>2, <3>3, <3>4 DEF EnterConsume, ConsumePermit, world, executor
  <2>10. CASE Mark(c)
    <3>1. valid' \in [Calls -> BOOLEAN]
      <4> DEFINE sound == ~stale[c] /\ ToolOf[c] \notin revoked /\ bound[c] = version
      <4>1. sound \in BOOLEAN
        OBVIOUS
      <4>2. CASE fence[InvOf[c]] # "none"
        BY <2>10, <4>2 DEF Mark
      <4>3. CASE fence[InvOf[c]] = "none"
        <5>1. valid' = [valid EXCEPT ![c] = sound]
          BY <2>10, <4>3, Zenon DEF Mark
        <5> HIDE DEF sound
        <5> QED
          BY <4>1, <5>1
      <4> QED
        BY <4>2, <4>3
    <3>2. /\ admitted' = [admitted EXCEPT ![c] = "unclaimed"]
          /\ \/ Reject(c, fence[InvOf[c]])
             \/ Goto(c, "validating") /\ UNCHANGED reason
          /\ UNCHANGED <<world, store, fence, lease, executor>>
          /\ UNCHANGED <<attempts, bound, confirmed, stale, listening, record>>
      BY <2>10, Zenon DEF Mark
    <3> QED
      BY <3>1, <3>2 DEF world, store, executor
  <2>11. CASE Claim(c)
    BY <2>11 DEF Claim, world, local, store, executor
  <2>12. CASE ClaimRefused(c)
    BY <2>12 DEF ClaimRefused, world, store, admission, executor
  <2>13. CASE AppendStarted(c)
    BY <2>13 DEF AppendStarted, world, store, admission, executor
  <2>14. CASE StartFails(c)
    BY <2>14 DEF StartFails, world, store, executor
  <2>15. CASE EnterExecutor(c)
    BY <2>15 DEF EnterExecutor, EnterUnchecked, world, local, store, admission
  <2>16. CASE EntryRefused(c)
    BY <2>16 DEF EntryRefused, Aborted, world, store, executor
  <2>17. CASE Acknowledge(c)
    BY <2>17 DEF Acknowledge, Cleanup, world
  <2>18. CASE AbortReturns(c)
    BY <2>18 DEF AbortReturns, world, local, store, admission, executor
  <2>19. CASE DeferredCleanup(c)
    BY <2>19 DEF DeferredCleanup, Cleanup, world
  <2>20. CASE AppendFinished(c)
    BY <2>20 DEF AppendFinished, world, store, admission, executor
  <2>21. CASE Settle(c)
    BY <2>21 DEF Settle, Cleanup, world, executor
  <2>22. CASE ReportNotDispatched(c)
    BY <2>22 DEF ReportNotDispatched, world, store, admission, executor
  <2>23. CASE RetryAuthorization(c)
    BY <2>23 DEF RetryAuthorization, world, store, admission, executor
  <2>24. CASE ReportFails(c)
    BY <2>24 DEF ReportFails, world, local, store, admission, executor
  <2>25. CASE AskApproval(c)
    BY <2>25 DEF AskApproval, world, local, store, admission, executor
  <2>26. CASE Approve(c)
    BY <2>26 DEF Approve, world, store, admission, executor
  <2>27. CASE ApprovalOutdated(c)
    BY <2>27 DEF ApprovalOutdated, world, local, store, admission, executor
  <2>28. CASE ApprovalEnds(c)
    BY <2>28 DEF ApprovalEnds, world, store, admission, executor
  <2>29. CASE ResolveFails(c)
    BY <2>29 DEF ResolveFails, world, store, admission, executor
  <2> QED
    BY <1>4, <2>1, <2>2, <2>3, <2>4, <2>5, <2>6, <2>7, <2>8, <2>9, <2>10, <2>11, <2>12, <2>13,
       <2>14, <2>15, <2>16, <2>17, <2>18, <2>19, <2>20, <2>21, <2>22, <2>23, <2>24, <2>25, <2>26, <2>27,
       <2>28, <2>29 DEF PortStep
<1>5. ASSUME NEW c \in Calls, ExecutorSettles(c) PROVE TypeOK'
  BY <1>5 DEF ExecutorSettles, world, local, store, admission
<1>6. CASE UNCHANGED vars
  BY <1>6 DEF vars, world, local, store, admission, executor
<1> QED
  BY <1>1, <1>2, <1>3, <1>4, <1>5, <1>6 DEF Next, World

\* The variables have their types at the start.
LEMMA InitTyped == Init => TypeOK
<1> SUFFICES ASSUME Init PROVE TypeOK
  OBVIOUS
<1>1. cancelled \in BOOLEAN /\ stale \in [Calls -> BOOLEAN] /\ valid \in [Calls -> BOOLEAN]
  BY Zenon DEF Init
<1> QED
  BY <1>1 DEF Init, TypeOK, Reasons, Terminal

\* Every reachable state is well typed (ToolDispatch.TypeOK), whatever the
\* number of calls, tools, attempts and policy changes.
THEOREM Typing == Spec => []TypeOK
  BY InitTyped, TypingStep, PTL DEF Spec

\* The safety invariant is kept by every step.
LEMMA DispatchInvStep == DispatchInv /\ [Next]_vars => DispatchInv'
<1> SUFFICES ASSUME DispatchInv, [Next]_vars PROVE (Listens /\ ClaimSound /\ LeaseHeld /\ EntrySound)'
  BY TypingStep DEF DispatchInv
<1>0. TypeOK'
  BY TypingStep DEF DispatchInv
<1> USE <1>0 DEF DispatchInv, TypeOK, Listens, ClaimSound, LeaseHeld, EntrySound, Authorized,
      Held, Leased, Entered, Reasons, Terminal, Goto, Reject, world, local, store, admission, executor
<1>1. CASE Cancel
  BY <1>1 DEF Cancel, InvalidateBinding, Invalidate, StoreReason
<1>2. ASSUME NEW t \in Tools, Revoke(t) PROVE (Listens /\ ClaimSound /\ LeaseHeld /\ EntrySound)'
  BY <1>2 DEF Revoke, InvalidateBinding, Invalidate, StoreReason
<1>3. CASE ChangePolicy
  BY <1>3 DEF ChangePolicy, InvalidateBinding, Invalidate, StoreReason
<1>4. ASSUME NEW c \in Calls, PortStep(c) PROVE (Listens /\ ClaimSound /\ LeaseHeld /\ EntrySound)'
  <2>1. CASE Prepare(c)
    BY <2>1 DEF Prepare
  <2>2. CASE PrepareFails(c)
    BY <2>2 DEF PrepareFails
  <2>3. CASE Authorize(c)
    BY <2>3 DEF Authorize
  <2>4. CASE AuthorizeDenies(c)
    BY <2>4 DEF AuthorizeDenies
  <2>5. CASE Handoff(c)
    BY <2>5 DEF Handoff
  <2>6. CASE EnterRevoked(c)
    BY <2>6 DEF EnterRevoked
  <2>7. CASE EnterStale(c)
    BY <2>7 DEF EnterStale, InvalidateBinding, Invalidate, StoreReason
  <2>8. CASE EnterCancelled(c)
    BY <2>8 DEF EnterCancelled, InvalidateBinding, Invalidate, StoreReason, Fresh
  <2>9. CASE EnterConsume(c)
    BY <2>9 DEF EnterConsume, ConsumePermit, Fresh, Lifted
  <2>10. CASE Mark(c)
    BY <2>10 DEF Mark
  <2>11. CASE Claim(c)
    BY <2>11 DEF Claim
  <2>12. CASE ClaimRefused(c)
    BY <2>12 DEF ClaimRefused
  <2>13. CASE AppendStarted(c)
    BY <2>13 DEF AppendStarted
  <2>14. CASE StartFails(c)
    BY <2>14 DEF StartFails
  <2>15. CASE EnterExecutor(c)
    BY <2>15 DEF EnterExecutor, EnterUnchecked, Aborted
  <2>16. CASE EntryRefused(c)
    BY <2>16 DEF EntryRefused, Aborted
  <2>17. CASE Acknowledge(c)
    BY <2>17 DEF Acknowledge, Aborted, Cleanup
  <2>18. CASE AbortReturns(c)
    BY <2>18 DEF AbortReturns, Aborted
  <2>19. CASE DeferredCleanup(c)
    BY <2>19 DEF DeferredCleanup, Cleanup
  <2>20. CASE AppendFinished(c)
    BY <2>20 DEF AppendFinished
  <2>21. CASE Settle(c)
    BY <2>21 DEF Settle, Cleanup
  <2>22. CASE ReportNotDispatched(c)
    BY <2>22 DEF ReportNotDispatched
  <2>23. CASE RetryAuthorization(c)
    BY <2>23 DEF RetryAuthorization
  <2>24. CASE ReportFails(c)
    BY <2>24 DEF ReportFails
  <2>25. CASE AskApproval(c)
    BY <2>25 DEF AskApproval
  <2>26. CASE Approve(c)
    BY <2>26 DEF Approve
  <2>27. CASE ApprovalOutdated(c)
    BY <2>27 DEF ApprovalOutdated
  <2>28. CASE ApprovalEnds(c)
    BY <2>28 DEF ApprovalEnds
  <2>29. CASE ResolveFails(c)
    BY <2>29 DEF ResolveFails
  <2> QED
    BY <1>4, <2>1, <2>2, <2>3, <2>4, <2>5, <2>6, <2>7, <2>8, <2>9, <2>10,
       <2>11, <2>12, <2>13, <2>14, <2>15, <2>16, <2>17, <2>18, <2>19, <2>20,
       <2>21, <2>22, <2>23, <2>24, <2>25, <2>26, <2>27, <2>28, <2>29 DEF PortStep
<1>5. ASSUME NEW c \in Calls, ExecutorSettles(c)
      PROVE (Listens /\ ClaimSound /\ LeaseHeld /\ EntrySound)'
  BY <1>5 DEF ExecutorSettles
<1>6. CASE UNCHANGED vars
  BY <1>6 DEF vars
<1> QED
  BY <1>1, <1>2, <1>3, <1>4, <1>5, <1>6 DEF Next, World

\* The safety invariant of the dispatch path, for every value of the constants.
THEOREM DispatchSafe == Spec => []DispatchInv
<1>1. Init => DispatchInv
  <2> SUFFICES ASSUME Init PROVE DispatchInv
    OBVIOUS
  <2>1. TypeOK
    BY InitTyped
  <2> QED
    BY <2>1 DEF Init, DispatchInv, Listens, ClaimSound, LeaseHeld, EntrySound, Held, Leased, Entered
<1> QED
  BY <1>1, DispatchInvStep, PTL DEF Spec

\* The executor of a tool call is entered at most once, however often the
\* policy changes and the turn starts the authorization over.
THEOREM AtMostOnce == Spec => []EnteredAtMostOnce
<1>1. DispatchInv => EnteredAtMostOnce
  BY DEF DispatchInv, EntrySound, EnteredAtMostOnce
<1> QED
  BY <1>1, DispatchSafe, PTL

\* A revocation or a policy change that follows a claim reaches the lease,
\* whatever siblings do to the fence they share.
THEOREM LiveLeases == Spec => []LiveLeaseAuthorized
<1>1. DispatchInv => LiveLeaseAuthorized
  BY DEF DispatchInv, ClaimSound, Authorized, LiveLeaseAuthorized
<1> QED
  BY <1>1, DispatchSafe, PTL

\* A call recorded or answered as not dispatched never ran.
THEOREM Truthful == Spec => []RefusedNeverRan
<1>1. DispatchInv => RefusedNeverRan
  BY DEF DispatchInv, EntrySound, Entered, RefusedNeverRan
<1> QED
  BY <1>1, DispatchSafe, PTL

\* A running executor is covered by a lease, also after the port has answered.
THEOREM RunningLeased == Spec => []RunningIsLeased
<1>1. DispatchInv => RunningIsLeased
  BY DEF DispatchInv, LeaseHeld, RunningIsLeased
<1> QED
  BY <1>1, DispatchSafe, PTL

-----------------------------------------------------------------------------
(* What a call holds at each place of its way.                             *)

\* The permit stays behind, not consumed, on the two ways out of LeftBehind.
Kept(c) ==
  /\ permit[c] # "consumed" /\ entries[c] = 0
  /\ \/ pc[c] = "cancelled" /\ c \in confirmed /\ reason[c] = "none"
     \/ pc[c] \in {"reporting", "failed", "denied", "cancelled"} /\ reason[c] = "UNRESOLVED"

HoldsNothing(c) ==
  /\ permit[c] = "none" \/ Kept(c)
  /\ admitted[c] = "absent" /\ lease[c] = "none" /\ c \notin listening

\* Before the policy was asked, and after the port or the deferred cleanup.
Bare == {"prepare", "prepared", "approval", "reporting", "acked", "finished", "denied",
         "cancelled", "failed", "parked", "not-dispatched"}

\* Before tool-call-started is written, or after it was taken back.
Unstarted == {"prepare", "prepared", "approval", "authorized", "resolving", "consumed", "validating",
              "claimed", "denied", "cancelled", "not-dispatched"}

HoldsByPlace ==
  \A c \in Calls :
    /\ pc[c] \in Bare => HoldsNothing(c)
    /\ pc[c] \in {"prepare", "prepared", "approval", "authorized"} => reason[c] = "none"
    /\ pc[c] \in {"authorized", "resolving"} =>
         /\ permit[c] # "consumed" /\ admitted[c] = "absent" /\ lease[c] = "none"
         /\ c \notin listening
    /\ pc[c] = "running" => exec[c] # "none"
    /\ pc[c] = "unknown" /\ exec[c] = "none" => HoldsNothing(c)

StartByPlace == \A c \in Calls : pc[c] \in Unstarted => record[c] # "started"

LeakInv == TypeOK /\ HoldsByPlace /\ StartByPlace

\* A call lets go of all it holds before it comes to a place where it holds
\* nothing, whatever its siblings and the world do to the stores meanwhile.
LEMMA LeakInvStep == EntrySound /\ LeakInv /\ [Next]_vars => LeakInv'
<1> SUFFICES ASSUME EntrySound, LeakInv, [Next]_vars PROVE (HoldsByPlace /\ StartByPlace)'
  BY TypingStep DEF LeakInv
<1> USE DEF LeakInv, TypeOK, HoldsByPlace, HoldsNothing, Kept, StartByPlace, Bare, Unstarted, Reasons,
      Terminal, Goto, Reject, world, local, store, admission, executor
<1>1. CASE Cancel
  BY <1>1 DEF Cancel, InvalidateBinding, Invalidate, StoreReason
<1>2. ASSUME NEW t \in Tools, Revoke(t) PROVE (HoldsByPlace /\ StartByPlace)'
  BY <1>2 DEF Revoke, InvalidateBinding, Invalidate, StoreReason
<1>3. CASE ChangePolicy
  BY <1>3 DEF ChangePolicy, InvalidateBinding, Invalidate, StoreReason
<1>4. ASSUME NEW c \in Calls, PortStep(c) PROVE (HoldsByPlace /\ StartByPlace)'
  <2>1. CASE Prepare(c)
    BY <2>1 DEF Prepare
  <2>2. CASE PrepareFails(c)
    BY <2>2 DEF PrepareFails
  <2>3. CASE Authorize(c)
    BY <2>3 DEF Authorize
  <2>4. CASE AuthorizeDenies(c)
    BY <2>4 DEF AuthorizeDenies
  <2>5. CASE Handoff(c)
    BY <2>5 DEF Handoff, EntrySound, Entered
  <2>6. CASE EnterRevoked(c)
    BY <2>6 DEF EnterRevoked
  <2>7. CASE EnterStale(c)
    BY <2>7 DEF EnterStale, InvalidateBinding, Invalidate, StoreReason
  <2>8. CASE EnterCancelled(c)
    BY <2>8 DEF EnterCancelled, InvalidateBinding, Invalidate, StoreReason, Fresh
  <2>9. CASE EnterConsume(c)
    BY <2>9 DEF EnterConsume, ConsumePermit, Fresh, Lifted
  <2>10. CASE Mark(c)
    BY <2>10 DEF Mark
  <2>11. CASE Claim(c)
    BY <2>11 DEF Claim
  <2>12. CASE ClaimRefused(c)
    BY <2>12 DEF ClaimRefused
  <2>13. CASE AppendStarted(c)
    BY <2>13 DEF AppendStarted
  <2>14. CASE StartFails(c)
    BY <2>14 DEF StartFails
  <2>15. CASE EnterExecutor(c)
    BY <2>15 DEF EnterExecutor, EnterUnchecked, Aborted
  <2>16. CASE EntryRefused(c)
    BY <2>16 DEF EntryRefused, Aborted
  <2>17. CASE Acknowledge(c)
    BY <2>17 DEF Acknowledge, Aborted, Cleanup
  <2>18. CASE AbortReturns(c)
    BY <2>18 DEF AbortReturns, Aborted
  <2>19. CASE DeferredCleanup(c)
    BY <2>19 DEF DeferredCleanup, Cleanup
  <2>20. CASE AppendFinished(c)
    BY <2>20 DEF AppendFinished
  <2>21. CASE Settle(c)
    BY <2>21 DEF Settle, Cleanup
  <2>22. CASE ReportNotDispatched(c)
    BY <2>22 DEF ReportNotDispatched
  <2>23. CASE RetryAuthorization(c)
    BY <2>23 DEF RetryAuthorization
  <2>24. CASE ReportFails(c)
    BY <2>24 DEF ReportFails
  <2>25. CASE AskApproval(c)
    BY <2>25 DEF AskApproval
  <2>26. CASE Approve(c)
    BY <2>26 DEF Approve
  <2>27. CASE ApprovalOutdated(c)
    BY <2>27 DEF ApprovalOutdated
  <2>28. CASE ApprovalEnds(c)
    BY <2>28 DEF ApprovalEnds
  <2>29. CASE ResolveFails(c)
    BY <2>29 DEF ResolveFails, EntrySound, Entered
  <2> QED
    BY <1>4, <2>1, <2>2, <2>3, <2>4, <2>5, <2>6, <2>7, <2>8, <2>9, <2>10, <2>11, <2>12,
       <2>13, <2>14, <2>15, <2>16, <2>17, <2>18, <2>19, <2>20, <2>21, <2>22, <2>23, <2>24, <2>25,
       <2>26, <2>27, <2>28, <2>29 DEF PortStep
<1>5. ASSUME NEW c \in Calls, ExecutorSettles(c) PROVE (HoldsByPlace /\ StartByPlace)'
  BY <1>5 DEF ExecutorSettles
<1>6. CASE UNCHANGED vars
  BY <1>6 DEF vars
<1> QED
  BY <1>1, <1>2, <1>3, <1>4, <1>5, <1>6 DEF Next, World

\* A call that has returned and whose executor is gone holds no admission record,
\* no lease and no listener; no permit, but for one that was not consumed on the two
\* ways out of LeftBehind; and a refused one leaves no open tool-call-started: for
\* any calls that share an invocation and its fences.
THEOREM NothingIsLeaked == Spec => []NothingLeaked
<1>1. Init => LeakInv
  <2> SUFFICES ASSUME Init PROVE LeakInv
    OBVIOUS
  <2>1. TypeOK
    BY InitTyped
  <2> QED
    BY <2>1 DEF Init, LeakInv, HoldsByPlace, HoldsNothing, StartByPlace, Bare, Unstarted
<1>2. LeakInv => NothingLeaked
  BY DEF LeakInv, HoldsByPlace, HoldsNothing, Kept, LeftBehind, StartByPlace, Bare, Unstarted,
         NothingLeaked, Terminal
<1>3. DispatchInv => EntrySound
  BY DEF DispatchInv
<1> QED
  BY <1>1, <1>2, <1>3, DispatchSafe, LeakInvStep, PTL DEF Spec

\* A step that moves one call moves only that call's phase.
LEMMA PhaseMoves ==
  ASSUME TypeOK, NEW c \in Calls, NEW where, Goto(c, where),
         \/ UNCHANGED entries
         \/ entries' = [entries EXCEPT ![c] = entries[c] + 1]
  PROVE  phase' = [phase EXCEPT ![c] = PhaseOf(c)'] /\ phase[c] = PhaseOf(c)
<1>1. \A d \in Calls : d # c => PhaseOf(d)' = PhaseOf(d)
  BY DEF TypeOK, Goto, PhaseOf
<1>2. phase' = [d \in Calls |-> PhaseOf(d)'] /\ phase = [d \in Calls |-> PhaseOf(d)]
  BY DEF phase
<1> QED
  BY <1>1, <1>2

\* Each step of the port is a step of the promise, or changes nothing of it.
LEMMA PromiseStep ==
  ASSUME DispatchInv, NEW c \in Calls, PortStep(c)
  PROVE  \/ Promise!Ask(c) \/ Promise!Refuse(c) \/ Promise!Enter(c) \/ Promise!Answer(c)
         \/ UNCHANGED Promise!vars
<1> DEFINE Moves == phase' = [phase EXCEPT ![c] = PhaseOf(c)'] /\ phase[c] = PhaseOf(c)
<1>0. TypeOK /\ ClaimSound /\ LeaseHeld /\ EntrySound
  BY DEF DispatchInv
<1>p. phase = [phase EXCEPT ![c] = phase[c]]
  BY DEF phase
<1> USE DEF Goto, Reject, world, local, store, admission, executor,
      Promise!Ask, Promise!Refuse, Promise!Enter, Promise!Answer, Promise!vars
<1>1. CASE Prepare(c)
  <2>1. Moves
    BY <1>0, <1>1, PhaseMoves DEF Prepare, TypeOK
  <2>2. PhaseOf(c) = "asking" /\ PhaseOf(c)' = (IF cancelled THEN "refused" ELSE "asking")
    BY <1>0, <1>1 DEF Prepare, PhaseOf, Terminal, TypeOK, EntrySound, Entered
  <2>3. bound' = [bound EXCEPT ![c] = version] /\ UNCHANGED <<revoked, version>>
    BY <1>1 DEF Prepare
  <2>4. CASE cancelled
    BY <2>1, <2>2, <2>3, <2>4
  <2>5. CASE ~cancelled
    BY <1>p, <2>1, <2>2, <2>3, <2>5
  <2> QED
    BY <2>4, <2>5
<1>2. CASE PrepareFails(c)
  <2>1. Moves
    BY <1>0, <1>2, PhaseMoves DEF PrepareFails, TypeOK
  <2> QED
    BY <1>0, <1>p, <1>2, <2>1 DEF PrepareFails, PhaseOf, Terminal, TypeOK, EntrySound, Entered
<1>3. CASE Authorize(c)
  <2>1. Moves
    BY <1>0, <1>3, PhaseMoves DEF Authorize, TypeOK
  <2> QED
    BY <1>0, <1>p, <1>3, <2>1 DEF Authorize, PhaseOf, Terminal, TypeOK, EntrySound, Entered
<1>4. CASE AuthorizeDenies(c)
  <2>1. Moves
    BY <1>0, <1>4, PhaseMoves DEF AuthorizeDenies, TypeOK
  <2> QED
    BY <1>0, <1>p, <1>4, <2>1 DEF AuthorizeDenies, PhaseOf, Terminal, TypeOK, EntrySound, Entered
<1>5. CASE Handoff(c)
  <2>1. Moves
    BY <1>0, <1>5, PhaseMoves DEF Handoff, TypeOK
  <2> QED
    BY <1>0, <1>p, <1>5, <2>1 DEF Handoff, PhaseOf, Terminal, TypeOK, EntrySound, Entered
<1>6. CASE EnterRevoked(c)
  <2>1. Moves
    BY <1>0, <1>6, PhaseMoves DEF EnterRevoked, TypeOK
  <2> QED
    BY <1>0, <1>p, <1>6, <2>1 DEF EnterRevoked, PhaseOf, Terminal, TypeOK, EntrySound, Entered
<1>7. CASE EnterStale(c)
  <2>1. Moves
    BY <1>0, <1>7, PhaseMoves DEF EnterStale, TypeOK
  <2> QED
    BY <1>0, <1>p, <1>7, <2>1 DEF EnterStale, PhaseOf, Terminal, TypeOK, EntrySound, Entered
<1>8. CASE EnterCancelled(c)
  <2>1. Moves
    BY <1>0, <1>8, PhaseMoves DEF EnterCancelled, Fresh, TypeOK
  <2> QED
    BY <1>0, <1>p, <1>8, <2>1 DEF EnterCancelled, Fresh, PhaseOf, Terminal, TypeOK, EntrySound, Entered
<1>9. CASE EnterConsume(c)
  <2>1. Moves
    BY <1>0, <1>9, PhaseMoves DEF EnterConsume, ConsumePermit, Fresh, TypeOK
  <2> QED
    BY <1>0, <1>p, <1>9, <2>1 DEF EnterConsume, ConsumePermit, Fresh, PhaseOf, Terminal, TypeOK, EntrySound, Entered
<1>10. CASE Mark(c)
  <2>1. Moves
    BY <1>0, <1>10, PhaseMoves DEF Mark, TypeOK
  <2> QED
    BY <1>0, <1>p, <1>10, <2>1 DEF Mark, PhaseOf, Terminal, TypeOK, EntrySound, Entered
<1>11. CASE Claim(c)
  <2>1. Moves
    BY <1>0, <1>11, PhaseMoves DEF Claim, TypeOK
  <2> QED
    BY <1>0, <1>p, <1>11, <2>1 DEF Claim, PhaseOf, Terminal, TypeOK, EntrySound, Entered
<1>12. CASE ClaimRefused(c)
  <2>1. Moves
    BY <1>0, <1>12, PhaseMoves DEF ClaimRefused, TypeOK
  <2> QED
    BY <1>0, <1>p, <1>12, <2>1 DEF ClaimRefused, PhaseOf, Terminal, TypeOK, EntrySound, Entered
<1>13. CASE AppendStarted(c)
  <2>1. Moves
    BY <1>0, <1>13, PhaseMoves DEF AppendStarted, TypeOK
  <2> QED
    BY <1>0, <1>p, <1>13, <2>1 DEF AppendStarted, PhaseOf, Terminal, TypeOK, EntrySound, Entered
<1>14. CASE StartFails(c)
  <2>1. Moves
    BY <1>0, <1>14, PhaseMoves DEF StartFails, TypeOK
  <2> QED
    BY <1>0, <1>p, <1>14, <2>1 DEF StartFails, PhaseOf, Terminal, TypeOK, EntrySound, Entered
<1>15. CASE EnterExecutor(c)
  <2>1. Moves
    BY <1>0, <1>15, PhaseMoves DEF EnterExecutor, EnterUnchecked, Aborted, TypeOK
  <2>2. PhaseOf(c) = "asking" /\ PhaseOf(c)' = "entered"
    BY <1>0, <1>15 DEF EnterExecutor, EnterUnchecked, PhaseOf, Terminal, TypeOK, EntrySound, Entered
  <2>3. lease[c] = "open"
    BY <1>0, <1>15 DEF EnterExecutor, EnterUnchecked, Aborted, LeaseHeld, Leased
  <2>4. Authorized(c)
    BY <1>0, <2>3 DEF ClaimSound
  <2>5. UNCHANGED <<bound, revoked, version>>
    BY <1>15 DEF EnterExecutor, EnterUnchecked
  <2> QED
    BY <2>1, <2>2, <2>4, <2>5 DEF Authorized
<1>16. CASE EntryRefused(c)
  <2>1. Moves
    BY <1>0, <1>16, PhaseMoves DEF EntryRefused, Aborted, TypeOK
  <2> QED
    BY <1>0, <1>p, <1>16, <2>1 DEF EntryRefused, Aborted, PhaseOf, Terminal, TypeOK, EntrySound, Entered
<1>17. CASE Acknowledge(c)
  <2>1. Moves
    BY <1>0, <1>17, PhaseMoves DEF Acknowledge, Aborted, TypeOK
  <2> QED
    BY <1>0, <1>p, <1>17, <2>1 DEF Acknowledge, Aborted, PhaseOf, Terminal, TypeOK, EntrySound, Entered
<1>18. CASE AbortReturns(c)
  <2>1. Moves
    BY <1>0, <1>18, PhaseMoves DEF AbortReturns, Aborted, TypeOK
  <2> QED
    BY <1>0, <1>p, <1>18, <2>1 DEF AbortReturns, Aborted, PhaseOf, Terminal, TypeOK, EntrySound, Entered
<1>19. CASE DeferredCleanup(c)
  BY <1>19 DEF DeferredCleanup, phase, PhaseOf
<1>20. CASE AppendFinished(c)
  <2>1. Moves
    BY <1>0, <1>20, PhaseMoves DEF AppendFinished, TypeOK
  <2> QED
    BY <1>0, <1>p, <1>20, <2>1 DEF AppendFinished, PhaseOf, Terminal, TypeOK, EntrySound, Entered
<1>21. CASE Settle(c)
  <2>1. Moves
    BY <1>0, <1>21, PhaseMoves DEF Settle, TypeOK
  <2> QED
    BY <1>0, <1>p, <1>21, <2>1 DEF Settle, PhaseOf, Terminal, TypeOK, EntrySound, Entered
<1>22. CASE ReportNotDispatched(c)
  <2>1. Moves
    BY <1>0, <1>22, PhaseMoves DEF ReportNotDispatched, TypeOK
  <2> QED
    BY <1>0, <1>p, <1>22, <2>1 DEF ReportNotDispatched, PhaseOf, Terminal, TypeOK, EntrySound, Entered
<1>23. CASE RetryAuthorization(c)
  <2>1. Moves
    BY <1>0, <1>23, PhaseMoves DEF RetryAuthorization, TypeOK
  <2> QED
    BY <1>0, <1>p, <1>23, <2>1 DEF RetryAuthorization, PhaseOf, Terminal, TypeOK, EntrySound, Entered
<1>24. CASE ReportFails(c)
  <2>1. Moves
    BY <1>0, <1>24, PhaseMoves DEF ReportFails, TypeOK
  <2> QED
    BY <1>0, <1>p, <1>24, <2>1 DEF ReportFails, PhaseOf, Terminal, TypeOK, EntrySound, Entered
<1>25. CASE AskApproval(c)
  <2>1. Moves
    BY <1>0, <1>25, PhaseMoves DEF AskApproval, TypeOK
  <2> QED
    BY <1>0, <1>p, <1>25, <2>1 DEF AskApproval, PhaseOf, Terminal, TypeOK, EntrySound, Entered
<1>26. CASE Approve(c)
  <2>1. Moves
    BY <1>0, <1>26, PhaseMoves DEF Approve, TypeOK
  <2> QED
    BY <1>0, <1>p, <1>26, <2>1 DEF Approve, PhaseOf, Terminal, TypeOK, EntrySound, Entered
<1>27. CASE ApprovalOutdated(c)
  <2>1. Moves
    BY <1>0, <1>27, PhaseMoves DEF ApprovalOutdated, TypeOK
  <2> QED
    BY <1>0, <1>p, <1>27, <2>1 DEF ApprovalOutdated, PhaseOf, Terminal, TypeOK, EntrySound, Entered
<1>28. CASE ApprovalEnds(c)
  <2>1. Moves
    BY <1>0, <1>28, PhaseMoves DEF ApprovalEnds, TypeOK
  <2>2. pc'[c] \in {"denied", "failed", "parked", "cancelled"} /\ entries' = entries
    BY <1>0, <1>28 DEF ApprovalEnds, TypeOK
  <2>3. PhaseOf(c) = "asking" /\ PhaseOf(c)' = "refused"
    BY <1>0, <1>28, <2>2 DEF ApprovalEnds, PhaseOf, Terminal, TypeOK, EntrySound, Entered
  <2>4. UNCHANGED <<bound, revoked, version>>
    BY <1>28 DEF ApprovalEnds
  <2> QED
    BY <2>1, <2>3, <2>4
<1>29. CASE ResolveFails(c)
  <2>1. Moves
    BY <1>0, <1>29, PhaseMoves DEF ResolveFails, TypeOK
  <2> QED
    BY <1>0, <1>p, <1>29, <2>1 DEF ResolveFails, PhaseOf, Terminal, TypeOK, EntrySound, Entered
<1> QED
  BY <1>1, <1>2, <1>3, <1>4, <1>5, <1>6, <1>7, <1>8, <1>9, <1>10, <1>11, <1>12, <1>13, <1>14,
     <1>15, <1>16, <1>17, <1>18, <1>19, <1>20, <1>21, <1>22, <1>23, <1>24, <1>25, <1>26, <1>27,
     <1>28, <1>29 DEF PortStep

\* The dispatch path implements DispatchPromise: refused without having run,
\* or run once under the policy it asked for and a tool still granted.
THEOREM KeepsPromise == Spec => PromiseKept
<1>1. Init => Promise!Init
  BY DEF Init, Promise!Init, phase, PhaseOf, Terminal
<1>2. DispatchInv /\ [Next]_vars => [Promise!Next]_(Promise!vars)
  <2> SUFFICES ASSUME DispatchInv, [Next]_vars PROVE [Promise!Next]_(Promise!vars)
    OBVIOUS
  <2>1. CASE Cancel
    BY <2>1 DEF Cancel, local, executor, phase, PhaseOf, Promise!vars
  <2>2. ASSUME NEW t \in Tools, Revoke(t) PROVE Promise!Next
    BY <2>2 DEF Revoke, local, executor, phase, PhaseOf, Promise!Next, Promise!Revoke
  <2>3. CASE ChangePolicy
    BY <2>3 DEF ChangePolicy, executor, phase, PhaseOf, Promise!Next, Promise!ChangePolicy
  <2>4. ASSUME NEW c \in Calls, PortStep(c) PROVE [Promise!Next]_(Promise!vars)
    BY <2>4, PromiseStep DEF Promise!Next
  <2>5. ASSUME NEW c \in Calls, ExecutorSettles(c) PROVE UNCHANGED Promise!vars
    BY <2>5 DEF ExecutorSettles, world, local, phase, PhaseOf, Promise!vars
  <2>6. CASE UNCHANGED vars
    BY <2>6 DEF vars, world, local, executor, phase, PhaseOf, Promise!vars
  <2> QED
    BY <2>1, <2>2, <2>3, <2>4, <2>5, <2>6 DEF Next, World
<1> QED
  BY <1>1, <1>2, DispatchSafe, PTL DEF Spec, PromiseKept, Promise!Spec
=============================================================================
