# SpaceAssistant: a verification project

SpaceAssistant is a desktop assistant (Electron, TypeScript). A user, an instant
message, a timer or an event asks for a *turn*; a turn alternates model calls
and rounds of tool calls; tool calls change files, run programs and need
permission. What must not go wrong is control, not text: a tool must not run
after its permission is gone, a call that ran must not be told as not run, two
calls must not write one file at once, a turn that the user cancelled must stay
cancelled, and what was answered must be in the database.

The TLA+ modules in this directory model that control, TLC checks them on small
instances, and TLAPS proves the main results for all instances. Paths below are
relative to `src/`. "SDK" is `packages/agent-sdk/src`.

## 1. The system

### Components, their state and how they interact

| Component | Code | State | Operations | Works with |
|---|---|---|---|---|
| Turn coordinator | `src/shared/turnCoordinator.ts`, `electron/turnRuntime.ts` | turns in memory, timers, checkpoint bookkeeping | prepare, execute, consume a fact, cancel, timeout, finish, recover | sources of facts, `operations.ts` |
| Turn rows | `electron/database/operations.ts` | tables of turns and messages | prepare turn, update state, checkpoint, list unfinished | turn coordinator |
| Tool round | SDK `turn.ts` | states of the calls, slots, permits, leases, History | run the calls of a response, settle, park, end | gate, confirmation, port, locks, History |
| Permit store, admission, execution port | SDK `safetyPermit.ts`, `executionAdmission.ts`, `toolExecutionPort.ts` | permits, fences by invocation, leases | issue, consume, mark, claim, invalidate, settle | tool round, registries of cancels and revocations |
| Resource locks | SDK `resourceLock.ts` | held keys, waiters | acquire, release, abort | tool round |
| Approval capacity | SDK `approval.ts` | active count, queue, count per parent | acquire, cancel, release, deadline | approval agent |
| Semaphores, MCP gate | SDK `runtime/semaphore.ts` | counts, queues | acquire, release | MCP executor |
| Cancel and revocation registries | SDK `runtime/components.ts` | controllers, sets of revoked tools | register, signal, clear | IPC, tool round, port |
| History | SDK `history.ts`, `electron/runtime/sqliteAgentHistory.ts`, `canonicalHistory.ts` | event log per session | append with expected version, project | tool round, handoff, recovery |
| Session execution, transcript | `electron/database/sessionTranscript.ts`, `electron/runtime/hostedTurnHandoff.ts` | one claim per session with generation, queue, checkpoint | claim, start, commit, release, mark uncertain, recover | turns of one session |
| Call admission | `electron/runtime/callAdmissionGate.ts` | counters, queue, parked tickets, releases to retry | acquire, release, park, resume, discard, cancel, restart | acceptor, model calls, IM agent, automation |
| Outbound acceptor, drainer | `electron/outbound/outboundAcceptor.ts` | sessions being drained, retries, remembered triggers | submit, drain | turn coordinator |
| Deferred approvals, continuation | `electron/confirmation/deferredTodoStore.ts`, `electron/runtime/agentContinuation.ts`, `electron/remote/deferredResumeCoordinator.ts` | todos, checkpoints | create, decide, resume | parked turns |
| Delivery | `electron/driver/deliveryHub.ts`, `sqliteDeliveryJournal.ts` | backlog, journal, supersede state | deliver, defer, flush, expire | IM drivers |
| Wake events, inbox | `electron/database/wakeEvents.ts`, `imInbox.ts`, `electron/remote/wakeEventDispatcher.ts` | events with leases | claim, acknowledge, release, retry | turns, recovery |
| Triggers | `electron/triggers/*` | cursors of sources | receive, checkpoint, recover | wake events |
| Policy and confirmation | `src/shared/policy/policyEngine.ts`, `electron/confirmation/*` | rules, pending confirmations | evaluate, ask, answer | tool round |
| Session ledger, storage, spill | `electron/session*`, `electron/sessionStorage`, `electron/storage` | files beside the database | append, repair, migrate, collect | database |
| Automation | `electron/butler/*` | tasks, schedules | schedule, run | turn coordinator |
| Executors (files, shell, MCP, browser, wiki, skills) | `electron/tools`, `electron/mcp`, `electron/browser`, `electron/wiki`, `electron/skills` | external | execute | port |
| Renderer | `src/renderer` | view state | display | IPC |

`PROJECT.json` lists all of them, the ones that are not modelled with the reason.

The parts run on one JavaScript thread per process: a handler runs to its next
`await` undisturbed, and everything else may come between two awaits. Timers,
database errors, user answers, aborts and a crash of the process are the other
actors.

### What is hard, and what makes it correct

* **Permission against execution.** A permit is consumed, marked, claimed and the
  start recorded in four asynchronous steps, while cancel, revocation and policy
  changes arrive; sibling calls share one fence. Right means: no executor is
  entered without standing permission, none twice, and the record tells the truth.
* **A round of tool calls.** Workers, slots, permits, leases, abort, deferral and
  failing writes interleave. Right means: everything taken comes back, one
  result per call, the gravest failure speaks, a cancelled round ends.
* **The end of a turn.** Source, cancel window, timeout, rejection, recovery and
  crash all try to end it, and message and outcome are written apart. Right
  means: one outcome, shown by memory, row and message alike; nothing stored is
  lost; a session has one unfinished turn.
* **Exclusion over resources.** Keys conflict by containment and the waiters are
  scanned out of order. Right means: exclusion, no leak, nobody stranded.
* **The queue of a session.** A message that comes while a turn runs is queued, and
  the end of the turn drains the queue, from callbacks that overlap. Right means:
  no message is left behind, run twice or overtaken in the queue.
* **Capacity shared by lanes.** Counters in memory and in the database, callers that
  queue, park and vanish, releases that cannot be written. Right means: the
  counters are the tickets, and no slot is lost.
* **The claim of a session.** A turn claims the session, starts, leaves events and
  commits its transcript, and any of these may be the last thing that happened
  before a restart. Right means: one turn at a time with the claim its commit asks
  for, nothing that ran is skipped, and the session does not stay blocked.
* **Sending to the outside.** A send cannot be taken back, and its acknowledgement may
  be lost. Right means: not sent twice, not older after newer, and told truly.

## 2. The modules

| Module | Models |
|---|---|
| `DispatchPromise` | abstract: what the dispatch path promises of a tool call |
| `ToolDispatch`, `ToolDispatchProofs` | permit store, admission coordinator, execution port and the authorization retry loop of the turn; its theorems |
| `ResourceLocks`, `ResourceLocksProofs` | `ResourceLockRegistry`; its theorems |
| `ToolRound`, `ToolRoundProofs` | the tool calls of one model response; its theorems |
| `TurnPromise` | abstract: what the database promises of the turns of a session |
| `TurnLifecycle`, `TurnLifecycleProofs` | the turn coordinator with its rows; its theorems |
| `CallAdmission`, `CallAdmissionProofs` | `CallAdmissionGate`; its theorems |
| `QueuePromise` | abstract: what a session promises of the messages its user sends |
| `OutboundQueue`, `OutboundQueueProofs` | the outbound acceptor and the drainer; their theorems |
| `DeliveryHub`, `DeliveryHubProofs` | the delivery hub, its journal, and the rows of the runs; its theorems |
| `SessionExecution`, `SessionExecutionProofs` | the queue, claim and transcript of a session; its theorems |
| `MC...` | the constants of the small instances |

`ToolRound` treats the execution port as one await with the answers that
`ToolDispatch` shows it to give, and the registry of leases as the grant of a
call none of whose conflicting calls holds a lease, which `ResourceLocks`
proves it to be. A turn of `TurnLifecycle` is what runs `ToolRound` again and
again; of a round it only sees the facts and the outcome the source reports.
The turn of `OutboundQueue` is its place in `TurnLifecycle`: active in memory, or
only its row open. A source that runs a turn holds a ticket of `CallAdmission` and
the claim of `SessionExecution` meanwhile; the two know nothing of each other.
`DeliveryHub` takes the results of runs that are over.

**A definition preceded by "Mutated form of X"** is not part of the model: it is
X with a plausible mistake, and each property is listed in `PROJECT.json` with a
mutated form under which TLC finds the property violated.

### ToolDispatch

The state is that of the two stores (`permit` and `storeFence` of the permit
store; the permits known to the admission, its fence and the leases), that of
each call (its place in the code, its attempts, its versions), that of the world
(cancelled, revoked tools, policy version) and what History last recorded. There
is one action for each stretch between two awaits of `execute`, and the three
events of the world. The bodies of `invalidate`, `settle` and
`clearAuthorizationInvalidation` are operators used by those actions, so a
sibling that lifts or drops a shared fence does it in the middle of another
call, as in the code. Between authorization and port the gate may ask for a fresh
approval (`AskApproval`), after which the call is prepared and authorized again;
`confirmed` has the calls that came to the gate that way, whose permit a cancel does
not discard (`Handoff`). The port may be left before its `try` block (`ResolveFails`).
These are the two ways out on which a permit stays behind: `LeftBehind`.

### ResourceLocks

A caller asks for its keys, waits or holds, releases and comes again, without end.
The waiters array is the set of waiting callers with, for each, those that were in
it before (`ahead`). `Wakes` is the whole scan of `wake()`: the callers granted by
one pass, each against the keys held by those before it.

### ToolRound

`pc[c]` names the await a call stands at; an action runs from one await to the
next, whatever the answer. The host's, the gate's, the user's and the port's
answers are the set `Inputs`. `Loop` and `Settle` are `mapWithConcurrency`,
`RoundStep` the code after it (the first rejection of the gravest kind, pending
calls marked, parked or thrown), `Catch` the outer catch block that closes
History. The barrier of a work directory switch is one of the reasons in
`TurnAway`. `Over` stutters when all is done, so a deadlock would be found.
Not modelled: appends other than `tool-call-finished` failing, failing
projections to the observer, the model call around the round.

### TurnLifecycle

`mem[t]` is what the process holds of a turn and `row[t]` its row and message.
One handler is one action, built by composing the code's own helpers
(`Consume`, `Flush`, `Persist`, `Retry`, `Finalize`, `Update`) on a record of
memory, row and whether the code threw. The database writes of one handler are
numbered; any set of them may fail (`Failing`), in which case the rest of the
handler is what the code's catch blocks make of it. A message's content is the
version it was written at. `Crash` empties memory and keeps the rows;
`Replay` is `prepare` called again for the same request. `Canonical` are the
outcomes recovery may read from the canonical History; 'failed' and 'timed-out'
are left to behave like 'recovered', which they do there.
Not modelled: `retryCheckpoint`, the loop over leftovers of older formats in
`recover`, the rows of queued input, the authorization of triggers.

### CallAdmission

Every operation of the gate is synchronous, so each is one action. The two arrays of
the code, waiters and callers that come back, carry sequence numbers, and the scan goes
through both by them; `ahead` has, for each entry, those with a smaller number. `active` and
`disk` are the counters in memory and in the database, which part only while a
write fails. `held` are the tickets that are out, `retrying` those whose release
the gate's own timer tries again. Each failing retry of the code schedules two
new timers; the model has the set of tickets to retry. Callers in the code: the
outbound acceptor and `imRemoteAgent.ts:158` (which cannot wait),
`claudeStreamHandlers.ts:360` (which can, until its signal aborts) and
`butlerInvoker.ts:215` (background). Only tests park and resume. A park whose release
cannot be written leaves its caller running without a handle, while the timer
frees the slot: in the model it runs on and its ticket is in `retrying`.

### OutboundQueue

A call of `drain` is a process whose steps are the stretches between two awaits;
`draining`, `suppressed` and `attempts` are the acceptor's own. A message in
`entry` is on its way through the acceptor, queued, or has had its turn. The turn
is `running` while it is in memory and `settling` while only its row is open:
`source-completed` makes it final in memory and triggers the drainer before the
row settles, so a drain may come too early and is rejected as busy. `stalled`
records that the drainer gave up after its retries, which the code reports in its
audit, or was restarted, which triggers nothing.
Not modelled: slash commands and wiki hints (a message that is consumed without a
turn is one of the outcomes), the routing of continuations, reordering by the
user, queues of other scopes.

### DeliveryHub

A run is delivered once, under its own id, so an id names the intent, its
journal row and the run, and its number is its place among the results of its task. A
flush is a process: it takes the whole backlog out of memory and awaits each
send, while new results arrive and the expiry timer fires. `sent` remembers what
was handed to the driver and not refused. `lost` says that a step since the last
start could not write what it had to, which the code answers only in part: an item
behind a failed write of a flush is in no list until the next start.
Not modelled, since the program never does it: an id delivered a second time, several
targets in one call, the replacement of a driver. The writes at a start succeed.
That the driver answers with refused, sent or uncertain is the contract of
`DeliveryDriver`; the IM drivers give only the last two.

### SessionExecution

`db` is the database, and every transaction of `sessionTranscript.ts` a function of
it, so that a recovery that stops half-way is a prefix of their composition.
`at[t]` is the call of the handoff; a turn claims once, so it stands for its
owner and its generation. `Stale`, `RestartTerminal` and `Reconcile` are the three
transactions of a recovery; `Seen` is what a waiting turn finds, the session
recovered unless a turn of it runs in this process. `Commit` is the transaction
of terminal event and transcript, `Bare` the terminal event alone when that failed,
`Unwritten` neither. `Mark`, `MarkClaimOnly` and `MarkFails` are what the handoff makes
of doubt, by which of its writes fail.
Not modelled: the review of an operator (no caller outside tests), entries of the
first protocol, spilled results, cleanup of orphaned shells, deletion of a
session; writes other than those named succeed.

## 3. What TLC checks

| Run | Instance | Shows |
|---|---|---|
| `dispatch_shared` | 2 calls, one of which may need a fresh approval, 1 invocation, 2 tools, 2 attempts, 1 policy change | leases, record and stores stay sound with shared fences, and the path implements `DispatchPromise` |
| `locks_files` | 5 callers that come again: a directory, a file below it, another directory, both, an unknown effect | exclusion, no leak, nobody stranded; who waits for ever is overtaken for ever (`OnlyOvertakingStarves`) |
| `round_mixed` | 3 calls, 2 workers, 2 candidates, denials end the turn, a write may fail, abort | the record has one true result for a call (`ToldOnce`) and a terminal event that fits it (`TerminalFits`), no overlap, the scheduler drains first |
| `round_cancel` | all refusals, deferral and abort, one slot, one permit | everything is returned and a deferral parks the turn (`RoundEnds`), parking stops the rest, a cancelled round ends |
| `round_stale` | authorization stale after the start | *violation*: the finding of section 5 |
| `turn_desktop` | 2 turns of one session, 2 facts, a crash, a replayed request, no failing write | one turn at a time, one outcome everywhere (`Agree`), cancels stand, facts are stored, stopped turns end; implements `TurnPromise` |
| `turn_faults` | 2 turns of 2 sessions, all 7 outcomes, timeouts, a recovery of all sessions, 2 failing writes, a crash | what is stored never goes back, nothing final is lost in silence |
| `gate` | 5 requests of 2 lanes for 2 slots, 1 of them for the background, a queue of 2, a failing write, a crash | the counters are the tickets, limits hold, no slot is lost, nobody waits beside a free slot or is overtaken by its like, every waiter is answered |
| `outbound` | 3 messages, 2 drains at a time, 1 retry, a crash | no message is left behind, the drainer rests and has served (`Drained`); implements `QueuePromise` |
| `delivery` | 2 results of one task and 1 of another, a backlog of 1, 2 flushes at a time, 2 failing writes, a crash | nothing is sent twice, nothing older after newer, and memory, journal and runs agree on what waits (`WaitingAgrees`) |
| `delivery_ends` | 1 result of each of 2 tasks, the same faults | a run that waits for its delivery is told what became of it |
| `session_fifo` | 3 turns of one session, 3 failures, 2 crashes | one turn runs with its claim, nothing is skipped, the session can go on |

**Bounds.** Two calls are the least that share a fence, and each interleaving of
interest is between one call and one sibling; a second attempt is the least that
comes back after a fence was lifted. `Asking` has one of the two calls, for the size of
the run; a fresh approval concerns its own call only. Three calls on two workers are the least
with one in flight, one waiting and one unclaimed; slots and permits are
one each (two in the code) and authorizations two (eight) so that they run out.
Calls 1 and 3 share a resource. Two turns are the least to compete for a
session; two facts are the least with one checkpointed and one after it. Five callers of
the locks are the least with each kind of conflict. Five
requests on two slots and a queue of two are the least that run, wait, are turned
away and pass over one whose lane is full. Three messages are the least of
which two wait behind a running turn; two drains are the least that overlap; one
retry (three in the code) is the least after which the drainer gives up. Three
results are the least with two of a task and a full backlog. Three turns are the
least with one that failed, one that runs over it and one behind; three failures
are one more than it takes to skip a parked turn, and two crashes are the least with
one in the middle of a recovery. Crashes, failing writes, replays, policy
changes, facts and calls under way are bounded by the constants `MaxCrashes`,
`MaxFaults`, `MaxReplays`, `MaxVersion`, `MaxFacts`, `MaxDrains`, `MaxFlushes` in the
guards. `round_mixed` excludes deferral and `round_cancel` the failing write because the
two together are a known disagreement (section 5). `CHECK_DEADLOCK FALSE` stands
where the system may stop: every call answered and no event left; a row that
nobody recovers; all messages and results dealt with.

**Fairness.** `ToolDispatch`, `SessionExecution`: none, since only safety and a
refinement without liveness are checked. `ResourceLocks`: a lease is released, which the
`finally` block of the turn does. `ToolRound`: continuations run, and an await
is answered once the request is aborted, as every one of them listens to the
signal; a running executor may hang for ever. `TurnLifecycle`: the timers of
the window and of checkpoints fire; nothing is assumed of the source.
`CallAdmission`: a caller releases its ticket, which its `finally` block does, and the
gate's retry timer fires until the release is written. `OutboundQueue`: promises are continued and turns end,
with their rows. `DeliveryHub`: time passes and code that is not waiting goes on
(weak); the driver answers, and the event loop serves every answer and timer that
is due though flushes keep them from it for a while (strong); nothing is assumed
of the connection.

## 4. What is proved

| Theorem | Says, for all values of the constants |
|---|---|
| `ToolDispatchProofs!Typing`, `AtMostOnce`, `LiveLeases`, `Truthful`, `RunningLeased` | an executor is entered once at most; an unaborted lease has its tool granted and its policy current; a refused call never ran; what runs is leased |
| `ToolDispatchProofs!NothingIsLeaked` | a call that has returned and whose executor is gone holds no record, lease or listener, no permit but for an unconsumed one on the two ways out of `LeftBehind`, and leaves no open start if it was refused |
| `ToolDispatchProofs!KeepsPromise` | `ToolDispatch` implements `DispatchPromise` |
| `ResourceLocksProofs!MutualExclusion`, `NothingLeftHeld`, `WaitersAreBlocked` | holders exclude each other, `held` is exactly their keys, a waiter has a holder against it |
| `ToolRoundProofs!OverlapNever`, `AllIsReturned` | calls over one resource never execute at once; slots, permits and workers keep to their numbers and are back when the round is settled |
| `ToolRoundProofs!DrainIsFirst`, `ParkIsStop` | after a denial nothing is claimed before what was claimed has settled; after a deferral nothing unclaimed is dispatched |
| `ToolRoundProofs!RoundEndsParked` | a round that a deferral alone stopped ends parked, *if* `ReturnDenied` |
| `ToolRoundProofs!TerminalAlwaysFits`, `RanAlwaysTold` | every turn gets a terminal event that fits its calls; a call that ran is not written off, *without* authorizations stale after the start (and, for the first, invalid checkpoints) |
| `ToolRoundProofs!ToldAlwaysOnce` | History says once and truly what became of a call, *without* stale ones and deferrals |
| `TurnLifecycleProofs!StoredOnlyGrows`, `NothingIsLost` | what is stored never goes back, and nothing final is lost in silence, *if* no request is replayed or no write fails |
| `TurnLifecycleProofs!PromiseIsKept` | `TurnLifecycle` implements `TurnPromise`, with failing writes, replays and crashes, *without* parked turns, timeouts and wakes that recover |
| `TurnLifecycleProofs!AllAgree`, `CancelsStand` | the outcome told is the one stored and shown; an accepted cancel stands, *if* no write fails, *without* parked turns and wakes that recover |
| `TurnLifecycleProofs!Typing`, `NeverTwoTurns` | memory and rows keep to their states, retries end at three; a session never has two unfinished turns, with failing writes, crashes, replays and recoveries |
| `CallAdmissionProofs!CountersConserved`, `SlotsComeBack`, `QueueIsBlocked` | both counters are those of the tickets that are out, each of which has somebody to release it; whoever waits does not fit |
| `CallAdmissionProofs!GateTyped`, `LimitsHold`, `NobodyOvertakes` | the tickets exceed no limit though a scan grants several; of two requests of one lane and priority the later does not get a slot while the earlier waits |
| `OutboundQueueProofs!QueueNeverStranded` | a queued message of an idle session has a drain under way, or the record that the drainer gave up |
| `OutboundQueueProofs!QueueKept` | `OutboundQueue` implements `QueuePromise` |
| `DeliveryHubProofs!SentAtMostOnce` | a result is handed to the driver again only after the driver refused it |
| `DeliveryHubProofs!NewestAlwaysWins` | no result is handed over when a newer one of its task was accepted and has not failed |
| `DeliveryHubProofs!WaitingIsAgreed` | while no write was lost, what waits in the journal is in hand and told so, and its timer is set |
| `SessionExecutionProofs!OneLease`, `NothingIsSkipped`, `CanRecover` | a turn that runs, and no other, has the claim; the transcript has one version after the other and no turn runs over a missing end; after any failure the next turn can run, but for the named cases |

*Assumptions*: those named `...Assumption` in the modules: what kinds the
constants have, and nothing of their sizes (the backlog of `DeliveryHub` is not
empty). The theorems with an *if* or *without* in the table have that as a
hypothesis on the constants, and only they. Each excludes a way the code is known to break
the property: the disagreements of section 5, which TLC finds when the constants let
them in. Everything else may happen: of `TurnLifecycle`, crashes are always in, `PromiseIsKept`
has failing writes and replays together, and `AllAgree` timeouts and replays.
`ReturnDenied` is `returnDeniedToolsToModel`, an option of the caller.

*ToolDispatch.* `LiveLeaseAuthorized` alone is not inductive: that a lease is
sound depends on the steps before the claim. `DispatchInv` adds `Listens` (a call
that holds a permit hears revocations and policy changes), `ClaimSound` (a
validated call whose admission record is still unclaimed is authorized, and so
is the call of an unaborted lease), `LeaseHeld` (no executor without a lease) and
`EntrySound` (entries and record fit the place in the code). Each event of the
world reaches all that listen, so it spoils the record of a call before its claim
or aborts its lease after it. `NothingIsLeaked` adds what a call holds at each place of
the code (`HoldsByPlace`, `StartByPlace`; `Kept` for the two ways out). The refinement then maps a step of the port to
`Enter` exactly when it enters the executor.

*ResourceLocks.* `LockInv` adds that of two waiters one is ahead of the other and
that `held` is the union of the holders' keys. The scan is a function on the ordered
waiters: a caller is woken if it fits with the keys of those woken before it. Exclusion
follows since each one woken is compared with all before; nobody is stranded
because one that is not woken conflicts with a key held after the scan.

*ToolRound.* `RoundInv` is an account of each call by its place in the code (`HoldsAt`:
its lease, slot and approval; `LogAt`: its last event against `dispatchState` and
outcome; `LeftAt`: what it may leave open) and of the round (`Workforce`: workers that
loop, wait or stand at a call are at most `Workers`; `LeasesApart`; `PermitsCounted`:
only full permits make a queue). A step of a call changes what that call holds and
nothing else, but for the permit it hands on, which is one lemma (`CallDone`). What
History has of a call needs its whole record (`ToldAt`), and the terminal event an account
of the rejections on their way to the outer catch (`Ending`, `Silent`).

*TurnLifecycle.* `TurnInv` is types and `OneAtATime`. Every helper a handler is
built from keeps a state *fine*: typed, and no row that is over is opened
again. Helpers compose, so handlers keep it as well; only `Prepare` opens a row,
and its guard is that no row of the session is open. The other theorems rest on what a
handler does to one turn, stated once as relations between the turn before
and after it, whatever writes fail (`Moved`, `Begins`); the properties are then about pairs of states of
one turn. `Sound` says which of the version in memory, in the row and on its timer is
the newest, so a late checkpoint is refused or equal (`StoredOnlyGrows`,
`NothingIsLost`). `Whole` and `Stands` say that a terminal row has its outcome and a
final message, and that before the source has settled only a cancel ends it: the step
maps to `Begin`, `End` or a stutter of `TurnPromise`. `Even` says that row and message
end at once, as memory tells (`AllAgree`, `CancelsStand`).

*CallAdmission.* `GateInv` adds where a ticket can be (`Placed`, `LateReleases`: a
ticket is out for a caller that runs or for one whose release is tried again). The
counters are cardinalities of sets of tickets, so granting and releasing add and
subtract. The scan is a function on the prefixes of the queue: after any prefix,
whoever was passed over did not fit then, and fits less as more are granted. The order
of the queue is a strict total order on what waits (`Line`), so of all that one scan grants
under a limit one was judged last, with the others counted: that is `LimitsHold`.

*OutboundQueue.* `QueueInv` adds that queued rows are distinct, that the message in a
drain's hands is the head of the queue (`HeldIsHead`), that a session in
`draining` has a drain with a message in its hands (`MarkIsSeen`), and that a queue of an idle session
has a drain, a retry or a stall on record (`SomebodyLooks`), which is what each of
the three exits of `drain` has to pass on.

*DeliveryHub.* `HubInv` is types, `Unsent` (what waits in the journal, in the backlog or
in a flush was not handed over or was refused) and `InFlight` (what is awaited has
its row in delivering, and is awaited once). The other two rest on `HandInv`. `Queues`
says that a result is in the backlog or with one flush, and there once; `Fit` what the
journal and the run may say of it while it is in hand, under way or neither; `NewestOf`
that in the journal, in order of insertion, only failures stand behind what
`supersedeState` has, which `DoneIs` settles once it is done. A step is about one
run or none, and all the others it may only settle and let go (`Aside`): that
such a step keeps `HandInv` is one lemma (`StepKeeps`). The code goes through its
backlog by filters, and what a filter keeps is proved position by position, by the
least position at which it would be wrong (`KeepPicks`).

*SessionExecution.* The conjuncts of `Inv`: `Leased` and `Agreed` (the claim, its row
and the place of its turn agree), `Left` (what a turn leaves when it is gone),
`Fresh` (a turn that has not started has left nothing), `Versioned` (receipts have
the versions up to that of the checkpoint, one for each), `Uncertain` (an uncertain
session waits for the turn that has the claim), `Written` (receipt and History tell one end) and `Missing` (an
end that is not in the transcript is in doubt, or two writes failed). It is stated over
arguments, so that the three transactions of a recovery are lemmas about databases
(each keeps `Inv` when no turn holds the session) and every action that recovers
cites them.

*Only model-checked.* Liveness (`OnlyOvertakingStarves`, `CancelEnds`, `FactsStored`,
`StoppedSettles`, `EveryWaiterAnswered`, `Drained`, `RunTold`) is out of the prover's
reach. Every safety property of a passing run has its theorem.

## 5. Findings and known disagreements

One is shown by a run: `round_stale`, in which an authorization that goes stale after
the start is recorded makes the loop record a second start and a second result, which
the History projection refuses (`turn.ts:2520`).

Others were met while modelling. The models have the behaviour, and no checked
property speaks against it.

*Tool calls*

* `settle` of one call drops the invocation's fence while a sibling stands between
  consuming its permit and being marked; the sibling is then claimed and entered after
  the cancel (SDK `executionAdmission.ts:111`), against
  `docs/develop/agent-sdk/agent-sdk-architecture-development-plan.md:467`.
  `LiveLeaseAuthorized` says that neither a revocation nor a policy change gets lost so.
* The authorization after a fresh approval is not followed by `discardPermit`, so a
  cancel leaves its permit in the store (`turn.ts:2473`), against
  `docs/develop/agent-sdk/turn-loop.md:186`. Nobody has the id of that permit, and
  nothing empties the store but the end of the process (only tests call
  `clearInvocation`).
* If the port cannot resolve the binding of a call, it is left before the `try` block
  whose `finally` settles the permit, which stays in the store, not consumed
  (`toolExecutionPort.ts:59`).
* Revoking one tool aborts the leases of all calls of the invocation
  (SDK `executionAdmission.ts:96`; all calls of a turn have one invocation,
  `turn.ts:2079`), while `packages/agent-sdk/test/executionAdmission.test.ts:82`
  is named "scopes a tool revocation to its invocation without cancelling
  sibling tool calls".
* A deferred call gets a second event, not dispatched, when the outer catch ends the turn
  for a sibling (`turn.ts:735` does not count the deferral as a result).
* If denials are not told to the model, a denied sibling before a deferred one speaks
  for the round, and the turn does not park (`turn.ts:2749`).
* A call that fails beside a deferred one ends the turn as failed and not parked
  (`turn.ts:2749`), though the todo exists.
* A deferral with an invalid checkpoint marks the call and leaves its approval
  open, so History refuses the terminal event (`turn.ts:2251`, `history.ts:431`),
  and the refusal is swallowed (`turn.ts:842`).
* A call whose authorization went stale in the hands of a sibling is denied and not
  tried again.
* Callers of single keys that take turns keep a caller of two waiting for ever (SDK
  `resourceLock.ts:50`), though
  `docs/develop/agent-sdk/lifecycle-capacity-scheduler.md:142` calls the waiters FIFO.
  With three callers TLC refutes that every waiter is served; `OnlyOvertakingStarves`
  says that nothing but being overtaken keeps one waiting.
* Two spellings of one path (a backslash, a trailing slash) are neither equal nor
  inside one another for `ResourceLocks` (SDK `resourceLock.ts:62`); the model's keys
  are the normalized paths.

*Turns*

* A parked turn stays active in memory (`turnCoordinator.ts:552`), so `listActive`
  has it, and the queue of its session waits; `turnCoordinator.test.ts:308` says that
  `listActive` returns only turns that are not over.
* A recovery that one session asks for ends the running turns of all others
  (`remoteCommandRouter.ts:339`); `turnCoordinator.test.ts:830` speaks of orphaned turns.
* A rejecting source has its last version flushed twice and the second flush
  counts as a failed checkpoint (`turnCoordinator.ts:280`).
* If writing the outcome fails while a cancelled turn is finished, a later
  completion is recorded for it (`turnCoordinator.ts:440`).
* A request prepared again replaces a running turn in memory by the stored
  checkpoint, and later facts meet a gap (`turnCoordinator.ts:99`).
* After a cancel whose writes both failed, a replayed request, a snapshot timer of before,
  an execution and a second replay can set the stored content and status back
  (`turnCoordinator.ts:99`); without replays or without failed writes nothing can.
* A row left unfinished with a final message is found by no recovery, and the
  session answers SESSION_TURN_BUSY (`operations.ts:1203`).
* A timed-out turn whose source rejects later is rewritten as failed
  (`turnCoordinator.ts:283`); only tests call `TurnRuntime.timeout`.

*The gate and the queue*

* The comment at `callAdmissionGate.ts:197` puts a waiter that still does not fit at the
  tail; the code leaves it at its place, as the comments at `:20` and `:239` say.
* `callAdmission.ts:5` promises that interactive calls go before background ones,
  "not first come first served"; the scan grants by arrival, and only the limit of
  the background keeps it back.
* Two drains of one session can run at once, although `outboundAcceptor.ts:677` states
  that there is at most one: a drain finds a turn and leaves, a message is queued and
  starts another, the exit of the first clears the mark of the second, and a retry
  starts a third. The claim of the row keeps them apart, which `KeepsQueue` checks.
* A message sent between the end of a turn and the drain starts at once and goes
  before those in the queue. `QueuePromise` orders only what had to wait.
* The limit of the queue is checked against a count taken before an await, and so may
  be passed.
* After a restart nothing drains the queue until a turn ends.

*Sessions*

* A crash while a turn waits, or a failed deletion of its row, leaves the row queued in
  front of all later turns, which time out behind it: only deleting the session
  removes it. `hostedTurnHandoff.test.ts:355` asks that a waiter that times out does not
  block the queue for ever. `LeaseStands` says that it takes a crash or a failure.
* A crash between the start and the first event, or an end written without its
  transcript, blocks the session until an operator's review, which is wired to
  nothing. `Recoverable` names these two cases.
* For a parked or failed turn the claim is kept only after it was marked
  (`hostedTurnHandoff.ts:475`, `502`, `575`): if commit and mark both fail, the claim
  is let go and the session runs on without that end. `NothingSkipped` says that it
  takes two failures.
* A turn that polls while its predecessor, already uncertain, is being disposed of is
  told that the session is blocked, although a moment later it would recover.
* A turn that fails is recorded with the terminal event of a restart though the process
  did not restart, when a recovery finds its stream open.
* A turn that meets a compaction of the session is rejected instead of waiting.

*Delivery*

* A failed write of the journal ends a flush: the items behind it are in no list, no
  timer is set for them and no run is told, until the next start (`deliveryHub.ts:338`).
* An acknowledgement both writes of which fail leaves the row in delivering; a later
  synchronisation turns a run that was told uncertain back to pending, until the
  next start.

## 6. Hazards without a property

Of the hazards in `PROJECT.json`, those with an empty list are either the
disagreements above or belong to components of the plan.

## 7. Plan

1. **`WakeEvents`**: leases that run out, acknowledgement by the owner only,
   refinement of at-least-once delivery; then the trigger cursors.
2. **`ApprovalAdmission`** and the MCP gate: counts equal to grants and reservations,
   the branch for a parent over its limit at `approval.ts:133` never taken
   (a theorem), no waiter beside free capacity. Calls that wait for one busy MCP
   server keep global places (`semaphore.ts:82`), so calls of idle ones wait behind
   them.
3. **`HistoryLog`**: versions, idempotent appends, the projection, and through it
   the continuation of deferred turns.
4. **More of the modelled parts**: the first protocol and the operator's review in
   `SessionExecution`, the routing of continuations in `OutboundQueue`, the second,
   file-level exclusion below `ResourceLocks`.
