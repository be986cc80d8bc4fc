--------------------------- MODULE ResourceLocks ---------------------------
(***************************************************************************)
(* ResourceLockRegistry (packages/agent-sdk/src/resourceLock.ts): every    *)
(* tool call takes all its resource keys at once or waits for them. Keys   *)
(* conflict when they are equal, when one of them is an unknown side       *)
(* effect, or when one workspace path contains the other. The waiters are  *)
(* scanned in the order they came, and any that fits is granted, so a call *)
(* may overtake one that still waits for another key.                      *)
(*                                                                         *)
(* A caller asks for its keys again and again, one acquire at a time. The  *)
(* array of waiters is the set of callers that wait, and for each of them  *)
(* those that were in the array when it was pushed.                        *)
(***************************************************************************)
EXTENDS Integers, Sequences

CONSTANTS
  Callers,    \* who calls acquire
  KeysOf,     \* the keys each asks for
  Kind,       \* the kind of a key: "workspace", "unknown" or "other"
  Path        \* the path segments of a workspace key

Keys == UNION {KeysOf[r] : r \in Callers}

ASSUME KeysAssumption ==
  /\ \A k \in Keys : Kind[k] \in {"workspace", "unknown", "other"}
  /\ \A k \in Keys : Path[k] \in Seq(STRING)

VARIABLES
  held,       \* ResourceLockRegistry.held
  status,     \* what became of the last acquire of each caller
  ahead       \* its place in the waiters array: the callers before it

vars == <<held, status, ahead>>

TypeOK ==
  /\ held \subseteq Keys
  /\ status \in [Callers -> {"idle", "waiting", "holding", "rejected"}]
  /\ ahead \in [Callers -> SUBSET Callers]

Init ==
  /\ held = {}
  /\ status = [r \in Callers |-> "idle"]
  /\ ahead = [r \in Callers |-> {}]
-----------------------------------------------------------------------------
\* The left path contains the right one: startsWith(`${left}/`), which the root
\* itself never does, as its prefix would be "//".
Contains(p, q) == 0 < Len(p) /\ Len(p) < Len(q) /\ \A i \in 1..Len(p) : p[i] = q[i]

\* Mutated form of Conflict: only the requested path may contain the held one.
OneWayConflict(a, b) ==
  \/ a = b
  \/ Kind[a] = "unknown" \/ Kind[b] = "unknown"
  \/ Kind[a] = "workspace" /\ Kind[b] = "workspace" /\ Contains(Path[a], Path[b])

Conflict(a, b) ==
  \/ a = b
  \/ Kind[a] = "unknown" \/ Kind[b] = "unknown"
  \/ /\ Kind[a] = "workspace" /\ Kind[b] = "workspace"
     /\ Contains(Path[a], Path[b]) \/ Contains(Path[b], Path[a])

CanAcquire(K, H) == \A k \in K, h \in H : ~Conflict(k, h)

Waiting == {r \in Callers : status[r] = "waiting"}

\* The callers a scan has granted before it comes to r.
Earlier(G, before, r) == G \cap before[r]

\* Mutated forms of Wakes: keys granted in the same scan are not looked at;
\* only the first waiter is looked at; the scan stops at a waiter that is stuck.
WakesBlindly(G, W, before, H) ==
  \A r \in W : r \in G <=> CanAcquire(KeysOf[r], H)
WakesInOrder(G, W, before, H) ==
  \A r \in W :
    r \in G <=> /\ CanAcquire(KeysOf[r], H \cup UNION {KeysOf[q] : q \in Earlier(G, before, r)})
                /\ W \cap before[r] \subseteq G

\* wake, which scans the waiters W once, H held: G is the set it grants. A
\* waiter is granted if nothing held, or granted before it, stands against it.
Wakes(G, W, before, H) ==
  \A r \in W :
    r \in G <=> CanAcquire(KeysOf[r], H \cup UNION {KeysOf[q] : q \in Earlier(G, before, r)})

\* The array when r is pushed. Those that have left it are forgotten.
Push(r) == ahead' = [q \in Callers |-> IF q = r THEN Waiting ELSE ahead[q] \cap Waiting]

Grant(G, H) == held' = H \cup UNION {KeysOf[r] : r \in G}

\* The caller asks: it neither waits nor holds.
Asks(r) == status[r] \in {"idle", "rejected"}

\* acquire with a signal that is already aborted.
AcquireAborted(r) ==
  /\ Asks(r)
  /\ status' = [status EXCEPT ![r] = "rejected"]
  /\ UNCHANGED <<held, ahead>>

\* acquire when nobody waits and the keys are free.
AcquireNow(r) ==
  /\ Asks(r)
  /\ Waiting = {} /\ CanAcquire(KeysOf[r], held)
  /\ Grant({r}, held)
  /\ status' = [status EXCEPT ![r] = "holding"]
  /\ UNCHANGED ahead

\* acquire otherwise: the caller is pushed, and the waiters are scanned.
AcquireWaits(r) ==
  /\ Asks(r)
  /\ Waiting # {} \/ ~CanAcquire(KeysOf[r], held)
  /\ Push(r)
  /\ \E G \in SUBSET (Waiting \cup {r}) :
       /\ Wakes(G, Waiting \cup {r}, ahead', held)
       /\ Grant(G, held)
       /\ status' = [q \in Callers |-> IF q \in G THEN "holding"
                                        ELSE IF q = r THEN "waiting" ELSE status[q]]

\* Mutated form of Release: the waiters are not scanned.
ReleaseSilently(r) ==
  /\ status[r] = "holding"
  /\ held' = held \ KeysOf[r]
  /\ status' = [status EXCEPT ![r] = "idle"]
  /\ UNCHANGED ahead

\* release; a second call of the same lease does nothing.
Release(r) ==
  /\ status[r] = "holding"
  /\ \E G \in SUBSET Waiting :
       /\ Wakes(G, Waiting, ahead, held \ KeysOf[r])
       /\ Grant(G, held \ KeysOf[r])
       /\ status' = [q \in Callers |-> IF q = r THEN "idle"
                                        ELSE IF q \in G THEN "holding" ELSE status[q]]
  /\ UNCHANGED ahead

\* The signal of a waiting caller aborts: it leaves the array.
Abort(r) ==
  /\ status[r] = "waiting"
  /\ status' = [status EXCEPT ![r] = "rejected"]
  /\ UNCHANGED <<held, ahead>>

Next ==
  \E r \in Callers :
    AcquireAborted(r) \/ AcquireNow(r) \/ AcquireWaits(r) \/ Release(r) \/ Abort(r)

Spec == Init /\ [][Next]_vars

\* Every lease is released: turn.ts releases it in a finally block, or when
\* the executor settles.
FairSpec == Spec /\ \A r \in Callers : WF_vars(Release(r))
-----------------------------------------------------------------------------
(* Properties.                                                             *)

\* No two holders have keys that conflict, however the scans overlap.
Exclusive ==
  \A r, q \in Callers :
    r # q /\ status[r] = "holding" /\ status[q] = "holding" =>
      \A k \in KeysOf[r], l \in KeysOf[q] : ~Conflict(k, l)

\* held is not a count of owners: releasing one lease must not free the key of
\* another, and nothing stays behind when all are released.
HeldByHolders == held = UNION {KeysOf[r] : r \in {q \in Callers : status[q] = "holding"}}

\* No waiter is forgotten: one that waits has a holder standing against it, so
\* the release of that holder will look at it again.
NoneStranded == \A r \in Waiting : ~CanAcquire(KeysOf[r], held)

\* A caller that waits on while another is granted keys that stand against its own.
Overtaken(r) ==
  /\ status[r] = "waiting" /\ status'[r] = "waiting"
  /\ \E q \in Callers : /\ status[q] # "holding" /\ status'[q] = "holding"
                         /\ ~CanAcquire(KeysOf[r], KeysOf[q])

\* As every lease is released, a waiter is granted or gives up, unless it is
\* overtaken again and again: no wakeup is lost for good, whoever comes and goes.
OnlyOvertakingStarves ==
  \A r \in Callers : []<>(status[r] # "waiting") \/ []<><<Overtaken(r)>>_vars
=============================================================================
