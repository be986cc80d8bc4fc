------------------------ MODULE ResourceLocksProofs ------------------------
(***************************************************************************)
(* The locks are exclusive for any callers and keys. The argument is that  *)
(* the keys held are exactly the keys of the holders and that of any two   *)
(* waiters one is ahead of the other, so of two callers granted in one     *)
(* scan one was looked at after the other.                                 *)
(***************************************************************************)
EXTENDS ResourceLocks, TLAPS

Holding == {r \in Callers : status[r] = "holding"}

KeysOfAll(S) == UNION {KeysOf[r] : r \in S}

\* The waiters stand in one order.
InLine(W, before) == \A r, q \in W : r # q => r \in before[q] \/ q \in before[r]
Ordered == InLine(Waiting, ahead)

LockInv == TypeOK /\ Ordered /\ Exclusive /\ HeldByHolders /\ NoneStranded

\* A key that stands against another is stood against by it.
LEMMA ConflictSymmetric == \A a, b : Conflict(a, b) <=> Conflict(b, a)
  BY DEF Conflict

\* A key stands against itself, so callers that do not conflict share none.
LEMMA ConflictReflexive == \A a : Conflict(a, a)
  BY DEF Conflict

\* What a scan of the waiters W grants, H being held: the granted callers
\* exclude each other and what is held, and each that is left is stuck.
LEMMA ScanIsExclusive ==
  ASSUME NEW W \in SUBSET Callers, NEW G \in SUBSET W, NEW H,
         InLine(W, ahead'), Wakes(G, W, ahead', H)
  PROVE  /\ \A r \in G : CanAcquire(KeysOf[r], H)
         /\ \A r, q \in G : r # q => \A k \in KeysOf[r], l \in KeysOf[q] : ~Conflict(k, l)
         /\ \A r \in W \ G : ~CanAcquire(KeysOf[r], H \cup KeysOfAll(G))
<1>1. \A r \in G : CanAcquire(KeysOf[r], H \cup KeysOfAll(Earlier(G, ahead', r)))
  BY DEF Wakes, KeysOfAll
<1>2. \A r \in G : CanAcquire(KeysOf[r], H)
  BY <1>1 DEF CanAcquire
<1>3. ASSUME NEW r \in G, NEW q \in G, q \in ahead'[r],
             NEW k \in KeysOf[r], NEW l \in KeysOf[q]
      PROVE  ~Conflict(k, l)
  <2>1. q \in Earlier(G, ahead', r)
    BY <1>3 DEF Earlier
  <2>2. l \in KeysOfAll(Earlier(G, ahead', r))
    BY <2>1 DEF KeysOfAll
  <2> QED BY <1>1, <2>2 DEF CanAcquire
<1>4. ASSUME NEW r \in G, NEW q \in G, r # q,
             NEW k \in KeysOf[r], NEW l \in KeysOf[q]
      PROVE  ~Conflict(k, l)
  <2>1. q \in ahead'[r] \/ r \in ahead'[q]
    BY <1>4 DEF InLine
  <2> QED BY <1>3, <2>1, ConflictSymmetric
<1>5. ASSUME NEW r \in W \ G
      PROVE  ~CanAcquire(KeysOf[r], H \cup KeysOfAll(G))
  <2>1. ~CanAcquire(KeysOf[r], H \cup KeysOfAll(Earlier(G, ahead', r)))
    BY DEF Wakes, KeysOfAll
  <2>2. KeysOfAll(Earlier(G, ahead', r)) \subseteq KeysOfAll(G)
    BY DEF KeysOfAll, Earlier
  <2> QED BY <2>1, <2>2 DEF CanAcquire
<1> QED BY <1>2, <1>4, <1>5

\* Two sets of callers hold together: the old holders P and the granted G.
LEMMA GrantIsExclusive ==
  ASSUME NEW P \in SUBSET Callers, NEW G \in SUBSET Callers,
         \A r, q \in P : r # q => \A k \in KeysOf[r], l \in KeysOf[q] : ~Conflict(k, l),
         \A r, q \in G : r # q => \A k \in KeysOf[r], l \in KeysOf[q] : ~Conflict(k, l),
         \A r \in G : CanAcquire(KeysOf[r], KeysOfAll(P))
  PROVE  \A r, q \in P \cup G : r # q =>
           \A k \in KeysOf[r], l \in KeysOf[q] : ~Conflict(k, l)
<1>1. ASSUME NEW r \in G, NEW q \in P, NEW k \in KeysOf[r], NEW l \in KeysOf[q]
      PROVE  ~Conflict(k, l) /\ ~Conflict(l, k)
  <2>1. l \in KeysOfAll(P)
    BY DEF KeysOfAll
  <2> QED BY <2>1, ConflictSymmetric DEF CanAcquire
<1> QED BY <1>1

\* The keys of P and of G together.
LEMMA KeysOfBoth ==
  ASSUME NEW P, NEW G
  PROVE  KeysOfAll(P \cup G) = KeysOfAll(P) \cup KeysOfAll(G)
  BY DEF KeysOfAll

\* A step that scans the waiters W with the callers P still holding.
LEMMA ScanStep ==
  ASSUME LockInv, NEW P \in SUBSET Holding, NEW W \in SUBSET Callers, NEW G \in SUBSET W,
         W \cap P = {}, ahead' \in [Callers -> SUBSET Callers], InLine(W, ahead'),
         Wakes(G, W, ahead', KeysOfAll(P)), Grant(G, KeysOfAll(P)),
         status' \in [Callers -> {"idle", "waiting", "holding", "rejected"}],
         Waiting' = W \ G, Holding' = P \cup G
  PROVE  LockInv'
<1> USE DEF LockInv
<1>1. held' = KeysOfAll(P \cup G)
  BY KeysOfBoth DEF Grant, KeysOfAll
<1>2. HeldByHolders'
  BY <1>1 DEF HeldByHolders, Holding, KeysOfAll
<1>3. \A r, q \in P : r # q => \A k \in KeysOf[r], l \in KeysOf[q] : ~Conflict(k, l)
  BY DEF Exclusive, Holding
<1>4. /\ \A r \in G : CanAcquire(KeysOf[r], KeysOfAll(P))
      /\ \A r, q \in G : r # q => \A k \in KeysOf[r], l \in KeysOf[q] : ~Conflict(k, l)
      /\ \A r \in W \ G : ~CanAcquire(KeysOf[r], KeysOfAll(P) \cup KeysOfAll(G))
  <2>1. W \in SUBSET Callers /\ G \in SUBSET W
    OBVIOUS
  <2>2. InLine(W, ahead')
    OBVIOUS
  <2>3. Wakes(G, W, ahead', KeysOfAll(P))
    OBVIOUS
  <2> QED BY <2>1, <2>2, <2>3, ScanIsExclusive
<1>5. Exclusive'
  <2>1. \A r, q \in P \cup G : r # q => \A k \in KeysOf[r], l \in KeysOf[q] : ~Conflict(k, l)
    BY <1>3, <1>4, GrantIsExclusive DEF Holding
  <2> QED BY <2>1 DEF Exclusive, Holding
<1>6. NoneStranded'
  BY <1>1, <1>4, KeysOfBoth DEF NoneStranded
<1>7. Ordered'
  BY DEF Ordered, InLine
<1>8. held' \subseteq Keys
  BY <1>1 DEF Keys, KeysOfAll, Holding
<1> QED BY <1>2, <1>5, <1>6, <1>7, <1>8 DEF TypeOK

\* The invariant holds at the start.
LEMMA InitLocks == Init => LockInv
  BY DEF Init, LockInv, TypeOK, Ordered, InLine, Exclusive, HeldByHolders, NoneStranded, Waiting

\* Every step keeps it.
LEMMA LockStep == LockInv /\ [Next]_vars => LockInv'
<1> SUFFICES ASSUME LockInv, [Next]_vars
             PROVE  LockInv'
  OBVIOUS
<1> USE DEF LockInv
<1>0. held = KeysOfAll(Holding)
  BY DEF HeldByHolders, KeysOfAll, Holding
<1>1. ASSUME NEW r \in Callers, AcquireAborted(r)
      PROVE  LockInv'
  <2>1. Waiting' = Waiting /\ Holding' = Holding
    BY <1>1 DEF AcquireAborted, Asks, TypeOK, Waiting, Holding
  <2> QED
    BY <1>1, <2>1 DEF AcquireAborted, Asks, TypeOK, Ordered, InLine, Exclusive, HeldByHolders,
                      NoneStranded, Holding
<1>2. ASSUME NEW r \in Callers, AcquireNow(r)
      PROVE  LockInv'
  <2>1. Waiting' = {} /\ Holding' = Holding \cup {r}
    BY <1>2 DEF AcquireNow, Asks, TypeOK, Waiting, Holding
  <2>2. \A p, q \in Holding : p # q => \A k \in KeysOf[p], l \in KeysOf[q] : ~Conflict(k, l)
    BY DEF Exclusive, Holding
  <2>3. CanAcquire(KeysOf[r], KeysOfAll(Holding))
    BY <1>0, <1>2 DEF AcquireNow
  <2>4. Exclusive'
    <3>1. \A p, q \in Holding \cup {r} : p # q =>
            \A k \in KeysOf[p], l \in KeysOf[q] : ~Conflict(k, l)
      <4>1. {r} \in SUBSET Callers /\ Holding \in SUBSET Callers
        BY DEF Holding
      <4>2. \A p, q \in {r} : p # q => \A k \in KeysOf[p], l \in KeysOf[q] : ~Conflict(k, l)
        OBVIOUS
      <4>3. \A q \in {r} : CanAcquire(KeysOf[q], KeysOfAll(Holding))
        BY <2>3
      <4> QED BY <2>2, <4>1, <4>2, <4>3, GrantIsExclusive
    <3> QED BY <2>1, <3>1 DEF Exclusive, Holding
  <2>5. held' = KeysOfAll(Holding')
    BY <1>0, <1>2, <2>1, KeysOfBoth DEF AcquireNow, Grant, KeysOfAll
  <2>6. HeldByHolders'
    BY <2>5 DEF HeldByHolders, KeysOfAll, Holding
  <2>7. held' \subseteq Keys
    BY <2>5, <2>1 DEF KeysOfAll, Keys, Holding
  <2> QED
    BY <1>2, <2>1, <2>4, <2>6, <2>7 DEF AcquireNow, TypeOK, Ordered, InLine, NoneStranded
<1>3. ASSUME NEW r \in Callers, AcquireWaits(r)
      PROVE  LockInv'
  <2>1. PICK G \in SUBSET (Waiting \cup {r}) :
          /\ Wakes(G, Waiting \cup {r}, ahead', held)
          /\ Grant(G, held)
          /\ status' = [q \in Callers |-> IF q \in G THEN "holding"
                                           ELSE IF q = r THEN "waiting" ELSE status[q]]
    BY <1>3 DEF AcquireWaits
  <2>2. Waiting' = (Waiting \cup {r}) \ G /\ Holding' = Holding \cup G
    BY <1>3, <2>1 DEF AcquireWaits, Asks, Waiting, Holding
  <2>3. status' \in [Callers -> {"idle", "waiting", "holding", "rejected"}]
    BY <2>1 DEF TypeOK
  <2>4. ahead' \in [Callers -> SUBSET Callers]
    BY <1>3 DEF AcquireWaits, Push, TypeOK, Waiting
  <2>5. InLine(Waiting \cup {r}, ahead')
    BY <1>3 DEF AcquireWaits, Push, Asks, Ordered, InLine, Waiting
  <2>6. (Waiting \cup {r}) \cap Holding = {} /\ Waiting \cup {r} \subseteq Callers
    BY <1>3 DEF AcquireWaits, Asks, Waiting, Holding
  <2> QED BY <1>0, <2>1, <2>2, <2>3, <2>4, <2>5, <2>6, ScanStep
<1>4. ASSUME NEW r \in Callers, Release(r)
      PROVE  LockInv'
  <2> DEFINE P == Holding \ {r}
  <2>1. PICK G \in SUBSET Waiting :
          /\ Wakes(G, Waiting, ahead, held \ KeysOf[r])
          /\ Grant(G, held \ KeysOf[r])
          /\ status' = [q \in Callers |-> IF q = r THEN "idle"
                                           ELSE IF q \in G THEN "holding" ELSE status[q]]
    BY <1>4 DEF Release
  <2>2. \A q \in P : \A l \in KeysOf[q] : l \notin KeysOf[r]
    BY <1>4, ConflictReflexive DEF Release, Exclusive, Holding
  <2>3. held \ KeysOf[r] = KeysOfAll(P)
    <3>1. Holding = P \cup {r}
      BY <1>4 DEF Release, Holding
    <3>2. held = KeysOfAll(P) \cup KeysOf[r]
      BY <1>0, <3>1, KeysOfBoth DEF KeysOfAll
    <3> QED BY <2>2, <3>2 DEF KeysOfAll
  <2>4. Waiting' = Waiting \ G /\ Holding' = P \cup G
    BY <1>4, <2>1 DEF Release, Waiting, Holding
  <2>5. status' \in [Callers -> {"idle", "waiting", "holding", "rejected"}]
    BY <2>1 DEF TypeOK
  <2>6. ahead' = ahead
    BY <1>4 DEF Release
  <2>7. Waiting \cap P = {} /\ Waiting \subseteq Callers /\ P \subseteq Holding
    BY DEF Waiting, Holding
  <2> HIDE DEF P
  <2>8. InLine(Waiting, ahead')
    BY <2>6 DEF Ordered
  <2>9. ahead' \in [Callers -> SUBSET Callers]
    BY <2>6 DEF TypeOK
  <2>10. Wakes(G, Waiting, ahead', KeysOfAll(P)) /\ Grant(G, KeysOfAll(P))
    BY <2>1, <2>3, <2>6
  <2> QED BY <2>4, <2>5, <2>7, <2>8, <2>9, <2>10, ScanStep
<1>5. ASSUME NEW r \in Callers, Abort(r)
      PROVE  LockInv'
  <2>1. Waiting' = Waiting \ {r} /\ Holding' = Holding
    BY <1>5 DEF Abort, TypeOK, Waiting, Holding
  <2> QED
    BY <1>5, <2>1 DEF Abort, TypeOK, Ordered, InLine, Exclusive, HeldByHolders,
                      NoneStranded, Holding
<1>6. CASE UNCHANGED vars
  BY <1>6 DEF vars, TypeOK, Ordered, InLine, Exclusive, HeldByHolders, NoneStranded, Waiting
<1> QED BY <1>1, <1>2, <1>3, <1>4, <1>5, <1>6 DEF Next

\* Holders, waiters, order and keys agree in every state of the program
\* (LockInv).
THEOREM LocksHold == Spec => []LockInv
  BY InitLocks, LockStep, PTL DEF Spec

\* No two holders have keys that stand against each other.
THEOREM MutualExclusion == Spec => []Exclusive
<1>1. LockInv => Exclusive
  BY DEF LockInv
<1> QED BY <1>1, LocksHold, PTL

\* The registry holds the keys of the holders, no more and no fewer.
THEOREM NothingLeftHeld == Spec => []HeldByHolders
<1>1. LockInv => HeldByHolders
  BY DEF LockInv
<1> QED BY <1>1, LocksHold, PTL

\* Each waiter has a holder whose release will look at it.
THEOREM WaitersAreBlocked == Spec => []NoneStranded
<1>1. LockInv => NoneStranded
  BY DEF LockInv
<1> QED BY <1>1, LocksHold, PTL
=============================================================================
