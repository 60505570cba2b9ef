--------------------------- MODULE HarnessStoreProofs ---------------------------
(***************************************************************************)
(* Proofs about HarnessStore, for any units, turn ids and bounds, and any  *)
(* number of deaths and failed writes; and about HarnessRecovery, after    *)
(* one fault of any kind or any number of those a replay copes with.       *)
(* The snapshot an operation works on is the one on disk  *)
(* because the lock is held from its load to its save; so what Save puts   *)
(* on disk is one operation away from what was there.  Each receipt is     *)
(* newer than those before it, so a replay ends with the operation that    *)
(* was recorded last, and makes of the ledger what that operation did.     *)
(***************************************************************************)
EXTENDS HarnessRecovery, FiniteSetTheorems, WellFoundedInduction, TLAPS

StoreInv == StoreTypeOK /\ CopyIsCurrent /\ CopyIsOneStepAhead

(* An operation that records ledger l, one step away from the one loaded,  *)
(* leaves a copy that is one step ahead of the disk.                       *)
LEMMA RecordKeepsInv ==
    ASSUME StoreInv, Loaded, NEW l \in Ledgers,
           l = store.ledger \/ Turns!TurnStep(store.ledger, l),
           NEW kind, NEW u, NEW arg, NEW width \in Nat,
           Record(l, kind, u, arg, width)
    PROVE  StoreInv'
<1>1. /\ work' = [step |-> "recorded", snap |-> [ledger |-> l, seq |-> work.snap.seq + width]]
      /\ clock' = clock + 1
      /\ UNCHANGED <<store, lock, faults>>
  BY DEF Record
<1>2. StoreTypeOK /\ work.step = "loaded"
  BY DEF StoreInv, Loaded
<1>3. work.snap.seq + width \in Nat
  BY <1>2 DEF StoreTypeOK, Snapshots
<1>4. work'.snap \in Snapshots
  BY <1>1, <1>3 DEF Snapshots
<1>5. StoreTypeOK'
  BY <1>1, <1>2, <1>4 DEF StoreTypeOK
<1>6. work'.step = "recorded" /\ work'.snap.ledger = l /\ store' = store
  BY <1>1
<1>7. CopyIsCurrent'
  BY <1>6 DEF CopyIsCurrent
<1>8. CopyIsOneStepAhead'
  BY <1>6 DEF CopyIsOneStepAhead
<1>. QED BY <1>5, <1>7, <1>8 DEF StoreInv

LEMMA LoadedLedger ==
    ASSUME StoreInv, Loaded
    PROVE  work.snap.ledger = store.ledger /\ store.ledger \in Ledgers
BY DEF StoreInv, Loaded, CopyIsCurrent, StoreTypeOK, Snapshots

LEMMA CallKeepsInv ==
    ASSUME StoreInv, NEW u \in Units, NEW parent \in Units \cup {NoUnit},
           CallUnit(u, parent)
    PROVE  StoreInv'
<1>. DEFINE born == [state |-> "born", active |-> NoTurn, parent |-> parent,
                     started |-> 0, completed |-> 0]
            l == [store.ledger EXCEPT ![u] = born]
<1>1. Loaded /\ work.snap.ledger = store.ledger /\ store.ledger \in Ledgers
  BY LoadedLedger DEF CallUnit
<1>2. Record(l, "called", u, parent, 1)
  BY <1>1 DEF CallUnit
<1>3. l \in Ledgers
  BY <1>1 DEF Ledgers, Turns!LifecycleStates
<1>4. Turns!Call(store.ledger, l, u, parent)
  BY <1>1 DEF CallUnit, Unit, Accepts, Turns!Call, Turns!Alive, Turns!Newborn
<1>5. Turns!TurnStep(store.ledger, l)
  BY <1>4 DEF Turns!TurnStep
<1>. QED BY <1>1, <1>2, <1>3, <1>5, RecordKeepsInv

LEMMA StartKeepsInv ==
    ASSUME StoreInv, NEW u \in Units, NEW turn \in TurnIds, StartTurn(u, turn)
    PROVE  StoreInv'
<1>. DEFINE l == [store.ledger EXCEPT ![u].state = "running",
                                      ![u].active = turn, ![u].started = @ + 1]
<1>1. Loaded /\ work.snap.ledger = store.ledger /\ store.ledger \in Ledgers
  BY LoadedLedger DEF StartTurn
<1>2. Record(l, "turn-started", u, turn, 1)
  BY <1>1 DEF StartTurn
<1>3. l \in Ledgers
  BY <1>1 DEF Ledgers, Turns!LifecycleStates
<1>4. Turns!StartTurn(store.ledger, l, u, turn)
  BY <1>1 DEF StartTurn, Unit, Accepts, Turns!StartTurn, Turns!Alive
<1>5. Turns!TurnStep(store.ledger, l)
  BY <1>4 DEF Turns!TurnStep
<1>. QED BY <1>1, <1>2, <1>3, <1>5, RecordKeepsInv

LEMMA CompleteKeepsInv ==
    ASSUME StoreInv, NEW u \in Units, NEW turn \in TurnIds,
           NEW next \in Turns!RestStates, CompleteTurn(u, turn, next)
    PROVE  StoreInv'
<1>. DEFINE l == [store.ledger EXCEPT ![u].state = next,
                                      ![u].active = NoTurn, ![u].completed = @ + 1]
<1>1. Loaded /\ work.snap.ledger = store.ledger /\ store.ledger \in Ledgers
  BY LoadedLedger DEF CompleteTurn
<1>2. Record(l, "turn-completed", u, <<turn, next>>, 1)
  BY <1>1 DEF CompleteTurn
<1>3. l \in Ledgers
  BY <1>1 DEF Ledgers, Turns!LifecycleStates
<1>4. Turns!CompleteTurn(store.ledger, l, u, turn, next)
  BY <1>1 DEF CompleteTurn, Unit, Accepts, Turns!CompleteTurn, Turns!Alive
<1>5. Turns!TurnStep(store.ledger, l)
  BY <1>4 DEF Turns!TurnStep
<1>. QED BY <1>1, <1>2, <1>3, <1>5, RecordKeepsInv

LEMMA RetireKeepsInv ==
    ASSUME StoreInv, NEW u \in Units, Retire(u)
    PROVE  StoreInv'
<1>. DEFINE l == [store.ledger EXCEPT ![u].state = "retired", ![u].active = NoTurn]
<1>1. Loaded /\ work.snap.ledger = store.ledger /\ store.ledger \in Ledgers
  BY LoadedLedger DEF Retire
<1>2. Record(l, "retired", u, NoTurn, 1)
  BY <1>1 DEF Retire
<1>3. l \in Ledgers
  BY <1>1 DEF Ledgers, Turns!LifecycleStates
<1>4. Turns!Retire(store.ledger, l, u)
  BY <1>1 DEF Retire, Unit, Accepts, Turns!Retire, Turns!Alive
<1>5. Turns!TurnStep(store.ledger, l)
  BY <1>4 DEF Turns!TurnStep
<1>. QED BY <1>1, <1>2, <1>3, <1>5, RecordKeepsInv

LEMMA EventKeepsInv ==
    ASSUME StoreInv, NEW u \in Units, RecordAdapterEvent(u)
    PROVE  StoreInv'
<1>1. Loaded /\ work.snap.ledger = store.ledger /\ store.ledger \in Ledgers
  BY LoadedLedger DEF RecordAdapterEvent
<1>2. Record(store.ledger, "proof-observed", u, NoTurn, 2)
  BY <1>1 DEF RecordAdapterEvent
<1>. QED BY <1>1, <1>2, RecordKeepsInv

LEMMA EmptyIsSnapshot == EmptyStore \in Snapshots
BY DEF EmptyStore, Snapshots, Ledgers, Turns!NotCalled, Turns!LifecycleStates

LEMMA InitialInv == StoreInit => StoreInv
BY EmptyIsSnapshot DEF StoreInit, StoreInv, StoreTypeOK, CopyIsCurrent, CopyIsOneStepAhead, Idle

(* The other steps: the copy is thrown away, loaded or becomes the disk's. *)
LEMMA AcquireKeepsInv == StoreInv /\ Acquire(store) => StoreInv'
BY DEF StoreInv, Acquire, StoreTypeOK, CopyIsCurrent, CopyIsOneStepAhead

LEMMA SaveKeepsInv == StoreInv /\ Save => StoreInv'
BY EmptyIsSnapshot DEF StoreInv, Save, StoreTypeOK, CopyIsCurrent, CopyIsOneStepAhead, Idle

LEMMA DropKeepsInv ==
    ASSUME StoreInv,
           \/ Refuse
           \/ \E left \in {"free", "abandoned"} : Fail(left)
           \/ ClearAbandonedLock
    PROVE  StoreInv'
<1>1. CASE Refuse
  BY <1>1, EmptyIsSnapshot
  DEF StoreInv, Refuse, StoreTypeOK, CopyIsCurrent, CopyIsOneStepAhead, Idle
<1>2. CASE \E left \in {"free", "abandoned"} : Fail(left)
  BY <1>2, EmptyIsSnapshot
  DEF StoreInv, Fail, StoreTypeOK, CopyIsCurrent, CopyIsOneStepAhead, Idle
<1>3. CASE ClearAbandonedLock
  BY <1>3 DEF StoreInv, ClearAbandonedLock, StoreTypeOK, CopyIsCurrent, CopyIsOneStepAhead
<1>. QED BY <1>1, <1>2, <1>3

LEMMA NextKeepsInv == StoreInv /\ [StoreNext]_storeVars => StoreInv'
<1>. SUFFICES ASSUME StoreInv, [StoreNext]_storeVars PROVE StoreInv'
  OBVIOUS
<1>1. CASE Acquire(store)
  BY <1>1, AcquireKeepsInv
<1>2. CASE Operate
  <2>1. ASSUME NEW u \in Units, NEW parent \in Units \cup {NoUnit}, CallUnit(u, parent)
        PROVE StoreInv'
    BY <2>1, CallKeepsInv
  <2>2. ASSUME NEW u \in Units, NEW turn \in TurnIds, StartTurn(u, turn)
        PROVE StoreInv'
    BY <2>2, StartKeepsInv
  <2>3. ASSUME NEW u \in Units, NEW turn \in TurnIds, NEW next \in Turns!RestStates,
               CompleteTurn(u, turn, next)
        PROVE StoreInv'
    BY <2>3, CompleteKeepsInv
  <2>4. ASSUME NEW u \in Units, Retire(u) PROVE StoreInv'
    BY <2>4, RetireKeepsInv
  <2>5. ASSUME NEW u \in Units, RecordAdapterEvent(u) PROVE StoreInv'
    BY <2>5, EventKeepsInv
  <2>. QED BY <1>2, <2>1, <2>2, <2>3, <2>4, <2>5, DropKeepsInv DEF Operate
<1>3. CASE Save
  BY <1>3, SaveKeepsInv
<1>4. CASE UNCHANGED storeVars
  BY <1>4 DEF storeVars, StoreInv, StoreTypeOK, CopyIsCurrent, CopyIsOneStepAhead
<1>. QED BY <1>1, <1>2, <1>3, <1>4 DEF StoreNext

(* The inductive invariant, for any deaths and failed writes.              *)
THEOREM StoreInvariant == StoreSpec => []StoreInv
<1>. QED BY InitialInv, NextKeepsInv, PTL DEF StoreSpec

(* The snapshot and the holder's copy have their types, and a copy exists  *)
(* exactly while the lock file is somebody's.                              *)
THEOREM StoreTypeInvariant == StoreSpec => []StoreTypeOK
<1>1. StoreInv => StoreTypeOK
  BY DEF StoreInv
<1>. QED BY <1>1, StoreInvariant, PTL

LEMMA OnlySaveChangesTheStore ==
    ASSUME StoreInv, StoreNext
    PROVE  store' = store \/ Save
<1>1. ASSUME NEW l, NEW k, NEW u, NEW a, NEW w, Record(l, k, u, a, w)
      PROVE store' = store
  BY <1>1 DEF Record
<1>2. CASE Operate
  BY <1>1, <1>2 DEF Operate, CallUnit, StartTurn, CompleteTurn, Retire,
     RecordAdapterEvent, Refuse, Fail, ClearAbandonedLock
<1>3. CASE Acquire(store)
  BY <1>3 DEF Acquire
<1>. QED BY <1>2, <1>3 DEF StoreNext

(* Each step of the store, deaths and failed writes included, is one       *)
(* operation of the turn ledger or leaves it alone.                        *)
THEOREM StoreImplementsTurns == StoreSpec => ImplementsTurns
<1>1. StoreInit => Turns!TurnsInit
  BY DEF StoreInit, EmptyStore, Turns!TurnsInit
<1>2. StoreInv /\ [StoreNext]_storeVars => [Turns!TurnsNext]_(store.ledger)
  <2>. SUFFICES ASSUME StoreInv, [StoreNext]_storeVars, store.ledger' # store.ledger
                PROVE Turns!TurnsNext
    OBVIOUS
  <2>1. Save
    BY OnlySaveChangesTheStore DEF storeVars
  <2>2. Turns!TurnStep(store.ledger, store'.ledger)
    BY <2>1 DEF Save, StoreInv, CopyIsOneStepAhead
  <2>. QED BY <2>2 DEF Turns!TurnsNext
<1>. QED
  BY <1>1, <1>2, StoreInvariant, PTL DEF StoreSpec, ImplementsTurns, Turns!TurnsSpec

-----------------------------------------------------------------------------
(* What a replay of the receipts makes of the ledger.                      *)
(*                                                                         *)
(* Induction is used as a fact about sets: what holds at first and after   *)
(* each step holds throughout.                                             *)
LEMMA LeastNatural ==
  ASSUME NEW T \in SUBSET Nat, T # {}
  PROVE  \E x \in T : \A y \in T : x <= y
<1> DEFINE R == OpToRel(<, Nat)
<1>1. IsWellFoundedOn(R, Nat)
  BY NatLessThanWellFounded
<1>2. \E x \in T : \A y \in T : ~(<<y, x>> \in R)
  <2> HIDE DEF R
  <2> QED BY <1>1, WFMin
<1>3. \A x, y \in Nat : <<y, x>> \notin R => x <= y
  BY DEF OpToRel
<1> HIDE DEF R
<1> QED BY <1>2, <1>3

LEMMA Induction ==
  ASSUME NEW n \in Nat, NEW S, 0 \in S, \A k \in 0..n : k < n /\ k \in S => k + 1 \in S
  PROVE  0..n \subseteq S
<1> DEFINE T == (0..n) \ S
<1> SUFFICES ASSUME T # {} PROVE FALSE
  OBVIOUS
<1>1. PICK x \in T : \A y \in T : x <= y
  <2>1. T \in SUBSET Nat
    OBVIOUS
  <2> HIDE DEF T
  <2> QED BY <2>1, LeastNatural
<1>2. x # 0 /\ x - 1 \in 0..n /\ x - 1 < n /\ x - 1 \in S
  BY <1>1
<1> QED BY <1>1, <1>2

(* Receipts of different times, up to n.                                   *)
Orderly(R, n) ==
    /\ \A r \in R : r.at \in 1..n /\ r.seq \in Nat
    /\ \A r, s \in R : r.at = s.at => r = s
Upto(R, m) == {r \in R : r.at <= m}

LEMMA NewestIsLast ==
  ASSUME NEW n \in Nat, NEW R, Orderly(R, n), NEW S \in SUBSET R, S # {}
  PROVE  /\ Newest(S) \in S
         /\ \A s \in S \ {Newest(S)} : s.at < Newest(S).at
<1> DEFINE T == {n - r.at : r \in S}
<1>1. \A r \in S : r.at \in 1..n /\ r.seq \in Nat
  BY DEF Orderly
<1>2. PICK r \in S : \A s \in S : s.at <= r.at
  <2>1. T \in SUBSET Nat /\ T # {}
    BY <1>1
  <2>2. PICK x \in T : \A y \in T : x <= y
    <3> HIDE DEF T
    <3> QED BY <2>1, LeastNatural
  <2>3. PICK r \in S : x = n - r.at
    BY <2>2
  <2>4. \A s \in S : n - r.at <= n - s.at
    BY <2>2, <2>3
  <2> QED BY <1>1, <2>4
<1>3. \A s \in S : ~Earlier(r, s)
  BY <1>1, <1>2 DEF Earlier, Orderly
<1>4. Newest(S) \in S /\ \A s \in S : ~Earlier(Newest(S), s)
  BY <1>3 DEF Newest
<1>5. \A s \in S : s.at = Newest(S).at => s = Newest(S)
  BY <1>4 DEF Orderly
<1> QED BY <1>1, <1>4, <1>5 DEF Earlier

(* The recursion that defines a replay has a solution.                     *)
Tell(f, S) ==
    IF S = {} THEN EmptyStore.ledger
    ELSE ReplayReceipt(f[S \ {Newest(S)}], Newest(S))
Tells(f, R) == f = [S \in SUBSET R |-> Tell(f, S)]

LEMMA TellingExists ==
  ASSUME NEW n \in Nat, NEW R, Orderly(R, n)
  PROVE  \E f : Tells(f, R)
<1> DEFINE Defined == {m \in 0..n : \E f : Tells(f, Upto(R, m))}
<1>1. 0 \in Defined
  <2>1. Upto(R, 0) = {}
    BY DEF Upto, Orderly
  <2> DEFINE f == [S \in SUBSET {} |-> EmptyStore.ledger]
  <2>2. Tells(f, {})
    <3>1. \A S \in SUBSET {} : Tell(f, S) = EmptyStore.ledger
      BY DEF Tell
    <3> QED BY <3>1 DEF Tells
  <2> HIDE DEF f
  <2> QED BY <2>1, <2>2
<1>2. ASSUME NEW m \in 0..n, m < n, m \in Defined PROVE m + 1 \in Defined
  <2> DEFINE U == Upto(R, m)
             W == Upto(R, m + 1)
  <2>1. PICK f : Tells(f, U)
    BY <1>2
  <2> DEFINE h == [S \in SUBSET W |-> Tell(f, S)]
  <2>2. m + 1 \in 0..n /\ m \in Nat
    BY <1>2
  <2>3. \A r \in R : r.at \in Nat
    BY DEF Orderly
  <2>4. U \subseteq W /\ W \subseteq R
    BY <2>2, <2>3 DEF Upto
  <2>5. \A S \in SUBSET U : h[S] = f[S]
    BY <2>1, <2>4 DEF Tells
  <2>6. ASSUME NEW S \in SUBSET W, S # {} PROVE S \ {Newest(S)} \in SUBSET U
    <3>1. S \in SUBSET R
      BY <2>4
    <3>2. /\ Newest(S) \in W
          /\ \A s \in S \ {Newest(S)} : s.at < Newest(S).at
      BY <2>6, <3>1, NewestIsLast
    <3>3. Newest(S).at <= m + 1
      BY <3>2 DEF Upto
    <3>4. \A s \in S \ {Newest(S)} : s.at <= m
      BY <2>2, <2>3, <2>4, <3>2, <3>3
    <3> QED BY <2>4, <3>4 DEF Upto
  <2>7. \A S \in SUBSET W : Tell(h, S) = Tell(f, S)
    <3> HIDE DEF h
    <3> QED BY <2>5, <2>6 DEF Tell
  <2>8. Tells(h, W)
    BY <2>7 DEF Tells
  <2> HIDE DEF h
  <2> QED BY <2>2, <2>8
<1>3. n \in Defined
  <2>1. 0..n \subseteq Defined
    <3> HIDE DEF Defined
    <3> QED BY <1>1, <1>2, Induction
  <2> QED BY <2>1
<1>4. Upto(R, n) = R
  BY DEF Upto, Orderly
<1> QED BY <1>3, <1>4

LEMMA ReplayUnfolds ==
  ASSUME NEW n \in Nat, NEW R, Orderly(R, n)
  PROVE  \E f : Tells(f, R) /\ Replay(R) = f[R]
<1> DEFINE told(f) == [S \in SUBSET R |->
                         IF S = {} THEN EmptyStore.ledger
                         ELSE ReplayReceipt(f[S \ {Newest(S)}], Newest(S))]
           chosen == CHOOSE f : f = told(f)
<1>1. \E f : f = told(f)
  BY TellingExists DEF Tells, Tell
<1>2. chosen = told(chosen)
  <2> HIDE DEF told
  <2> QED BY <1>1
<1>3. Tells(chosen, R)
  <2> HIDE DEF chosen
  <2> QED BY <1>2 DEF Tells, Tell
<1>4. Replay(R) = chosen[R]
  BY DEF Replay
<1> HIDE DEF chosen
<1> QED BY <1>3, <1>4

(* A newer receipt is replayed after all the others.                       *)
LEMMA ReplayAppends ==
  ASSUME NEW n \in Nat, NEW R, NEW r, Orderly(R, n), Orderly(R \cup {r}, n + 1), r.at = n + 1
  PROVE  Replay(R \cup {r}) = ReplayReceipt(Replay(R), r)
<1> DEFINE W == R \cup {r}
<1>1. PICK f : Tells(f, R) /\ Replay(R) = f[R]
  BY ReplayUnfolds
<1>2. PICK h : Tells(h, W) /\ Replay(W) = h[W]
  <2>1. n + 1 \in Nat
    OBVIOUS
  <2> QED BY <2>1, ReplayUnfolds
<1>3. \A S \in SUBSET R : f[S] = Tell(f, S) /\ h[S] = Tell(h, S)
  BY <1>1, <1>2 DEF Tells
<1> DEFINE Same == {m \in 0..n : \A S \in SUBSET Upto(R, m) : f[S] = h[S]}
<1>4. 0 \in Same
  <2>1. Upto(R, 0) = {}
    BY DEF Upto, Orderly
  <2>2. {} \in SUBSET R /\ Tell(f, {}) = Tell(h, {})
    BY DEF Tell
  <2>3. f[{}] = h[{}]
    BY <2>2, <1>3
  <2>4. 0 \in 0..n /\ \A S \in SUBSET {} : S = {}
    OBVIOUS
  <2> QED BY <2>1, <2>3, <2>4
<1>5. ASSUME NEW m \in 0..n, m < n, m \in Same PROVE m + 1 \in Same
  <2>1. m + 1 \in 0..n /\ m \in Nat
    BY <1>5
  <2>2. ASSUME NEW S \in SUBSET Upto(R, m + 1) PROVE f[S] = h[S]
    <3>1. S \in SUBSET R /\ \A s \in S : s.at <= m + 1 /\ s.at \in Nat
      BY DEF Upto, Orderly
    <3>2. CASE S = {}
      <4>1. Tell(f, S) = Tell(h, S)
        BY <3>2 DEF Tell
      <4> QED BY <4>1, <3>1, <1>3
    <3>3. CASE S # {}
      <4>1. /\ Newest(S) \in S
            /\ \A s \in S \ {Newest(S)} : s.at < Newest(S).at
        BY <3>1, <3>3, NewestIsLast
      <4>2. \A s \in S \ {Newest(S)} : s.at <= m
        BY <2>1, <3>1, <4>1
      <4>3. S \ {Newest(S)} \in SUBSET Upto(R, m)
        BY <3>1, <4>2 DEF Upto
      <4>4. f[S \ {Newest(S)}] = h[S \ {Newest(S)}]
        BY <1>5, <4>3
      <4>5. Tell(f, S) = Tell(h, S)
        BY <4>4 DEF Tell
      <4> QED BY <4>5, <3>1, <1>3
    <3> QED BY <3>2, <3>3
  <2> QED BY <2>1, <2>2
<1>6. n \in Same
  <2>1. 0..n \subseteq Same
    <3> HIDE DEF Same
    <3> QED BY <1>4, <1>5, Induction
  <2> QED BY <2>1
<1>7. Upto(R, n) = R
  BY DEF Upto, Orderly
<1>8. f[R] = h[R]
  BY <1>6, <1>7
<1>9. Newest(W) = r /\ W \ {r} = R
  <2>1. r \notin R
    BY DEF Orderly
  <2>2. W # {} /\ W \in SUBSET W
    OBVIOUS
  <2>3. Newest(W) \in W /\ \A s \in W \ {Newest(W)} : s.at < Newest(W).at
    <3>1. n + 1 \in Nat
      OBVIOUS
    <3> QED BY <2>2, <3>1, NewestIsLast
  <2>4. \A s \in R : s.at < r.at
    BY DEF Orderly
  <2>5. r.at \in Int
    OBVIOUS
  <2>6. ASSUME Newest(W) # r PROVE FALSE
    <3>1. Newest(W) \in R /\ r \in W \ {Newest(W)}
      BY <2>3, <2>6
    <3>2. Newest(W).at < r.at /\ r.at < Newest(W).at /\ Newest(W).at \in Nat
      BY <2>3, <2>4, <3>1 DEF Orderly
    <3> QED BY <3>2
  <2> QED BY <2>1, <2>6
<1>10. h[W] = ReplayReceipt(h[R], r)
  <2>1. h[W] = Tell(h, W)
    BY <1>2 DEF Tells
  <2> QED BY <2>1, <1>9 DEF Tell
<1> QED BY <1>1, <1>2, <1>8, <1>10

-----------------------------------------------------------------------------
(* Receipts that tell what snapshot snap says.  Each is later than those   *)
(* before it and has a higher sequence number, the last the snapshot's.    *)
InOrder(R, n, q) ==
    /\ IsFiniteSet(R)
    /\ Orderly(R, n)
    /\ \A r \in R : r.seq \in 1..q
    /\ \A r, s \in R : r.at < s.at => r.seq < s.seq
    /\ q = 0 \/ \E r \in R : r.seq = q
ParentsExist(l) ==
    \A u \in Units : l[u].parent # NoUnit => l[l[u].parent].state # "none"
Told(R, n, snap) ==
    /\ InOrder(R, n, snap.seq)
    /\ ParentsExist(snap.ledger)
    /\ Replay(R) = snap.ledger

LEMMA FailedIsNoLedger == \A l \in Ledgers : l # Failed
<1>1. \A l \in Ledgers : DOMAIN l = Units
  BY DEF Ledgers
<1>2. DOMAIN Failed = {NoUnit}
  BY DEF Failed
<1> QED BY <1>1, <1>2, StoreAssumption

LEMMA ReceiptsDiffer ==
  ASSUME NEW n \in Nat, NEW q \in Nat, NEW R, InOrder(R, n, q)
  PROVE  Cardinality({<<r.seq, r.kind>> : r \in R}) = Cardinality(R)
<1> DEFINE T == {<<r.seq, r.kind>> : r \in R}
           f == [r \in R |-> <<r.seq, r.kind>>]
<1>1. ASSUME NEW r \in R, NEW s \in R, r.seq = s.seq PROVE r = s
  <2>1. r.at \in Nat /\ s.at \in Nat /\ r.seq \in Nat
    BY DEF InOrder, Orderly
  <2>2. ~(r.at < s.at) /\ ~(s.at < r.at)
    BY <1>1, <2>1 DEF InOrder
  <2>3. r.at = s.at
    BY <2>1, <2>2
  <2> QED BY <2>3 DEF InOrder, Orderly
<1>2. f \in [R -> T] /\ \A r, s \in R : f[r] = f[s] => r = s
  BY <1>1
<1>3. \A t \in T : \E r \in R : f[r] = t
  OBVIOUS
<1>4. ExistsBijection(R, T)
  <2> HIDE DEF f, T
  <2>1. f \in Injection(R, T)
    BY <1>2 DEF Injection, IsInjective
  <2>2. f \in Surjection(R, T)
    BY <1>2, <1>3 DEF Surjection
  <2> QED BY <2>1, <2>2 DEF ExistsBijection, Bijection
<1> HIDE DEF T
<1>5. IsFiniteSet(R)
  BY DEF InOrder
<1>6. Cardinality(T) = Cardinality(R)
  BY <1>4, <1>5, FS_Bijection
<1> QED BY <1>6 DEF T

LEMMA ToldRebuilds ==
  ASSUME clock \in Nat, NEW snap \in Snapshots, Told(receipts, clock, snap), receipts # {}
  PROVE  Valid(Replayed) /\ Rebuilt = snap
<1>1. snap.ledger \in Ledgers /\ snap.seq \in Nat
      /\ snap = [ledger |-> snap.ledger, seq |-> snap.seq]
  BY DEF Snapshots
<1>2. Replayed = snap.ledger
  BY DEF Replayed, Told
<1>3. Valid(Replayed)
  BY <1>1, <1>2, FailedIsNoLedger, ReceiptsDiffer DEF Valid, Told, ParentsExist
<1>4. HighestSequence = snap.seq
  <2>1. \A r \in receipts : r.seq \in 1..snap.seq
    BY DEF Told, InOrder
  <2>2. \E r \in receipts : r.seq = snap.seq
    BY <1>1, <2>1 DEF Told, InOrder
  <2> DEFINE S == {r.seq : r \in receipts}
  <2>3. S \subseteq Nat /\ snap.seq \in S /\ \A n \in S : n <= snap.seq
    BY <1>1, <2>1, <2>2
  <2>4. \A n \in S : (\A r \in receipts : r.seq <= n) <=> n = snap.seq
    BY <2>2, <2>3
  <2> QED BY <2>3, <2>4 DEF HighestSequence
<1> QED BY <1>1, <1>2, <1>3, <1>4 DEF Rebuilt

LEMMA ParentsStay ==
  ASSUME NEW l \in Ledgers, NEW m, Turns!TurnStep(l, m), ParentsExist(l)
  PROVE  ParentsExist(m)
<1>1. \A x \in Units : l[x].parent \in Units \cup {NoUnit}
  BY DEF Ledgers
<1>2. ASSUME NEW u \in Units, NEW p \in Units \cup {NoUnit}, Turns!Call(l, m, u, p)
      PROVE  ParentsExist(m)
  BY <1>1, <1>2 DEF Turns!Call, Turns!Alive, Turns!Newborn, ParentsExist, Ledgers
<1>3. ASSUME NEW u \in Units, NEW s, s # "none", m = [l EXCEPT ![u].state = s]
      PROVE  ParentsExist(m)
  BY <1>1, <1>3 DEF ParentsExist, Ledgers
<1>4. ASSUME \A x \in Units : /\ m[x].parent = l[x].parent
                              /\ l[x].state # "none" => m[x].state # "none"
      PROVE  ParentsExist(m)
  BY <1>1, <1>4 DEF ParentsExist
<1>5. ASSUME NEW u \in Units, NEW t, Turns!StartTurn(l, m, u, t) PROVE ParentsExist(m)
  <2>1. \A x \in Units : /\ m[x].parent = l[x].parent
                         /\ l[x].state # "none" => m[x].state # "none"
    BY <1>5 DEF Turns!StartTurn, Ledgers
  <2> QED BY <2>1, <1>4
<1>6. ASSUME NEW u \in Units, NEW t, NEW next \in Turns!RestStates,
             Turns!CompleteTurn(l, m, u, t, next)
      PROVE ParentsExist(m)
  <2>1. \A x \in Units : /\ m[x].parent = l[x].parent
                         /\ l[x].state # "none" => m[x].state # "none"
    BY <1>6 DEF Turns!CompleteTurn, Ledgers, Turns!RestStates
  <2> QED BY <2>1, <1>4
<1>7. ASSUME NEW u \in Units, Turns!Retire(l, m, u) PROVE ParentsExist(m)
  <2>1. \A x \in Units : /\ m[x].parent = l[x].parent
                         /\ l[x].state # "none" => m[x].state # "none"
    BY <1>7 DEF Turns!Retire, Ledgers
  <2> QED BY <2>1, <1>4
<1> QED BY <1>2, <1>5, <1>6, <1>7 DEF Turns!TurnStep

(* An operation adds the newest receipt, and replaying it does what the    *)
(* operation did.                                                          *)
LEMMA RecordTells ==
  ASSUME StoreInv, Loaded, Told(receipts, clock, store), NEW l \in Ledgers,
         l = store.ledger \/ Turns!TurnStep(store.ledger, l),
         NEW kind, NEW u, NEW arg, NEW width \in Nat \ {0},
         Record(l, kind, u, arg, width),
         \A r : r.unit = u /\ r.kind = kind /\ r.arg = arg
                  => ReplayReceipt(store.ledger, r) = l
  PROVE  Told(receipts', clock', work'.snap) /\ receipts' # {}
<1> DEFINE q == store.seq
           seq == q + width
           r == [unit |-> u, seq |-> seq, kind |-> kind, arg |-> arg, at |-> clock + 1]
           R == receipts
<1>1. work.snap = store /\ store \in Snapshots /\ clock \in Nat
  BY DEF StoreInv, StoreTypeOK, CopyIsCurrent, Loaded
<1>2. q \in Nat /\ seq \in Nat /\ q < seq /\ store.ledger \in Ledgers
  BY <1>1 DEF Snapshots
<1>3. /\ receipts' = {x \in R : <<x.unit, x.seq, x.kind>> # <<u, seq, kind>>} \cup {r}
      /\ clock' = clock + 1
      /\ work'.snap = [ledger |-> l, seq |-> seq]
  BY <1>1 DEF Record
<1>4. IsFiniteSet(R) /\ Orderly(R, clock) /\ \A x \in R : x.seq \in 1..q
  BY DEF Told, InOrder
<1>5. receipts' = R \cup {r}
  BY <1>2, <1>3, <1>4
<1>6. Orderly(R \cup {r}, clock + 1)
  BY <1>1, <1>2, <1>4 DEF Orderly
<1>7. InOrder(R \cup {r}, clock + 1, seq)
  <2>1. IsFiniteSet(R \cup {r})
    BY <1>4, FS_AddElement
  <2>2. \A x \in R \cup {r} : x.seq \in 1..seq
    BY <1>2, <1>4
  <2>3. \A x, y \in R \cup {r} : x.at < y.at => x.seq < y.seq
    <3>1. \A x \in R : x.at \in Nat /\ x.at < r.at /\ x.seq < r.seq
      BY <1>1, <1>2, <1>4 DEF Orderly
    <3>2. r.at \in Nat
      BY <1>1
    <3> HIDE DEF r
    <3> QED BY <3>1, <3>2 DEF Told, InOrder
  <2>4. \E x \in R \cup {r} : x.seq = seq
    <3>1. r.seq = seq
      OBVIOUS
    <3> HIDE DEF r, seq
    <3> QED BY <3>1
  <2> HIDE DEF r, seq
  <2> QED BY <1>6, <2>1, <2>2, <2>3, <2>4 DEF InOrder
<1>8. Replay(R \cup {r}) = l
  <2>1. r.at = clock + 1
    OBVIOUS
  <2>2. Replay(R) = store.ledger
    BY DEF Told
  <2>3. ReplayReceipt(store.ledger, r) = l
    <3>1. r.unit = u /\ r.kind = kind /\ r.arg = arg
      OBVIOUS
    <3> HIDE DEF r
    <3> QED BY <3>1
  <2> HIDE DEF r
  <2> QED BY <1>1, <1>4, <1>6, <2>1, <2>2, <2>3, ReplayAppends
<1>9. ParentsExist(l)
  BY <1>2, ParentsStay DEF Told
<1> HIDE DEF r, seq
<1> QED BY <1>3, <1>5, <1>7, <1>8, <1>9 DEF Told

LEMMA CallTells ==
  ASSUME StoreInv, Told(receipts, clock, store), NEW u \in Units,
         NEW parent \in Units \cup {NoUnit}, CallUnit(u, parent)
  PROVE  Told(receipts', clock', work'.snap) /\ receipts' # {}
<1> DEFINE l == [store.ledger EXCEPT
                   ![u] = [state |-> "born", active |-> NoTurn, parent |-> parent,
                           started |-> 0, completed |-> 0]]
<1>1. Loaded /\ work.snap.ledger = store.ledger /\ store.ledger \in Ledgers
  BY LoadedLedger DEF CallUnit
<1>2. Record(l, "called", u, parent, 1)
  BY <1>1 DEF CallUnit
<1>3. l \in Ledgers
  BY <1>1 DEF Ledgers, Turns!LifecycleStates
<1>4. Turns!Call(store.ledger, l, u, parent)
  BY <1>1 DEF CallUnit, Unit, Accepts, Turns!Call, Turns!Alive, Turns!Newborn
<1>5. Turns!TurnStep(store.ledger, l)
  BY <1>4 DEF Turns!TurnStep
<1>6. \A r : r.unit = u /\ r.kind = "called" /\ r.arg = parent
               => ReplayReceipt(store.ledger, r) = l
  <2>1. store.ledger[u].state = "none"
    BY <1>4 DEF Turns!Call
  <2> QED BY <1>1, <2>1, FailedIsNoLedger DEF ReplayReceipt, Turns!Newborn
<1> HIDE DEF l
<1> QED BY <1>1, <1>2, <1>3, <1>5, <1>6, RecordTells

LEMMA StartTells ==
  ASSUME StoreInv, Told(receipts, clock, store), NEW u \in Units,
         NEW turn \in TurnIds, StartTurn(u, turn)
  PROVE  Told(receipts', clock', work'.snap) /\ receipts' # {}
<1> DEFINE l == [store.ledger EXCEPT ![u].state = "running",
                                     ![u].active = turn, ![u].started = @ + 1]
<1>1. Loaded /\ work.snap.ledger = store.ledger /\ store.ledger \in Ledgers
  BY LoadedLedger DEF StartTurn
<1>2. Record(l, "turn-started", u, turn, 1)
  BY <1>1 DEF StartTurn
<1>3. l \in Ledgers
  BY <1>1 DEF Ledgers, Turns!LifecycleStates
<1>4. Turns!StartTurn(store.ledger, l, u, turn)
  BY <1>1 DEF StartTurn, Unit, Accepts, Turns!StartTurn, Turns!Alive
<1>5. Turns!TurnStep(store.ledger, l)
  BY <1>4 DEF Turns!TurnStep
<1>6. \A r : r.unit = u /\ r.kind = "turn-started" /\ r.arg = turn
               => ReplayReceipt(store.ledger, r) = l
  <2>1. store.ledger[u].state \notin {"none", "retired"} /\ store.ledger[u].active = NoTurn
    BY <1>4 DEF Turns!StartTurn, Turns!Alive
  <2> QED BY <1>1, <2>1, FailedIsNoLedger DEF ReplayReceipt, ReplayTurnStarted
<1> HIDE DEF l
<1> QED BY <1>1, <1>2, <1>3, <1>5, <1>6, RecordTells

LEMMA CompleteTells ==
  ASSUME StoreInv, Told(receipts, clock, store), NEW u \in Units,
         NEW turn \in TurnIds, NEW next \in Turns!RestStates, CompleteTurn(u, turn, next)
  PROVE  Told(receipts', clock', work'.snap) /\ receipts' # {}
<1> DEFINE l == [store.ledger EXCEPT ![u].state = next,
                                     ![u].active = NoTurn, ![u].completed = @ + 1]
<1>1. Loaded /\ work.snap.ledger = store.ledger /\ store.ledger \in Ledgers
  BY LoadedLedger DEF CompleteTurn
<1>2. Record(l, "turn-completed", u, <<turn, next>>, 1)
  BY <1>1 DEF CompleteTurn
<1>3. l \in Ledgers
  BY <1>1 DEF Ledgers, Turns!LifecycleStates
<1>4. Turns!CompleteTurn(store.ledger, l, u, turn, next)
  BY <1>1 DEF CompleteTurn, Unit, Accepts, Turns!CompleteTurn, Turns!Alive
<1>5. Turns!TurnStep(store.ledger, l)
  BY <1>4 DEF Turns!TurnStep
<1>6. \A r : r.unit = u /\ r.kind = "turn-completed" /\ r.arg = <<turn, next>>
               => ReplayReceipt(store.ledger, r) = l
  <2>1. store.ledger[u].state \notin {"none", "retired"} /\ store.ledger[u].active = turn
    BY <1>4 DEF Turns!CompleteTurn, Turns!Alive
  <2> QED BY <1>1, <2>1, FailedIsNoLedger DEF ReplayReceipt, ReplayTurnCompleted
<1> HIDE DEF l
<1> QED BY <1>1, <1>2, <1>3, <1>5, <1>6, RecordTells

LEMMA RetireTells ==
  ASSUME StoreInv, Told(receipts, clock, store), NEW u \in Units, Retire(u)
  PROVE  Told(receipts', clock', work'.snap) /\ receipts' # {}
<1> DEFINE l == [store.ledger EXCEPT ![u].state = "retired", ![u].active = NoTurn]
<1>1. Loaded /\ work.snap.ledger = store.ledger /\ store.ledger \in Ledgers
  BY LoadedLedger DEF Retire
<1>2. Record(l, "retired", u, NoTurn, 1)
  BY <1>1 DEF Retire
<1>3. l \in Ledgers
  BY <1>1 DEF Ledgers, Turns!LifecycleStates
<1>4. Turns!Retire(store.ledger, l, u)
  BY <1>1 DEF Retire, Unit, Accepts, Turns!Retire, Turns!Alive
<1>5. Turns!TurnStep(store.ledger, l)
  BY <1>4 DEF Turns!TurnStep
<1>6. \A r : r.unit = u /\ r.kind = "retired" /\ r.arg = NoTurn
               => ReplayReceipt(store.ledger, r) = l
  <2>1. store.ledger[u].state # "none"
    BY <1>4 DEF Turns!Retire, Turns!Alive
  <2> QED BY <1>1, <2>1, FailedIsNoLedger DEF ReplayReceipt
<1> HIDE DEF l
<1> QED BY <1>1, <1>2, <1>3, <1>5, <1>6, RecordTells

LEMMA EventTells ==
  ASSUME StoreInv, Told(receipts, clock, store), NEW u \in Units, RecordAdapterEvent(u)
  PROVE  Told(receipts', clock', work'.snap) /\ receipts' # {}
<1>1. Loaded /\ work.snap.ledger = store.ledger /\ store.ledger \in Ledgers
  BY LoadedLedger DEF RecordAdapterEvent
<1>2. Record(store.ledger, "proof-observed", u, NoTurn, 2)
  BY <1>1 DEF RecordAdapterEvent
<1>3. \A r : r.unit = u /\ r.kind = "proof-observed" /\ r.arg = NoTurn
               => ReplayReceipt(store.ledger, r) = store.ledger
  BY <1>1, FailedIsNoLedger DEF ReplayReceipt
<1> QED BY <1>1, <1>2, <1>3, RecordTells

-----------------------------------------------------------------------------
(* What is on disk is told by the receipts, until a fault that a damaged   *)
(* snapshot must not follow.                                               *)
Latest == IF work.step = "recorded" THEN work.snap ELSE store
Intact == faults = 0 \/ damaged
RecoveryInv ==
    /\ StoreInv
    /\ damaged \in BOOLEAN
    /\ damaged => faults # 0
    /\ Intact => Told(receipts, clock, Latest)
    /\ work.step = "recorded" \/ damaged => receipts # {}

LEMMA DamagedIsReadable ==
  ASSUME RecoveryInv, damaged
  PROVE  Readable /\ Rebuilt = Latest
<1>1. clock \in Nat /\ Latest \in Snapshots
  BY DEF RecoveryInv, StoreInv, StoreTypeOK, Latest
<1>2. Told(receipts, clock, Latest) /\ receipts # {}
  BY DEF RecoveryInv, Intact
<1> QED BY <1>1, <1>2, ToldRebuilds DEF Readable

LEMMA InitialRecoveryInv == RecoveryInit => RecoveryInv
<1> SUFFICES ASSUME RecoveryInit PROVE RecoveryInv
  OBVIOUS
<1>1. StoreInv /\ receipts = {} /\ clock = 0 /\ Latest = EmptyStore /\ work.step = "idle"
  BY InitialInv DEF RecoveryInit, StoreInit, Latest, Idle
<1>2. Orderly({}, 0)
  BY DEF Orderly
<1>3. InOrder({}, 0, 0)
  BY <1>2, FS_EmptySet DEF InOrder
<1>4. ParentsExist(EmptyStore.ledger)
  BY DEF ParentsExist, EmptyStore, Turns!NotCalled
<1>5. Replay({}) = EmptyStore.ledger
  <2>1. PICK f : Tells(f, {}) /\ Replay({}) = f[{}]
    <3>1. 0 \in Nat
      OBVIOUS
    <3> QED BY <1>2, <3>1, ReplayUnfolds
  <2>2. f[{}] = Tell(f, {})
    BY <2>1 DEF Tells
  <2> QED BY <2>1, <2>2 DEF Tell
<1>6. EmptyStore.seq = 0
  BY DEF EmptyStore
<1>7. Told(receipts, clock, Latest)
  BY <1>1, <1>3, <1>4, <1>5, <1>6 DEF Told
<1> QED BY <1>1, <1>7 DEF RecoveryInv, RecoveryInit

(* An operation under way: the receipts tell what it did to its copy.      *)
LEMMA OperationKeepsRecovery ==
  ASSUME RecoveryInv, UNCHANGED damaged, StoreInv', Loaded, UNCHANGED faults,
         work'.step = "recorded",
         Intact => Told(receipts', clock', work'.snap),
         receipts' # {}
  PROVE  RecoveryInv'
<1>1. Latest' = work'.snap /\ (Intact' <=> Intact)
  BY DEF Latest, Intact
<1> QED BY <1>1 DEF RecoveryInv

LEMMA LoadedTells ==
  ASSUME RecoveryInv, Loaded, Intact
  PROVE  Told(receipts, clock, store)
BY DEF RecoveryInv, Loaded, Latest

LEMMA OperateKeepsRecovery ==
  ASSUME RecoveryInv, Operate, UNCHANGED damaged, MaxFaults <= 1
  PROVE  RecoveryInv'
<1>1. ASSUME NEW l, NEW k, NEW u, NEW a, NEW w, Record(l, k, u, a, w)
      PROVE  work'.step = "recorded" /\ receipts' # {} /\ UNCHANGED faults
  BY <1>1 DEF Record
<1>2. ASSUME NEW u \in Units, NEW parent \in Units \cup {NoUnit}, CallUnit(u, parent)
      PROVE  RecoveryInv'
  <2>1. Loaded /\ work'.step = "recorded" /\ receipts' # {} /\ UNCHANGED faults
    BY <1>1, <1>2 DEF CallUnit
  <2>2. StoreInv'
    BY <1>2, CallKeepsInv DEF RecoveryInv
  <2>3. Intact => Told(receipts', clock', work'.snap)
    BY <1>2, <2>1, LoadedTells, CallTells DEF RecoveryInv
  <2> QED BY <2>1, <2>2, <2>3, OperationKeepsRecovery
<1>3. ASSUME NEW u \in Units, NEW turn \in TurnIds, StartTurn(u, turn)
      PROVE  RecoveryInv'
  <2>1. Loaded /\ work'.step = "recorded" /\ receipts' # {} /\ UNCHANGED faults
    BY <1>1, <1>3 DEF StartTurn
  <2>2. StoreInv'
    BY <1>3, StartKeepsInv DEF RecoveryInv
  <2>3. Intact => Told(receipts', clock', work'.snap)
    BY <1>3, <2>1, LoadedTells, StartTells DEF RecoveryInv
  <2> QED BY <2>1, <2>2, <2>3, OperationKeepsRecovery
<1>4. ASSUME NEW u \in Units, NEW turn \in TurnIds, NEW next \in Turns!RestStates,
             CompleteTurn(u, turn, next)
      PROVE  RecoveryInv'
  <2>1. Loaded /\ work'.step = "recorded" /\ receipts' # {} /\ UNCHANGED faults
    BY <1>1, <1>4 DEF CompleteTurn
  <2>2. StoreInv'
    BY <1>4, CompleteKeepsInv DEF RecoveryInv
  <2>3. Intact => Told(receipts', clock', work'.snap)
    BY <1>4, <2>1, LoadedTells, CompleteTells DEF RecoveryInv
  <2> QED BY <2>1, <2>2, <2>3, OperationKeepsRecovery
<1>5. ASSUME NEW u \in Units, Retire(u) PROVE RecoveryInv'
  <2>1. Loaded /\ work'.step = "recorded" /\ receipts' # {} /\ UNCHANGED faults
    BY <1>1, <1>5 DEF Retire
  <2>2. StoreInv'
    BY <1>5, RetireKeepsInv DEF RecoveryInv
  <2>3. Intact => Told(receipts', clock', work'.snap)
    BY <1>5, <2>1, LoadedTells, RetireTells DEF RecoveryInv
  <2> QED BY <2>1, <2>2, <2>3, OperationKeepsRecovery
<1>6. ASSUME NEW u \in Units, RecordAdapterEvent(u) PROVE RecoveryInv'
  <2>1. Loaded /\ work'.step = "recorded" /\ receipts' # {} /\ UNCHANGED faults
    BY <1>1, <1>6 DEF RecordAdapterEvent
  <2>2. StoreInv'
    BY <1>6, EventKeepsInv DEF RecoveryInv
  <2>3. Intact => Told(receipts', clock', work'.snap)
    BY <1>6, <2>1, LoadedTells, EventTells DEF RecoveryInv
  <2> QED BY <2>1, <2>2, <2>3, OperationKeepsRecovery
<1>7. CASE Refuse
  <2>1. StoreInv'
    BY <1>7, DropKeepsInv DEF RecoveryInv
  <2>2. Latest = store /\ Latest' = store /\ (Intact' <=> Intact) /\ work'.step = "idle"
    BY <1>7 DEF Refuse, Loaded, Latest, Intact, Idle
  <2> QED BY <1>7, <2>1, <2>2 DEF Refuse, RecoveryInv
<1>8. CASE ClearAbandonedLock
  <2>1. StoreInv'
    BY <1>8, DropKeepsInv DEF RecoveryInv
  <2>2. Latest' = Latest /\ (Intact' <=> Intact)
    BY <1>8 DEF ClearAbandonedLock, Latest, Intact
  <2> QED BY <1>8, <2>1, <2>2 DEF ClearAbandonedLock, RecoveryInv
<1>9. CASE \E left \in {"free", "abandoned"} : Fail(left)
  <2>1. StoreInv'
    BY <1>9, DropKeepsInv DEF RecoveryInv
  <2>2. faults < MaxFaults /\ faults' = faults + 1 /\ faults \in Nat
        /\ work'.step = "idle"
    BY <1>9 DEF Fail, Idle, RecoveryInv, StoreInv, StoreTypeOK
  <2>3. ~damaged
    BY <2>2, StoreAssumption DEF RecoveryInv
  <2>4. ~Intact'
    BY <2>2, <2>3 DEF Intact
  <2> QED BY <2>1, <2>2, <2>3, <2>4 DEF RecoveryInv
<1> QED BY <1>2, <1>3, <1>4, <1>5, <1>6, <1>7, <1>8, <1>9 DEF Operate

LEMMA AcquireKeepsRecovery ==
  ASSUME RecoveryInv, AcquireRecovered
  PROVE  RecoveryInv' /\ Acquire(store)
<1>1. lock = "free" /\ work.step # "recorded"
  BY DEF AcquireRecovered, Acquire, RecoveryInv, StoreInv, StoreTypeOK
<1>2. Acquire(store)
  BY <1>1, DamagedIsReadable DEF AcquireRecovered, Latest
<1>3. StoreInv'
  BY <1>2, AcquireKeepsInv DEF RecoveryInv
<1>4. Latest' = Latest /\ (Intact' <=> Intact)
  BY <1>1, <1>2 DEF AcquireRecovered, Acquire, Latest, Intact
<1> QED BY <1>2, <1>3, <1>4 DEF AcquireRecovered, Acquire, RecoveryInv

LEMMA SaveKeepsRecovery ==
  ASSUME RecoveryInv, SaveSnapshot
  PROVE  RecoveryInv'
<1>1. StoreInv'
  BY SaveKeepsInv DEF SaveSnapshot, RecoveryInv
<1>2. Latest' = Latest /\ (Intact' => Intact) /\ work'.step = "idle" /\ ~damaged'
  BY DEF SaveSnapshot, Save, Latest, Intact, Idle
<1> QED BY <1>1, <1>2 DEF SaveSnapshot, Save, RecoveryInv

(* A store that has something to tell has told it.                         *)
LEMMA TellingOfSomething ==
  ASSUME StoreInv, Told(receipts, clock, Latest), store # EmptyStore,
         work.step = "recorded" => receipts # {}
  PROVE  receipts # {}
<1> SUFFICES ASSUME receipts = {} PROVE FALSE
  OBVIOUS
<1>1. Latest = store /\ store \in Snapshots /\ clock \in Nat
  BY DEF Latest, StoreInv, StoreTypeOK
<1>2. Told({}, clock, store) /\ Orderly({}, clock)
  BY <1>1 DEF Orderly
<1>3. PICK f : Tells(f, {}) /\ Replay({}) = f[{}]
  BY <1>1, <1>2, ReplayUnfolds
<1>4. f[{}] = Tell(f, {})
  BY <1>3 DEF Tells
<1>5. store.ledger = EmptyStore.ledger /\ store.seq = 0
  BY <1>2, <1>3, <1>4 DEF Told, InOrder, Tell
<1> QED BY <1>1, <1>5 DEF EmptyStore, Snapshots

(* The one fault is the damage: the receipts had told everything till then.*)
LEMMA DamageKeepsRecovery ==
  ASSUME RecoveryInv, Damage, MaxFaults <= 1
  PROVE  RecoveryInv'
<1>1. StoreInv'
  BY DEF Damage, RecoveryInv, StoreInv, StoreTypeOK, CopyIsCurrent, CopyIsOneStepAhead
<1>2. faults = 0 /\ faults' = 1 /\ Intact /\ Latest' = Latest
  BY StoreAssumption DEF Damage, RecoveryInv, StoreInv, StoreTypeOK, Intact, Latest
<1>3. receipts # {}
  BY <1>2, TellingOfSomething DEF RecoveryInv, Damage
<1> QED BY <1>1, <1>2, <1>3 DEF Damage, RecoveryInv

LEMMA ClockKeepsRecovery ==
  ASSUME RecoveryInv, SetClockBack, MaxFaults <= 1
  PROVE  RecoveryInv'
<1>1. clock' \in Nat /\ faults < MaxFaults /\ faults' = faults + 1 /\ faults \in Nat
  BY DEF SetClockBack, RecoveryInv, StoreInv, StoreTypeOK
<1>2. StoreInv'
  BY <1>1 DEF SetClockBack, RecoveryInv, StoreInv, StoreTypeOK, CopyIsCurrent,
     CopyIsOneStepAhead
<1>3. ~damaged /\ ~damaged' /\ ~Intact'
  BY <1>1, StoreAssumption DEF SetClockBack, RecoveryInv, Intact
<1> QED BY <1>1, <1>2, <1>3 DEF SetClockBack, RecoveryInv

LEMMA NextKeepsRecovery ==
  ASSUME MaxFaults <= 1
  PROVE  RecoveryInv /\ [RecoveryNext]_recoveryVars => RecoveryInv'
<1> SUFFICES ASSUME RecoveryInv, [RecoveryNext]_recoveryVars PROVE RecoveryInv'
  OBVIOUS
<1>1. CASE UNCHANGED recoveryVars
  <2>1. UNCHANGED storeVars /\ UNCHANGED damaged
    BY <1>1 DEF recoveryVars
  <2>2. StoreInv'
    BY <2>1, NextKeepsInv DEF RecoveryInv
  <2>3. Latest' = Latest /\ (Intact' <=> Intact)
    BY <2>1 DEF storeVars, Latest, Intact
  <2> QED BY <2>1, <2>2, <2>3 DEF storeVars, RecoveryInv
<1> QED BY <1>1, AcquireKeepsRecovery, OperateKeepsRecovery, SaveKeepsRecovery,
       DamageKeepsRecovery, ClockKeepsRecovery DEF RecoveryNext

(* When a lock holder has loaded what was saved last, each step of the     *)
(* store is an operation of the turn ledger or leaves it alone.            *)
LEMMA SnapshotStepsAreTurns ==
  ASSUME StoreInv, [RecoveryNext]_recoveryVars, AcquireRecovered => Acquire(store)
  PROVE  [Turns!TurnsNext]_(store.ledger)
<1> SUFFICES ASSUME store.ledger' # store.ledger PROVE Turns!TurnsNext
  OBVIOUS
<1>1. CASE Save
  <2>1. Turns!TurnStep(store.ledger, store'.ledger)
    BY <1>1 DEF Save, StoreInv, CopyIsOneStepAhead
  <2> QED BY <2>1 DEF Turns!TurnsNext
<1>2. CASE Acquire(store) \/ Operate
  BY <1>2, OnlySaveChangesTheStore, <1>1 DEF StoreNext
<1> QED BY <1>1, <1>2
    DEF RecoveryNext, SaveSnapshot, Damage, SetClockBack, recoveryVars, storeVars

(* The inductive invariant, after at most one fault of any kind.           *)
THEOREM RecoveryInvariant ==
  ASSUME MaxFaults <= 1
  PROVE  RecoverySpec => []RecoveryInv
BY InitialRecoveryInv, NextKeepsRecovery, PTL DEF RecoverySpec

(* After at most one fault, of whatever kind and at whatever step: while   *)
(* the snapshot cannot be read, the receipts tell exactly what it said, or *)
(* what the operation in progress made of it (core/src/lib.rs,             *)
(* replay_snapshot_from_receipts).                                         *)
THEOREM ReceiptsRebuild ==
  ASSUME MaxFaults <= 1
  PROVE  RecoverySpec => []ReceiptsRebuildTheStore
<1>1. RecoveryInv => ReceiptsRebuildTheStore
  BY DamagedIsReadable DEF ReceiptsRebuildTheStore, Latest
<1> QED BY <1>1, RecoveryInvariant, PTL

(* After at most one fault the store is a turn ledger also when its        *)
(* snapshot was rebuilt from the receipts (core/src/lib.rs,                *)
(* load_snapshot_unlocked).                                                *)
THEOREM RecoveryImplementsTurns ==
  ASSUME MaxFaults <= 1
  PROVE  RecoverySpec => ImplementsTurns
<1>1. RecoveryInit => Turns!TurnsInit
  BY DEF RecoveryInit, StoreInit, EmptyStore, Turns!TurnsInit
<1>2. RecoveryInv /\ [RecoveryNext]_recoveryVars => [Turns!TurnsNext]_(store.ledger)
  BY AcquireKeepsRecovery, SnapshotStepsAreTurns DEF RecoveryInv
<1> QED BY <1>1, <1>2, RecoveryInvariant, PTL
    DEF RecoverySpec, ImplementsTurns, Turns!TurnsSpec
-----------------------------------------------------------------------------
(* Of the faults, two are what a damaged snapshot must not meet: a process *)
(* that fails or dies between its receipt and its save, whose receipt      *)
(* tells of an operation that was not carried out, and a clock set back,   *)
(* after which the newest receipt is not the last.                         *)
OrphansReceipt == work.step = "recorded" /\ \E left \in {"free", "abandoned"} : Fail(left)
Careful == ~OrphansReceipt /\ ~SetClockBack
CarefulInv ==
    /\ StoreInv
    /\ Told(receipts, clock, Latest)
    /\ work.step = "recorded" \/ damaged => receipts # {}

LEMMA CarefulIsReadable ==
  ASSUME CarefulInv
  PROVE  Readable /\ (damaged => Rebuilt = Latest)
<1>1. clock \in Nat /\ Latest \in Snapshots
  BY DEF CarefulInv, StoreInv, StoreTypeOK, Latest
<1> QED BY <1>1, ToldRebuilds DEF CarefulInv, Readable

LEMMA CarefulOperation ==
  ASSUME CarefulInv, Operate, Careful, UNCHANGED damaged
  PROVE  CarefulInv'
<1>1. Loaded => Told(receipts, clock, store)
  BY DEF CarefulInv, Loaded, Latest
<1>2. ASSUME StoreInv', Told(receipts', clock', work'.snap), receipts' # {},
             work'.step = "recorded"
      PROVE  CarefulInv'
  <2>1. Latest' = work'.snap
    BY <1>2 DEF Latest
  <2> QED BY <1>2, <2>1 DEF CarefulInv
<1>3. ASSUME NEW u \in Units, NEW parent \in Units \cup {NoUnit}, CallUnit(u, parent)
      PROVE  CarefulInv'
  <2>1. Loaded /\ work'.step = "recorded"
    BY <1>3 DEF CallUnit, Record
  <2> QED BY <1>1, <1>2, <1>3, <2>1, CallKeepsInv, CallTells DEF CarefulInv
<1>4. ASSUME NEW u \in Units, NEW turn \in TurnIds, StartTurn(u, turn)
      PROVE  CarefulInv'
  <2>1. Loaded /\ work'.step = "recorded"
    BY <1>4 DEF StartTurn, Record
  <2> QED BY <1>1, <1>2, <1>4, <2>1, StartKeepsInv, StartTells DEF CarefulInv
<1>5. ASSUME NEW u \in Units, NEW turn \in TurnIds, NEW next \in Turns!RestStates,
             CompleteTurn(u, turn, next)
      PROVE  CarefulInv'
  <2>1. Loaded /\ work'.step = "recorded"
    BY <1>5 DEF CompleteTurn, Record
  <2> QED BY <1>1, <1>2, <1>5, <2>1, CompleteKeepsInv, CompleteTells DEF CarefulInv
<1>6. ASSUME NEW u \in Units, Retire(u) PROVE CarefulInv'
  <2>1. Loaded /\ work'.step = "recorded"
    BY <1>6 DEF Retire, Record
  <2> QED BY <1>1, <1>2, <1>6, <2>1, RetireKeepsInv, RetireTells DEF CarefulInv
<1>7. ASSUME NEW u \in Units, RecordAdapterEvent(u) PROVE CarefulInv'
  <2>1. Loaded /\ work'.step = "recorded"
    BY <1>7 DEF RecordAdapterEvent, Record
  <2> QED BY <1>1, <1>2, <1>7, <2>1, EventKeepsInv, EventTells DEF CarefulInv
<1>8. CASE Refuse \/ ClearAbandonedLock \/ \E left \in {"free", "abandoned"} : Fail(left)
  <2>1. StoreInv'
    BY <1>8, DropKeepsInv DEF CarefulInv
  <2>2. Latest' = Latest /\ (work'.step = "recorded" => work.step = "recorded")
    BY <1>8 DEF Careful, OrphansReceipt, Refuse, Loaded, ClearAbandonedLock, Fail, Latest, Idle
  <2> QED BY <1>8, <2>1, <2>2 DEF Refuse, ClearAbandonedLock, Fail, CarefulInv
<1> QED BY <1>3, <1>4, <1>5, <1>6, <1>7, <1>8 DEF Operate

LEMMA CarefulAcquire ==
  ASSUME CarefulInv, AcquireRecovered
  PROVE  CarefulInv' /\ Acquire(store)
<1>1. lock = "free" /\ work.step # "recorded"
  BY DEF AcquireRecovered, Acquire, CarefulInv, StoreInv, StoreTypeOK
<1>2. Acquire(store)
  BY <1>1, CarefulIsReadable DEF AcquireRecovered, Latest
<1>3. StoreInv'
  BY <1>2, AcquireKeepsInv DEF CarefulInv
<1>4. Latest' = Latest /\ work'.step # "recorded"
  BY <1>1, <1>2 DEF Acquire, Latest
<1> QED BY <1>2, <1>3, <1>4 DEF AcquireRecovered, Acquire, CarefulInv

LEMMA CarefulDamage ==
  ASSUME CarefulInv, Damage
  PROVE  CarefulInv'
<1>1. StoreInv'
  BY DEF Damage, CarefulInv, StoreInv, StoreTypeOK, CopyIsCurrent, CopyIsOneStepAhead
<1>2. Latest' = Latest
  BY DEF Damage, Latest
<1>3. receipts # {}
  BY TellingOfSomething DEF CarefulInv, Damage
<1> QED BY <1>1, <1>2, <1>3 DEF Damage, CarefulInv

LEMMA CarefulStep ==
  ASSUME CarefulInv, [RecoveryNext]_recoveryVars, [Careful]_recoveryVars
  PROVE  CarefulInv'
<1>1. CASE UNCHANGED recoveryVars
  <2>1. UNCHANGED storeVars /\ UNCHANGED damaged
    BY <1>1 DEF recoveryVars
  <2>2. StoreInv'
    BY <2>1, NextKeepsInv DEF CarefulInv
  <2>3. Latest' = Latest
    BY <2>1 DEF storeVars, Latest
  <2> QED BY <2>1, <2>2, <2>3 DEF storeVars, CarefulInv
<1>2. CASE SaveSnapshot
  <2>1. StoreInv'
    BY <1>2, SaveKeepsInv DEF SaveSnapshot, CarefulInv
  <2>2. Latest' = Latest /\ work'.step = "idle" /\ ~damaged'
    BY <1>2 DEF SaveSnapshot, Save, Latest, Idle
  <2> QED BY <1>2, <2>1, <2>2 DEF SaveSnapshot, Save, CarefulInv
<1> QED BY <1>1, <1>2, CarefulAcquire, CarefulOperation, CarefulDamage
        DEF RecoveryNext, Careful

LEMMA InitialCareful == RecoveryInit => CarefulInv
  BY InitialRecoveryInv DEF RecoveryInit, StoreInit, RecoveryInv, CarefulInv, Intact

(* However often the snapshot is damaged, processes die or fail before    *)
(* their receipt and locks are left: the receipts rebuild it, and the      *)
(* store stays a turn ledger, as long as no receipt is orphaned and the    *)
(* clock not set back (core/src/lib.rs, load_snapshot_unlocked).           *)
THEOREM CarefulFaultsAreRecovered ==
    RecoverySpec /\ [][Careful]_recoveryVars
      => []ReceiptsRebuildTheStore /\ ImplementsTurns
<1>1. CarefulInv => ReceiptsRebuildTheStore
  BY CarefulIsReadable DEF ReceiptsRebuildTheStore, Latest
<1>2. RecoveryInit => Turns!TurnsInit
  BY DEF RecoveryInit, StoreInit, EmptyStore, Turns!TurnsInit
<1>3. CarefulInv /\ [RecoveryNext]_recoveryVars => [Turns!TurnsNext]_(store.ledger)
  BY CarefulAcquire, SnapshotStepsAreTurns DEF CarefulInv
<1>4. CarefulInv /\ [RecoveryNext]_recoveryVars /\ [Careful]_recoveryVars => CarefulInv'
  BY CarefulStep
<1> QED BY <1>1, <1>2, <1>3, <1>4, InitialCareful, PTL
    DEF RecoverySpec, ImplementsTurns, Turns!TurnsSpec
==============================================================================
