---------------------------- MODULE HarnessRecovery ----------------------------
(***************************************************************************)
(* The harness store when its snapshot may become unreadable: loading it   *)
(* then replays the receipt files, ordered by their timestamps, and the    *)
(* next save writes a readable snapshot again.  store is what was saved    *)
(* last, also while the file on disk is damaged.                           *)
(***************************************************************************)
EXTENDS HarnessStore, FiniteSets

VARIABLE damaged  \* agent-harness.json does not parse or validate

recoveryVars == <<storeVars, damaged>>

(* What a replay makes of the ledger so far, or Failed: a ledger of no unit *)
(* there is, so it is none.                                                *)
Failed == [u \in {NoUnit} |-> Turns!NotCalled]

ReplayTurnStarted(l, r) ==
    IF l[r.unit].state \in {"none", "retired"} \/ l[r.unit].active # NoTurn
    THEN Failed
    ELSE [l EXCEPT ![r.unit].state = "running", ![r.unit].active = r.arg,
                   ![r.unit].started = @ + 1]

MutReplayTurnCompleted(l, r) ==
    [l EXCEPT ![r.unit].state = "ready", ![r.unit].active = NoTurn,
              ![r.unit].completed = @ + 1]
ReplayTurnCompleted(l, r) ==
    IF l[r.unit].state \in {"none", "retired"} \/ l[r.unit].active # r.arg[1]
    THEN Failed
    ELSE [l EXCEPT ![r.unit].state = r.arg[2], ![r.unit].active = NoTurn,
                   ![r.unit].completed = @ + 1]

ReplayReceipt(l, r) ==
    IF l = Failed THEN Failed
    ELSE CASE r.kind = "called" ->
                IF l[r.unit].state # "none" THEN l
                ELSE [l EXCEPT ![r.unit] = Turns!Newborn(r.arg)]
           [] r.kind = "retired" ->
                IF l[r.unit].state = "none" THEN Failed
                ELSE [l EXCEPT ![r.unit].state = "retired", ![r.unit].active = NoTurn]
           [] r.kind = "turn-started" -> ReplayTurnStarted(l, r)
           [] r.kind = "turn-completed" -> ReplayTurnCompleted(l, r)
           [] OTHER -> l

(* Receipts are ordered by time, then by id.                               *)
Earlier(r, s) == r.at < s.at \/ (r.at = s.at /\ r.seq < s.seq)
Newest(R) == CHOOSE r \in R : \A s \in R : ~Earlier(r, s)

(* What all receipts of R tell, the newest last.                           *)
Replay(R) ==
    LET told[S \in SUBSET R] ==
          IF S = {} THEN EmptyStore.ledger
          ELSE ReplayReceipt(told[S \ {Newest(S)}], Newest(S))
    IN  told[R]
Replayed == Replay(receipts)

HighestSequence == CHOOSE n \in {r.seq : r \in receipts} :
                     \A r \in receipts : r.seq <= n

(* validate(): no receipt id twice, every parent there.                    *)
Valid(l) ==
    /\ l # Failed
    /\ Cardinality({<<r.seq, r.kind>> : r \in receipts}) = Cardinality(receipts)
    /\ \A u \in Units : l[u].parent # NoUnit => l[l[u].parent].state # "none"

Readable == ~damaged \/ (receipts # {} /\ Valid(Replayed))
Rebuilt == [ledger |-> Replayed, seq |-> HighestSequence]

RecoveryInit == StoreInit /\ damaged = FALSE

AcquireRecovered ==
    /\ Readable
    /\ Acquire(IF damaged THEN Rebuilt ELSE store)
    /\ UNCHANGED damaged

SaveSnapshot == Save /\ damaged' = FALSE

Damage ==
    /\ store # EmptyStore
    /\ ~damaged
    /\ faults < MaxFaults
    /\ faults' = faults + 1
    /\ damaged' = TRUE
    /\ UNCHANGED <<store, receipts, lock, work, clock>>

(* The system clock is set back.                                           *)
SetClockBack ==
    /\ faults < MaxFaults
    /\ clock > 0
    /\ faults' = faults + 1
    /\ clock' \in 0..clock - 1
    /\ UNCHANGED <<store, receipts, lock, work, damaged>>

RecoveryNext ==
    \/ AcquireRecovered
    \/ Operate /\ UNCHANGED damaged
    \/ SaveSnapshot
    \/ Damage
    \/ SetClockBack

RecoverySpec == RecoveryInit /\ [][RecoveryNext]_recoveryVars

(* While the snapshot cannot be read, the receipts tell exactly what it    *)
(* said: every unit, its state, active turn and counters, and the sequence *)
(* that keeps ids unique.  Between receipt and save they may already tell  *)
(* of the operation in progress.  (core/README.md: "written as separate    *)
(* durable artifacts so inventory and proof evidence can be reconstructed  *)
(* if the snapshot is corrupt".)                                           *)
ReceiptsRebuildTheStore ==
    damaged =>
      /\ Readable
      /\ \/ Rebuilt = store
         \/ work.step = "recorded" /\ Rebuilt = work.snap
================================================================================
