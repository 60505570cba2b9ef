----------------------------- MODULE HarnessStore -----------------------------
(***************************************************************************)
(* The agent harness store: a JSON snapshot of every unit, one receipt     *)
(* file per operation, and a lock file that its creator removes.           *)
(*                                                                         *)
(* An operation takes the lock and loads the snapshot, writes its receipt, *)
(* and saves the new snapshot; the process may die, or a write fail,       *)
(* between any two of these.  A process that dies leaves its lock file:    *)
(* everybody is refused (StoreLocked) until a person removes it.           *)
(***************************************************************************)
EXTENDS Naturals

CONSTANTS
    Units, TurnIds, NoUnit, NoTurn,   \* as in HarnessTurns
    MaxSeq,       \* bound: host-generated sequence numbers
    MaxFaults     \* bound: deaths, failed writes and other damage

ASSUME StoreAssumption == NoUnit \notin Units /\ MaxFaults \in Nat

VARIABLES
    store,        \* agent-harness.json: the ledger and generated_id_sequence
    receipts,     \* units/<unit>/receipts/<id>.json, id = sequence and kind
    lock,         \* agent-harness.lock: "free", "held" or "abandoned"
    work,         \* what the holder of the lock has in memory
    clock,        \* Utc::now()
    faults        \* faults so far

storeVars == <<store, receipts, lock, work, clock, faults>>

Kinds == {"called", "turn-started", "turn-completed", "retired",
          "proof-observed"}

Turns == INSTANCE HarnessTurns WITH ledger <- store.ledger

EmptyStore == [ledger |-> [u \in Units |-> Turns!NotCalled], seq |-> 0]
Idle == [step |-> "idle", snap |-> EmptyStore]

StoreInit ==
    /\ store = EmptyStore
    /\ receipts = {}
    /\ lock = "free"
    /\ work = Idle
    /\ clock = 0
    /\ faults = 0

Acquire(snapshot) ==
    /\ lock = "free"
    /\ lock' = "held"
    /\ work' = [step |-> "loaded", snap |-> snapshot]
    /\ UNCHANGED <<store, receipts, clock, faults>>

(* The receipt is on disk, the snapshot that tells of it only in memory.   *)
(* width: how many sequence numbers the operation uses up.                 *)
Record(ledger, kind, u, arg, width) ==
    LET seq == work.snap.seq + width
        id(r) == <<r.unit, r.seq, r.kind>>
        receipt == [unit |-> u, seq |-> seq, kind |-> kind, arg |-> arg,
                    at |-> clock + 1]
    IN  /\ seq <= MaxSeq
        /\ work' = [step |-> "recorded", snap |-> [ledger |-> ledger, seq |-> seq]]
        /\ receipts' = {r \in receipts : id(r) # id(receipt)} \cup {receipt}
        /\ clock' = clock + 1
        /\ UNCHANGED <<store, lock, faults>>

Loaded == work.step = "loaded"
Unit(u) == work.snap.ledger[u]
Accepts(u) == Unit(u).state \notin {"none", "retired"}

CallUnit(u, parent) ==
    /\ Loaded
    /\ Unit(u).state = "none"
    /\ parent # NoUnit => parent # u /\ Accepts(parent)
    /\ Record([work.snap.ledger EXCEPT
                 ![u] = [state |-> "born", active |-> NoTurn, parent |-> parent,
                         started |-> 0, completed |-> 0]],
              "called", u, parent, 1)

StartTurn(u, turn) ==
    /\ Loaded
    /\ Accepts(u)
    /\ Unit(u).active = NoTurn
    /\ Record([work.snap.ledger EXCEPT
                 ![u].state = "running", ![u].active = turn, ![u].started = @ + 1],
              "turn-started", u, turn, 1)

MutCompleteTurn(u, turn, next) ==
    /\ Loaded
    /\ Accepts(u)
    /\ Record([work.snap.ledger EXCEPT
                 ![u].state = next, ![u].active = NoTurn, ![u].completed = @ + 1],
              "turn-completed", u, <<turn, next>>, 1)
CompleteTurn(u, turn, next) ==
    /\ Loaded
    /\ Accepts(u)
    /\ Unit(u).active = turn
    /\ Record([work.snap.ledger EXCEPT
                 ![u].state = next, ![u].active = NoTurn, ![u].completed = @ + 1],
              "turn-completed", u, <<turn, next>>, 1)

Retire(u) ==
    /\ Loaded
    /\ Accepts(u)
    /\ Record([work.snap.ledger EXCEPT ![u].state = "retired", ![u].active = NoTurn],
              "retired", u, NoTurn, 1)

(* Also on a retired unit; the event takes a sequence number of its own.   *)
RecordAdapterEvent(u) ==
    /\ Loaded
    /\ Unit(u).state # "none"
    /\ Record(work.snap.ledger, "proof-observed", u, NoTurn, 2)

(* The request is not acceptable, or was already carried out.              *)
Refuse ==
    /\ Loaded
    /\ lock' = "free"
    /\ work' = Idle
    /\ UNCHANGED <<store, receipts, clock, faults>>

Save ==
    /\ work.step = "recorded"
    /\ store' = work.snap
    /\ lock' = "free"
    /\ work' = Idle
    /\ UNCHANGED <<receipts, clock, faults>>

(* A write fails: the error drops the lock.  The process dies: it stays.   *)
Fail(left) ==
    /\ lock = "held"
    /\ faults < MaxFaults
    /\ faults' = faults + 1
    /\ lock' = left
    /\ work' = Idle
    /\ UNCHANGED <<store, receipts, clock>>

(* A person removes the lock file of a process that is gone.               *)
ClearAbandonedLock ==
    /\ lock = "abandoned"
    /\ lock' = "free"
    /\ UNCHANGED <<store, receipts, work, clock, faults>>

Operate ==
    \/ \E u \in Units :
         \/ \E parent \in Units \cup {NoUnit} : CallUnit(u, parent)
         \/ \E turn \in TurnIds : StartTurn(u, turn)
         \/ \E turn \in TurnIds, next \in Turns!RestStates :
              CompleteTurn(u, turn, next)
         \/ Retire(u)
         \/ RecordAdapterEvent(u)
    \/ Refuse
    \/ \E left \in {"free", "abandoned"} : Fail(left)
    \/ ClearAbandonedLock

StoreNext == Acquire(store) \/ Operate \/ Save

StoreSpec == StoreInit /\ [][StoreNext]_storeVars

(* Types.  Each conjunct has a name because the proofs cite them apart.    *)
Ledgers == [Units -> [state : Turns!LifecycleStates,
                      active : TurnIds \cup {NoTurn},
                      parent : Units \cup {NoUnit},
                      started : Nat, completed : Nat]]
Snapshots == [ledger : Ledgers, seq : Nat]
StoreTypeOK ==
    /\ store \in Snapshots
    /\ work \in [step : {"idle", "loaded", "recorded"}, snap : Snapshots]
    /\ lock \in {"free", "held", "abandoned"}
    /\ lock = "held" <=> work.step # "idle"
    /\ clock \in Nat
    /\ faults \in Nat

(* The holder's copy is the snapshot on disk, or one operation ahead of it *)
(* when its receipt is written.                                            *)
CopyIsCurrent == work.step = "loaded" => work.snap = store
CopyIsOneStepAhead ==
    work.step = "recorded" =>
      \/ work.snap.ledger = store.ledger
      \/ Turns!TurnStep(store.ledger, work.snap.ledger)

(* Whatever dies or fails, and whenever: each step of the store is an      *)
(* operation of the turn ledger or leaves it alone.  A receipt without its *)
(* snapshot, or a snapshot loaded before somebody else's save, would give  *)
(* a unit two turns at once or bring a retired one back.                   *)
ImplementsTurns == Turns!TurnsSpec
===============================================================================
