----------------------------- MODULE HarnessTurns -----------------------------
(***************************************************************************)
(* What the agent harness promises about its units, without files, locks   *)
(* or processes: a unit is called once, under a parent that is not         *)
(* retired; it runs one turn at a time; only the turn that is active is    *)
(* completed; retirement ends the active turn and is final.                *)
(* (core/README.md, "Store Shape"; daemon/src/turn.rs.)                    *)
(* An operation relates the ledger l before it and the ledger m after it.  *)
(***************************************************************************)
EXTENDS Naturals

CONSTANTS
    Units,        \* unit ids
    TurnIds,      \* turn ids: the caller chooses them
    NoUnit,       \* the parent of a root unit; not a unit
    NoTurn        \* no active turn; not a turn id

ASSUME HarnessAssumption == NoUnit \notin Units /\ NoTurn \notin TurnIds

VARIABLE ledger   \* per unit: its lifecycle state, active turn and counters

RestStates == {"ready", "waiting", "done"}
LifecycleStates == {"none", "born", "running", "retired"} \cup RestStates

NotCalled == [state |-> "none", active |-> NoTurn, parent |-> NoUnit,
              started |-> 0, completed |-> 0]
Newborn(p) == [state |-> "born", active |-> NoTurn, parent |-> p,
               started |-> 0, completed |-> 0]

Alive(l, u) == l[u].state \notin {"none", "retired"}

Call(l, m, u, p) ==
    /\ l[u].state = "none"
    /\ p # NoUnit => p # u /\ Alive(l, p)
    /\ m = [l EXCEPT ![u] = Newborn(p)]

StartTurn(l, m, u, t) ==
    /\ Alive(l, u)
    /\ l[u].active = NoTurn
    /\ m = [l EXCEPT ![u].state = "running", ![u].active = t,
                     ![u].started = @ + 1]

CompleteTurn(l, m, u, t, next) ==
    /\ Alive(l, u)
    /\ l[u].active = t
    /\ m = [l EXCEPT ![u].state = next, ![u].active = NoTurn,
                     ![u].completed = @ + 1]

Retire(l, m, u) ==
    /\ Alive(l, u)
    /\ m = [l EXCEPT ![u].state = "retired", ![u].active = NoTurn]

TurnStep(l, m) ==
    \E u \in Units :
      \/ \E p \in Units \cup {NoUnit} : Call(l, m, u, p)
      \/ \E t \in TurnIds : StartTurn(l, m, u, t)
      \/ \E t \in TurnIds, next \in RestStates : CompleteTurn(l, m, u, t, next)
      \/ Retire(l, m, u)

TurnsInit == ledger = [u \in Units |-> NotCalled]
TurnsNext == TurnStep(ledger, ledger')
TurnsSpec == TurnsInit /\ [][TurnsNext]_ledger
===============================================================================
