------------------------------ MODULE PhaseGraph ------------------------------
(***************************************************************************)
(* The scheduler's analysis of an orchestration plan (scheduler.rs):       *)
(* Kahn's order over the phases, the phases that an unknown dependency     *)
(* spoils, those behind a cycle, and the phases that are ready once others *)
(* are completed.  Phases are numbered by their position in the plan.      *)
(***************************************************************************)
EXTENDS Naturals, FiniteSets, Sequences, FiniteSetsExt

CONSTANTS
    PhaseCount    \* how many phases a plan has

ASSUME PhaseAssumption == PhaseCount \in Nat \ {0}

Phases == 1..PhaseCount
Unknown == 0      \* a dependency that names no phase of the plan

(* A plan's graph g: what each phase depends on.                           *)
Graphs == [Phases -> SUBSET (Phases \cup {Unknown})]

Missing(g) == {p \in Phases : Unknown \in g[p]}

(* One turn of the loop: the queued phase first in the plan is ordered and *)
(* lowers the dependency counts of those behind it.                        *)
MutPop(g, s) ==
    LET current == Min(s.queue)
        left == [p \in Phases |-> IF current \in g[p] THEN s.left[p] - 1 ELSE s.left[p]]
    IN  [order |-> Append(s.order, current),
         left |-> left,
         queue |-> (s.queue \ {current}) \cup {p \in Phases : current \in g[p] /\ left[p] = 0}]
Pop(g, s) ==
    LET current == Min(s.queue)
        behind == {p \in Phases : current \in g[p]}
        left == [p \in Phases |->
                   IF p \in behind THEN s.left[p] - 1 ELSE s.left[p]]
    IN  [order |-> Append(s.order, current),
         left |-> left,
         queue |-> (s.queue \ {current})
                     \cup {p \in behind : left[p] = 0 /\ p \notin Missing(g)}]

PhaseOrder(g) ==
    LET start == [order |-> <<>>,
                  left |-> [p \in Phases |-> Cardinality(g[p] \cap Phases)],
                  queue |-> {p \in Phases : g[p] = {}}]
        run[n \in 0..PhaseCount] ==
          IF n = 0 THEN start
          ELSE IF run[n - 1].queue = {} THEN run[n - 1] ELSE Pop(g, run[n - 1])
    IN  run[PhaseCount].order

Ordered(g) == {PhaseOrder(g)[i] : i \in DOMAIN PhaseOrder(g)}

InvalidPhases(g) ==
    LET spread[n \in 0..PhaseCount] ==
          IF n = 0 THEN Missing(g)
          ELSE spread[n - 1] \cup {p \in Phases : g[p] \cap spread[n - 1] # {}}
    IN  spread[PhaseCount]

CyclePhases(g) == Phases \ (Ordered(g) \cup InvalidPhases(g))

(* blocked_by is empty and the phase is not completed.                     *)
MutReadyPhases(g, completed) == (Phases \ completed) \cap Ordered(g)
ReadyPhases(g, completed) ==
    {p \in Phases \ completed :
       g[p] \subseteq completed /\ p \notin InvalidPhases(g) \cup CyclePhases(g)}

-----------------------------------------------------------------------------
(* The reference definition: what a phase depends on, however far away.    *)
Upstream(g, p) ==
    {q \in Phases \cup {Unknown} :
       \A S \in SUBSET (Phases \cup {Unknown}) :
         (g[p] \subseteq S /\ \A x \in S \cap Phases : g[x] \subseteq S) => q \in S}

OnCycle(g) == {p \in Phases : p \in Upstream(g, p)}

(* For every plan: a phase has an unknown dependency somewhere upstream,   *)
(* or a cycle, or it has a place in the order; every phase comes after     *)
(* those it depends on; and completing phases as they become ready gets    *)
(* through exactly the phases in the order.                                *)
PhaseOrderIsSound ==
    \A g \in Graphs :
      LET order == PhaseOrder(g)
          reached[n \in 0..PhaseCount] ==
            IF n = 0 THEN {} ELSE reached[n - 1] \cup ReadyPhases(g, reached[n - 1])
      IN  /\ InvalidPhases(g) = {p \in Phases : Unknown \in Upstream(g, p)}
          /\ CyclePhases(g) = {p \in Phases \ InvalidPhases(g) :
                                 (Upstream(g, p) \cup {p}) \cap OnCycle(g) # {}}
          /\ \A i, j \in DOMAIN order : i < j => order[j] \notin g[order[i]] \cup {order[i]}
          /\ reached[PhaseCount] = Ordered(g)
===============================================================================
