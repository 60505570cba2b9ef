----------------------------- MODULE MCWikiCompany -----------------------------
(* Model-checking instances of WikiCompany.                                *)
EXTENDS WikiCompany, TLC

(* Phase 1 imports, phase 2 has two turns, phase 3 one that needs both.    *)
MCDependsOn == [p \in 1..3 |-> 1..p - 1 \ {p - 2}]
MCPhaseOf == [o \in 1..3 |-> IF o = 3 THEN 3 ELSE 2]
MCNeeds == [o \in 1..3 |-> IF o = 3 THEN {1} ELSE {}]

(* One unit is retried, the others have one turn each.                     *)
MCMaxTurns == [o \in 1..3 |-> IF o = 1 THEN 2 ELSE 1]

EngineSymmetry == Permutations(Engines)
===============================================================================
