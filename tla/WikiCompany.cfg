SPECIFICATION CompanySpec
CONSTANTS
    Units = {1, 2, 3}
    TurnIds = {1, 2, 3}
    NoUnit = 0
    NoTurn = 0
    PhaseCount = 3
    Engines = {e1, e2}
    DependsOn <- MCDependsOn
    PhaseOf <- MCPhaseOf
    Needs <- MCNeeds
    Imported = {1}
    MaxAgents = 3
    MaxTurns <- MCMaxTurns
    MaxCrashes = 1
SYMMETRY EngineSymmetry
CHECK_DEADLOCK FALSE
INVARIANTS
    CompletedPhasesReported
    CompletedInOrder
    KnownArtifactsExist
    SchedulerIsSound
