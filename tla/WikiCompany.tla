------------------------------ MODULE WikiCompany ------------------------------
(***************************************************************************)
(* The context engine's wiki company (agent_execution.rs): an invocation   *)
(* of the engine loads the state of a run, executes the turns of the ready *)
(* phases one after the other, and saves the state as it goes.  Several    *)
(* invocations may work on one run at once and each may die anywhere.      *)
(*                                                                         *)
(* A turn starts in the harness, runs a Codex worker, puts the worker's    *)
(* text on a talk page and mails it, and completes in the harness; then    *)
(* its artifact is written and the run state saved.  Unit, turn, talk      *)
(* entry, mail key and artifact are all named after the operation, so a    *)
(* second attempt meets what the first one left.  A text is named by its   *)
(* attempt: the model never writes the same one twice.                     *)
(***************************************************************************)
EXTENDS HarnessTurns, PhaseGraph

CONSTANTS
    Engines,      \* invocations that may be under way at once
    DependsOn,    \* the plan's phase graph
    PhaseOf,      \* the phase an operation belongs to
    Needs,        \* the operations whose artifacts a job requires
    Imported,     \* phases the engine completes itself when it loads a run
    MaxAgents,    \* turns per invocation
    MaxTurns,     \* bound: turns of each unit
    MaxCrashes    \* bound: invocations that die

Ops == TurnIds    \* operation ids; one unit and one turn id for each

ASSUME CompanyAssumption ==
    /\ Ops = Units /\ Ops \subseteq Nat
    /\ PhaseOf \in [Ops -> Phases] /\ Needs \in [Ops -> SUBSET Ops]
    /\ DependsOn \in Graphs /\ Imported \subseteq Phases
    /\ MaxTurns \in [Ops -> Nat] /\ MaxCrashes \in Nat

VARIABLES
    engine,       \* per invocation: where it is and what it has in memory
    runState,     \* run.json: completed phases and known artifacts
    stale,        \* units whose last activity is a worker timeout ago
    talk,         \* per operation: the attempt whose text is on the page, or 0
    mail,         \* per operation: the attempt whose text was accepted, or 0
    artifact,     \* per operation: the attempt the artifact file tells of, or 0
    crashes

companyVars ==
    <<ledger, engine, runState, stale, talk, mail, artifact, crashes>>
files == <<talk, mail, artifact>>

EmptyState == [phases |-> {}, artifacts |-> {}]
Off == [at |-> "off", memory |-> EmptyState, runnable |-> {}, todo |-> {},
        done |-> {}, op |-> NoTurn, attempt |-> 0, worked |-> FALSE,
        mailed |-> FALSE]

CompanyInit ==
    /\ TurnsInit
    /\ engine = [e \in Engines |-> Off]
    /\ runState = EmptyState
    /\ stale = {}
    /\ talk = [o \in Ops |-> 0]
    /\ mail = [o \in Ops |-> 0]
    /\ artifact = [o \in Ops |-> 0]
    /\ crashes = 0

At(e, place) == engine[e].at = place
Op(e) == engine[e].op
Go(e, place) == engine' = [engine EXCEPT ![e] = [@ EXCEPT !.at = place]]
NextOp(e) ==
    engine' = [engine EXCEPT ![e] = [@ EXCEPT !.at = "pick", !.op = NoTurn]]

LoadState(e) ==
    /\ At(e, "off")
    /\ engine' = [engine EXCEPT ![e] = [Off EXCEPT !.at = "plan", !.memory = runState]]
    /\ UNCHANGED <<ledger, runState, stale, files, crashes>>

(* build_live_runtime_scaffold: the source packet is written once per run, *)
(* and the schedule follows from what is then completed and available.     *)
Runnable(state) ==
    {o \in Ops : /\ PhaseOf[o] \in ReadyPhases(DependsOn, state.phases)
                 /\ Needs[o] \subseteq state.artifacts}

FirstOf(ops) ==
    {o \in ops : Cardinality({x \in ops : x < o}) < MaxAgents}

PlanTurns(e) ==
    /\ At(e, "plan")
    /\ LET memory == [engine[e].memory EXCEPT !.phases = @ \cup Imported]
           runnable == Runnable(memory)
       IN  /\ engine' = [engine EXCEPT ![e] =
                           [@ EXCEPT !.at = "pick", !.memory = memory,
                                     !.runnable = runnable,
                                     !.todo = FirstOf(runnable)]]
           /\ runState' = IF Imported \subseteq engine[e].memory.phases
                          THEN runState ELSE memory
    /\ UNCHANGED <<ledger, stale, files, crashes>>

(* call() is idempotent for the same birth inputs.                         *)
BirthUnit(e) ==
    /\ At(e, "pick")
    /\ \E o \in engine[e].todo :
         /\ \A x \in engine[e].todo : o <= x
         /\ engine' = [engine EXCEPT ![e] =
                         [@ EXCEPT !.at = "start", !.op = o,
                                   !.todo = engine[e].todo \ {o}]]
         /\ \/ Call(ledger, ledger', o, NoUnit)
            \/ ledger[o].state # "none" /\ UNCHANGED ledger
    /\ UNCHANGED <<runState, stale, files, crashes>>

Active(o) == ledger[o].active = o

Begin(e) ==
    /\ ledger[Op(e)].started < MaxTurns[Op(e)]
    /\ StartTurn(ledger, ledger', Op(e), Op(e))
    /\ engine' = [engine EXCEPT ![e] =
                    [@ EXCEPT !.at = "working", !.worked = FALSE, !.mailed = FALSE,
                              !.attempt = ledger[Op(e)].started + 1]]
    /\ stale' = stale \ {Op(e)}
    /\ UNCHANGED <<runState, files, crashes>>

Start(e) ==
    /\ At(e, "start")
    /\ \/ Begin(e)
       \/ /\ Active(Op(e))
          /\ Go(e, "inspect")
          /\ UNCHANGED <<ledger, runState, stale, files, crashes>>

(* agent_status is read without the lock, after start_turn was refused.    *)
InspectActiveTurn(e) ==
    /\ At(e, "inspect")
    /\ IF Op(e) \in stale THEN Go(e, "recover") ELSE NextOp(e)
    /\ UNCHANGED <<ledger, runState, stale, files, crashes>>

Complete(o) == CompleteTurn(ledger, ledger', o, o, "ready")

RecoverStaleTurn(e) ==
    /\ At(e, "recover")
    /\ Complete(Op(e))
    /\ Go(e, "restart")
    /\ UNCHANGED <<runState, stale, files, crashes>>

Restart(e) ==
    /\ At(e, "restart")
    /\ Begin(e)

(* The worker answers; worked: with status "completed".                    *)
WorkerAnswers(e, worked) ==
    /\ At(e, "working")
    /\ engine' = [engine EXCEPT ![e] = [@ EXCEPT !.at = "talk", !.worked = worked]]
    /\ stale' = stale \ {Op(e)}
    /\ UNCHANGED <<ledger, runState, files, crashes>>

(* The worker, the talk page or a call to the harness fails: the turn is    *)
(* active or not, or somebody holds the store's lock.  A turn that has      *)
(* started is then completed for cleanup, unless that call fails, too.     *)
GiveUp(e) ==
    /\ engine[e].at \in {"start", "restart", "recover", "working", "talk", "complete"}
    /\ NextOp(e)
    /\ \/ UNCHANGED ledger
       \/ engine[e].at \in {"working", "talk", "complete"} /\ Complete(Op(e))
    /\ UNCHANGED <<runState, stale, files, crashes>>

AppendTalk(e) ==
    /\ At(e, "talk")
    /\ talk' = [talk EXCEPT ![Op(e)] = IF @ = 0 THEN engine[e].attempt ELSE @]
    /\ Go(e, "mail")
    /\ UNCHANGED <<ledger, runState, stale, mail, artifact, crashes>>

(* The operation id is the idempotency key: another text under it is       *)
(* refused, and append_talk answers appended_delivery_failed.              *)
MutMailReport(e) ==
    /\ At(e, "mail")
    /\ engine' = [engine EXCEPT ![e] =
                    [@ EXCEPT !.at = "complete", !.mailed = TRUE]]
    /\ UNCHANGED <<ledger, runState, stale, talk, mail, artifact, crashes>>
MailReport(e) ==
    LET accepted == mail[Op(e)] \in {0, engine[e].attempt}
    IN  /\ At(e, "mail")
        /\ engine' = [engine EXCEPT ![e] =
                        [@ EXCEPT !.at = "complete", !.mailed = accepted]]
        /\ mail' = IF accepted THEN [mail EXCEPT ![Op(e)] = engine[e].attempt]
                   ELSE mail
        /\ UNCHANGED <<ledger, runState, stale, talk, artifact, crashes>>

(* evaluate_harness_turn_completion wants the worker's status and the mail *)
(* receipt; the turn is completed in the harness in any case.              *)
CompleteHarnessTurn(e) ==
    LET complete == engine[e].worked /\ engine[e].mailed
    IN  /\ At(e, "complete")
        /\ Complete(Op(e))
        /\ IF complete
           THEN engine' = [engine EXCEPT ![e] =
                             [@ EXCEPT !.at = "artifact",
                                       !.done = engine[e].done \cup {Op(e)}]]
           ELSE NextOp(e)
        /\ UNCHANGED <<runState, stale, files, crashes>>

(* write_json looks for the file before it writes it; another value under  *)
(* the same key is refused, and the failure is only reported.              *)
LookForArtifact(e) ==
    /\ At(e, "artifact")
    /\ IF artifact[Op(e)] \in {0, engine[e].attempt}
       THEN Go(e, "write") ELSE NextOp(e)
    /\ UNCHANGED <<ledger, runState, stale, files, crashes>>

WriteArtifact(e) ==
    /\ At(e, "write")
    /\ artifact' = [artifact EXCEPT ![Op(e)] = engine[e].attempt]
    /\ LET memory == [engine[e].memory EXCEPT !.artifacts = @ \cup {Op(e)}]
       IN  engine' = [engine EXCEPT ![e] =
                        [@ EXCEPT !.at = "save", !.memory = memory]]
    /\ UNCHANGED <<ledger, runState, stale, talk, mail, crashes>>

SaveState(e) ==
    /\ At(e, "save")
    /\ runState' = engine[e].memory
    /\ NextOp(e)
    /\ UNCHANGED <<ledger, stale, files, crashes>>

MutFinished(e, p) ==
    \E o \in engine[e].runnable : PhaseOf[o] = p /\ o \in engine[e].done
Finished(e, p) ==
    LET turns == {o \in engine[e].runnable : PhaseOf[o] = p}
    IN  turns # {} /\ turns \subseteq engine[e].done

CompleteBatchPhases(e) ==
    LET phases == {p \in Phases : Finished(e, p)}
    IN  /\ At(e, "pick")
        /\ engine[e].todo = {}
        /\ engine' = [engine EXCEPT ![e] = Off]
        /\ runState' = IF engine[e].done = {} THEN runState
                       ELSE [engine[e].memory EXCEPT !.phases = @ \cup phases]
        /\ UNCHANGED <<ledger, stale, files, crashes>>

Crash(e) ==
    /\ ~At(e, "off")
    /\ crashes < MaxCrashes
    /\ crashes' = crashes + 1
    /\ engine' = [engine EXCEPT ![e] = Off]
    /\ UNCHANGED <<ledger, runState, stale, files>>

(* A worker timeout passes since the unit's last activity; a worker that   *)
(* is still at work may be that slow, too.  (Bound: not in the last turn.) *)
GoStale(o) ==
    /\ Active(o)
    /\ o \notin stale
    /\ ledger[o].started < MaxTurns[o]
    /\ stale' = stale \cup {o}
    /\ UNCHANGED <<ledger, engine, runState, files, crashes>>

EngineStep(e) ==
    \/ LoadState(e) \/ PlanTurns(e) \/ BirthUnit(e)
    \/ Start(e) \/ InspectActiveTurn(e) \/ RecoverStaleTurn(e) \/ Restart(e)
    \/ \E worked \in BOOLEAN : WorkerAnswers(e, worked)
    \/ GiveUp(e)
    \/ AppendTalk(e) \/ MailReport(e) \/ CompleteHarnessTurn(e)
    \/ LookForArtifact(e) \/ WriteArtifact(e) \/ SaveState(e)
    \/ CompleteBatchPhases(e)

CompanyNext ==
    \/ \E e \in Engines : EngineStep(e) \/ Crash(e)
    \/ \E o \in Ops : GoStale(o)

CompanySpec == CompanyInit /\ [][CompanyNext]_companyVars

-----------------------------------------------------------------------------
Places == {"off", "plan", "pick", "start", "inspect", "recover", "restart",
           "working", "talk", "mail", "complete", "artifact", "write", "save"}
States == [phases : SUBSET Phases, artifacts : SUBSET Ops]

(* Every plan, not only the one of the run: checked before the first save. *)
SchedulerIsSound == runState = EmptyState => PhaseOrderIsSound

(* Types; and an invocation is at an operation between its start and its   *)
(* save, one that its schedule made runnable.                              *)
Invocations == [at : Places, memory : States, runnable : SUBSET Ops,
                todo : SUBSET Ops, done : SUBSET Ops, op : Ops \cup {NoTurn},
                attempt : Nat, worked : BOOLEAN, mailed : BOOLEAN]
Ledgers == [Units -> [state : LifecycleStates, active : TurnIds \cup {NoTurn},
                      parent : Units \cup {NoUnit},
                      started : Nat, completed : Nat]]
BetweenOps == {"off", "plan", "pick"}
CompanyTypeOK ==
    /\ ledger \in Ledgers
    /\ engine \in [Engines -> Invocations]
    /\ runState \in States
    /\ stale \subseteq Ops
    /\ talk \in [Ops -> Nat] /\ mail \in [Ops -> Nat] /\ artifact \in [Ops -> Nat]
    /\ crashes \in Nat
    /\ \A e \in Engines : Op(e) = NoTurn <=> engine[e].at \in BetweenOps

(* A phase the run state calls completed has had each of its unconditional *)
(* turns completed in the harness, with its text on the talk page and in   *)
(* the mailboxes, whatever invocations overlapped, died or were repeated.  *)
(* (agent_execution.rs, complete_batch_phases; "codex exit status alone is *)
(* not a completion receipt": harness_executor.rs.)                        *)
CompletedPhasesReported ==
    \A p \in runState.phases \ Imported, o \in Ops :
      PhaseOf[o] = p /\ Needs[o] = {} =>
        /\ ledger[o].completed > 0
        /\ talk[o] # 0 /\ mail[o] # 0

(* No overlap of invocations makes the saved state skip a phase, although  *)
(* each save overwrites what others saved since it loaded.                 *)
CompletedInOrder ==
    \A p \in runState.phases \ Imported : DependsOn[p] \subseteq runState.phases

(* An artifact the scheduler sees exists, and so does the mail it tells of.*)
KnownArtifactsExist ==
    \A o \in runState.artifacts : artifact[o] # 0 /\ mail[o] # 0
===============================================================================
