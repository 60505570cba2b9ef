--------------------------- MODULE WikiCompanyProofs ---------------------------
(***************************************************************************)
(* Proofs about WikiCompany, for every plan, any number of operations,     *)
(* invocations, turns and deaths.  The inductive invariant says what the   *)
(* place an invocation is at has already put on disk, and that nothing     *)
(* that is once on disk is ever taken away again; what an invocation has   *)
(* in memory is then as good as what the run state says.                   *)
(***************************************************************************)
EXTENDS WikiCompany, FiniteSetTheorems, WellFoundedInduction, TLAPS

(* What the run has on disk: it only grows.                                *)
Talked == {o \in Ops : talk[o] # 0}
Mailed == {o \in Ops : mail[o] # 0}
Written == {o \in Ops : artifact[o] # 0 /\ mail[o] # 0}
Reported == {o \in Ops : ledger[o].completed > 0 /\ talk[o] # 0 /\ mail[o] # 0}

Grows ==
    /\ Talked \subseteq Talked' /\ Mailed \subseteq Mailed'
    /\ Written \subseteq Written' /\ Reported \subseteq Reported'

(* A run state, saved or in memory, that tells no more than is on disk.    *)
Sound(s, reported, written) ==
    /\ \A p \in s.phases \ Imported, o \in Ops :
         PhaseOf[o] = p /\ Needs[o] = {} => o \in reported
    /\ \A p \in s.phases \ Imported : DependsOn[p] \subseteq s.phases
    /\ s.artifacts \subseteq written

(* What an invocation has scheduled, and what its place tells of.          *)
Scheduled(r) ==
    \A x \in r.runnable :
      /\ DependsOn[PhaseOf[x]] \subseteq r.memory.phases
      /\ \A o \in Ops : PhaseOf[o] = PhaseOf[x] /\ Needs[o] = {} => o \in r.runnable
Placed(r) == r.op = NoTurn <=> r.at \in BetweenOps
Reached(r, talked, mailed) ==
    /\ r.at \in {"working", "talk", "mail", "complete", "artifact", "write"}
         => r.attempt > 0
    /\ r.at \in {"mail", "complete", "artifact", "write", "save"} => r.op \in talked
    /\ r.at = "complete" /\ r.mailed => r.op \in mailed
    /\ r.at \in {"artifact", "write", "save"} => r.op \in mailed
Truthful(r, talked, mailed, reported, written) ==
    /\ Placed(r) /\ Scheduled(r) /\ Reached(r, talked, mailed)
    /\ Sound(r.memory, reported, written)
    /\ r.done \subseteq reported

Typed ==
    /\ ledger \in Ledgers
    /\ engine \in [Engines -> Invocations]
    /\ runState \in States
    /\ stale \subseteq Ops
    /\ talk \in [Ops -> Nat] /\ mail \in [Ops -> Nat] /\ artifact \in [Ops -> Nat]
    /\ crashes \in Nat
Fresh == \A u \in Units : ledger[u].state = "none" => ledger[u].completed = 0
CompanyInv ==
    /\ Typed
    /\ Fresh
    /\ Sound(runState, Reported, Written)
    /\ \A e \in Engines : Truthful(engine[e], Talked, Mailed, Reported, Written)

-----------------------------------------------------------------------------
(* What holds of a state or an invocation still holds when more is on disk.*)
LEMMA SoundPersists ==
  ASSUME NEW s, NEW R, NEW W, NEW R2, NEW W2, R \subseteq R2, W \subseteq W2,
         Sound(s, R, W)
  PROVE  Sound(s, R2, W2)
  BY DEF Sound

LEMMA TruthPersists ==
  ASSUME NEW r, NEW T, NEW M, NEW R, NEW W, NEW T2, NEW M2, NEW R2, NEW W2,
         T \subseteq T2, M \subseteq M2, R \subseteq R2, W \subseteq W2,
         Truthful(r, T, M, R, W)
  PROVE  Truthful(r, T2, M2, R2, W2)
<1>1. Sound(r.memory, R2, W2)
  BY SoundPersists DEF Truthful
<1>2. Reached(r, T2, M2)
  BY DEF Truthful, Reached
<1> QED BY <1>1, <1>2 DEF Truthful

(* An invocation moves from its record to the record r.                    *)
Moves(e, r) == r \in Invocations /\ engine' = [engine EXCEPT ![e] = r]

LEMMA MoveKeeps ==
  ASSUME CompanyInv, NEW e \in Engines, NEW r, Moves(e, r), Grows,
         ledger' \in Ledgers, Fresh', runState' \in States, stale' \subseteq Ops,
         talk' \in [Ops -> Nat], mail' \in [Ops -> Nat], artifact' \in [Ops -> Nat],
         crashes' \in Nat,
         Sound(runState', Reported', Written'),
         Truthful(r, Talked', Mailed', Reported', Written')
  PROVE  CompanyInv'
<1>1. engine' \in [Engines -> Invocations] /\ engine'[e] = r
      /\ \A x \in Engines \ {e} : engine'[x] = engine[x]
  BY DEF Moves, CompanyInv, Typed
<1>2. Typed'
  BY <1>1 DEF Typed
<1>3. ASSUME NEW x \in Engines
      PROVE  Truthful(engine'[x], Talked', Mailed', Reported', Written')
  <2>1. CASE x = e
    BY <2>1, <1>1
  <2>2. CASE x # e
    <3>1. Truthful(engine[x], Talked, Mailed, Reported, Written)
      BY DEF CompanyInv
    <3>2. Truthful(engine[x], Talked', Mailed', Reported', Written')
      BY <3>1, TruthPersists DEF Grows
    <3> QED BY <3>2, <2>2, <1>1
  <2> QED BY <2>1, <2>2
<1> QED BY <1>2, <1>3 DEF CompanyInv

-----------------------------------------------------------------------------
(* What the harness does for an operation.                                 *)
LedgerMoves ==
    /\ ledger' \in Ledgers /\ Fresh'
    /\ \A o \in Ops : ledger[o].completed > 0 => ledger'[o].completed > 0

LEMMA CallMoves ==
  ASSUME ledger \in Ledgers, Fresh, NEW o \in Ops, Call(ledger, ledger', o, NoUnit)
  PROVE  LedgerMoves
<1>1. ledger' = [ledger EXCEPT ![o] = Newborn(NoUnit)] /\ ledger[o].completed = 0
  BY CompanyAssumption DEF Call, Fresh
<1>2. Newborn(NoUnit) \in [state : LifecycleStates, active : TurnIds \cup {NoTurn},
                      parent : Units \cup {NoUnit}, started : Nat, completed : Nat]
  BY DEF Newborn, LifecycleStates
<1>3. ledger' \in Ledgers
  BY <1>1, <1>2, CompanyAssumption DEF Ledgers
<1>4. \A x \in Ops \ {o} : ledger'[x] = ledger[x]
  BY <1>1, CompanyAssumption DEF Ledgers
<1>5. ledger'[o].completed = 0
  BY <1>1, CompanyAssumption DEF Ledgers, Newborn
<1> QED BY <1>1, <1>3, <1>4, <1>5, CompanyAssumption DEF LedgerMoves, Fresh

LEMMA StartMoves ==
  ASSUME ledger \in Ledgers, Fresh, NEW o \in Ops, StartTurn(ledger, ledger', o, o)
  PROVE  LedgerMoves
<1>1. o \in Units /\ o \in TurnIds /\ Ops = Units
  BY CompanyAssumption DEF Ops
<1>2. ledger' \in Ledgers
  BY <1>1 DEF StartTurn, Ledgers, LifecycleStates
<1>3. ledger'[o].completed = ledger[o].completed /\ ledger'[o].state = "running"
  BY <1>1 DEF StartTurn, Ledgers
<1>4. \A x \in Units \ {o} : ledger'[x] = ledger[x]
  BY <1>1 DEF StartTurn, Ledgers
<1> QED BY <1>1, <1>2, <1>3, <1>4 DEF LedgerMoves, Fresh

LEMMA CompleteMoves ==
  ASSUME ledger \in Ledgers, Fresh, NEW o \in Ops, Complete(o)
  PROVE  LedgerMoves /\ ledger'[o].completed > 0
<1>1. o \in Units /\ o \in TurnIds /\ Ops = Units
  BY CompanyAssumption DEF Ops
<1>2. ledger' \in Ledgers
  BY <1>1 DEF Complete, CompleteTurn, Ledgers, LifecycleStates
<1>3. ledger'[o].completed > 0 /\ ledger'[o].state = "ready"
  BY <1>1 DEF Complete, CompleteTurn, Ledgers
<1>4. \A x \in Units \ {o} : ledger'[x] = ledger[x]
  BY <1>1 DEF Complete, CompleteTurn, Ledgers
<1> QED BY <1>1, <1>2, <1>3, <1>4 DEF LedgerMoves, Fresh

(* With no file changed, what is on disk grows with the ledger.            *)
LEMMA LedgerGrows ==
  ASSUME LedgerMoves, UNCHANGED files
  PROVE  Grows
  BY DEF LedgerMoves, files, Grows, Talked, Mailed, Written, Reported

LEMMA LedgerStays ==
  ASSUME CompanyInv, UNCHANGED ledger
  PROVE  LedgerMoves
  BY DEF CompanyInv, Typed, LedgerMoves, Fresh

(* A move that leaves the saved state and the files alone.                 *)
LEMMA QuietMove ==
  ASSUME CompanyInv, NEW e \in Engines, NEW r, Moves(e, r), LedgerMoves,
         stale' \subseteq Ops, crashes' \in Nat, UNCHANGED <<runState, files>>,
         Truthful(r, Talked, Mailed, Reported', Written)
  PROVE  CompanyInv'
<1>1. Grows /\ UNCHANGED files
  BY LedgerGrows DEF files
<1>2. Talked' = Talked /\ Mailed' = Mailed /\ Written' = Written
  BY DEF files, Talked, Mailed, Written
<1>3. Sound(runState', Reported', Written')
  BY <1>1, SoundPersists DEF CompanyInv, Grows
<1>4. Truthful(r, Talked', Mailed', Reported', Written')
  BY <1>2
<1>5. /\ ledger' \in Ledgers /\ Fresh' /\ runState' \in States
      /\ talk' \in [Ops -> Nat] /\ mail' \in [Ops -> Nat] /\ artifact' \in [Ops -> Nat]
  BY DEF CompanyInv, Typed, LedgerMoves, files
<1> QED BY <1>1, <1>3, <1>4, <1>5, MoveKeeps

(* An invocation that has scheduled nothing yet.                           *)
LEMMA IdleIsTruthful ==
  ASSUME NEW r, NEW T, NEW M, NEW R, NEW W,
         r.at \in BetweenOps, r.op = NoTurn, r.runnable = {}, r.done = {},
         Sound(r.memory, R, W)
  PROVE  Truthful(r, T, M, R, W)
<1>1. Placed(r) /\ Scheduled(r) /\ Reached(r, T, M)
  BY DEF Placed, Scheduled, BetweenOps, Reached
<1> QED BY <1>1 DEF Truthful

LEMMA OffIsTruthful ==
  ASSUME NEW T, NEW M, NEW R, NEW W
  PROVE  Off \in Invocations /\ Truthful(Off, T, M, R, W)
<1>1. Off \in Invocations
  BY DEF Off, Invocations, Places, EmptyState, States
<1>2. /\ Off.at \in BetweenOps /\ Off.op = NoTurn /\ Off.runnable = {}
      /\ Off.done = {} /\ Off.memory = EmptyState
  BY DEF Off, BetweenOps
<1>3. Sound(EmptyState, R, W)
  BY DEF EmptyState, Sound
<1> QED BY <1>1, <1>2, <1>3, IdleIsTruthful

LEMMA LoadKeeps ==
  ASSUME CompanyInv, NEW e \in Engines, LoadState(e)
  PROVE  CompanyInv'
<1> DEFINE r == [Off EXCEPT !.at = "plan", !.memory = runState]
<1>1. r \in Invocations
  BY DEF CompanyInv, Typed, Off, Invocations, Places
<1>2. /\ r.at \in BetweenOps /\ r.op = NoTurn /\ r.runnable = {}
      /\ r.done = {} /\ r.memory = runState
  BY DEF Off, BetweenOps
<1>3. engine' = [engine EXCEPT ![e] = r]
  BY DEF LoadState
<1> HIDE DEF r
<1>4. Sound(runState, Reported', Written)
  BY LedgerStays, LedgerGrows, SoundPersists DEF LoadState, CompanyInv, Grows
<1>5. Truthful(r, Talked, Mailed, Reported', Written)
  BY <1>2, <1>4, IdleIsTruthful
<1> QED BY <1>1, <1>3, <1>5, QuietMove, LedgerStays
        DEF LoadState, CompanyInv, Typed, Moves

LEMMA CrashKeeps ==
  ASSUME CompanyInv, NEW e \in Engines, Crash(e)
  PROVE  CompanyInv'
<1>1. Off \in Invocations /\ Truthful(Off, Talked, Mailed, Reported', Written)
  BY OffIsTruthful
<1>2. crashes' \in Nat
  BY DEF Crash, CompanyInv, Typed
<1> QED BY <1>1, <1>2, QuietMove, LedgerStays DEF Crash, CompanyInv, Typed, Moves

(* The records of a turn that goes on, and of one that ends.               *)
LEMMA PickIsTruthful ==
  ASSUME NEW r \in Invocations, NEW T, NEW M, NEW R, NEW W, Truthful(r, T, M, R, W)
  PROVE  /\ [r EXCEPT !.at = "pick", !.op = NoTurn] \in Invocations
         /\ Truthful([r EXCEPT !.at = "pick", !.op = NoTurn], T, M, R, W)
<1> DEFINE q == [r EXCEPT !.at = "pick", !.op = NoTurn]
<1>1. q \in Invocations
  BY DEF Invocations, Places
<1>2. /\ q.at = "pick" /\ q.op = NoTurn /\ q.memory = r.memory
      /\ q.runnable = r.runnable /\ q.done = r.done
  BY DEF Invocations
<1> HIDE DEF q
<1>3. Placed(q) /\ Scheduled(q) /\ Reached(q, T, M)
  BY <1>2 DEF Placed, Scheduled, BetweenOps, Reached, Truthful
<1>4. Truthful(q, T, M, R, W)
  BY <1>2, <1>3 DEF Truthful
<1> QED BY <1>1, <1>4 DEF q

LEMMA AdvanceIsTruthful ==
  ASSUME NEW r, NEW q, NEW T, NEW M, NEW R, NEW W, Truthful(r, T, M, R, W),
         q.memory = r.memory, q.runnable = r.runnable, q.done = r.done, q.op = r.op,
         q.at \notin BetweenOps, r.at \notin BetweenOps, Reached(q, T, M)
  PROVE  Truthful(q, T, M, R, W)
  BY DEF Truthful, Placed, Scheduled

LEMMA StillTruthful ==
  ASSUME CompanyInv, NEW e \in Engines, LedgerMoves, UNCHANGED files
  PROVE  /\ engine[e] \in Invocations
         /\ Truthful(engine[e], Talked, Mailed, Reported', Written)
<1>1. Reported \subseteq Reported'
  BY LedgerGrows DEF Grows
<1> QED BY <1>1, TruthPersists DEF CompanyInv, Typed

LEMMA NextOpKeeps ==
  ASSUME CompanyInv, NEW e \in Engines, NextOp(e), LedgerMoves,
         UNCHANGED <<runState, stale, files, crashes>>
  PROVE  CompanyInv'
<1> DEFINE r == [engine[e] EXCEPT !.at = "pick", !.op = NoTurn]
<1>1. r \in Invocations /\ Truthful(r, Talked, Mailed, Reported', Written)
  BY StillTruthful, PickIsTruthful
<1>2. engine' = [engine EXCEPT ![e] = r]
  BY DEF NextOp
<1> HIDE DEF r
<1> QED BY <1>1, <1>2, QuietMove DEF CompanyInv, Typed, Moves

LEMMA GoKeeps ==
  ASSUME CompanyInv, NEW e \in Engines, NEW place \in Places \ BetweenOps,
         Go(e, place), engine[e].at \notin BetweenOps, LedgerMoves,
         UNCHANGED <<runState, stale, files, crashes>>,
         Reached([engine[e] EXCEPT !.at = place], Talked, Mailed)
  PROVE  CompanyInv'
<1> DEFINE r == [engine[e] EXCEPT !.at = place]
<1>1. engine[e] \in Invocations /\ Truthful(engine[e], Talked, Mailed, Reported', Written)
  BY StillTruthful
<1>2. r \in Invocations
  BY <1>1 DEF Invocations
<1>3. /\ r.at = place /\ r.memory = engine[e].memory /\ r.op = engine[e].op
      /\ r.runnable = engine[e].runnable /\ r.done = engine[e].done
  BY <1>1 DEF Invocations
<1>4. engine' = [engine EXCEPT ![e] = r]
  BY DEF Go
<1>5. Reached(r, Talked, Mailed)
  OBVIOUS
<1> HIDE DEF r
<1>6. Truthful(r, Talked, Mailed, Reported', Written)
  BY <1>1, <1>3, <1>5, AdvanceIsTruthful
<1> QED BY <1>2, <1>4, <1>6, QuietMove DEF CompanyInv, Typed, Moves

(* An invocation away from its schedule is at an operation.                *)
LEMMA AtOperation ==
  ASSUME CompanyInv, NEW e \in Engines, engine[e].at \notin BetweenOps
  PROVE  Op(e) \in Ops /\ Op(e) # NoTurn
  BY DEF CompanyInv, Typed, Truthful, Placed, Op, Invocations

LEMMA PlanKeeps ==
  ASSUME CompanyInv, NEW e \in Engines, PlanTurns(e)
  PROVE  CompanyInv'
<1> DEFINE s == [engine[e].memory EXCEPT !.phases = @ \cup Imported]
           r == [engine[e] EXCEPT !.at = "pick", !.memory = s,
                   !.runnable = Runnable(s), !.todo = FirstOf(Runnable(s))]
<1>0. /\ LedgerMoves /\ UNCHANGED files /\ stale' \subseteq Ops /\ crashes' \in Nat
      /\ Talked' = Talked /\ Mailed' = Mailed /\ Written' = Written
      /\ Reported' = Reported /\ engine[e].at = "plan"
  BY LedgerStays DEF PlanTurns, files, CompanyInv, Typed, Talked, Mailed, Written,
     Reported, At
<1>1. engine[e] \in Invocations /\ Truthful(engine[e], Talked, Mailed, Reported, Written)
  BY DEF CompanyInv, Typed
<1>2. s \in States /\ Sound(s, Reported, Written)
      /\ s.phases = engine[e].memory.phases \cup Imported
  <2>1. /\ s \in States /\ s.artifacts = engine[e].memory.artifacts
        /\ s.phases = engine[e].memory.phases \cup Imported
    BY <1>1, CompanyAssumption DEF Invocations, States
  <2> HIDE DEF s
  <2> QED BY <1>1, <2>1 DEF Truthful, Sound
<1>3. engine' = [engine EXCEPT ![e] = r]
  BY DEF PlanTurns
<1>4. runState' = IF Imported \subseteq engine[e].memory.phases THEN runState ELSE s
  BY DEF PlanTurns
<1>5. Runnable(s) \subseteq Ops /\ FirstOf(Runnable(s)) \subseteq Ops
  BY DEF Runnable, FirstOf
<1>6. \A x \in Runnable(s) : DependsOn[PhaseOf[x]] \subseteq s.phases
  BY DEF Runnable, ReadyPhases
<1>7. \A x \in Runnable(s), o \in Ops :
        PhaseOf[o] = PhaseOf[x] /\ Needs[o] = {} => o \in Runnable(s)
  BY DEF Runnable
<1> HIDE DEF s
<1>8. r \in Invocations
  BY <1>1, <1>2, <1>5 DEF Invocations, Places
<1>9. /\ r.at = "pick" /\ r.memory = s /\ r.runnable = Runnable(s)
      /\ r.op = engine[e].op /\ r.done = engine[e].done
  BY <1>1 DEF Invocations
<1> HIDE DEF r
<1>10. Scheduled(r)
  BY <1>6, <1>7, <1>9 DEF Scheduled
<1>11. Placed(r) /\ Reached(r, Talked, Mailed)
  BY <1>0, <1>1, <1>9 DEF Placed, Reached, BetweenOps, Truthful
<1>12. Truthful(r, Talked, Mailed, Reported, Written)
  BY <1>1, <1>2, <1>9, <1>10, <1>11 DEF Truthful
<1>13. Sound(runState', Reported, Written) /\ runState' \in States
  BY <1>2, <1>4 DEF CompanyInv, Typed
<1>14. /\ ledger' \in Ledgers /\ Fresh' /\ Grows
       /\ talk' \in [Ops -> Nat] /\ mail' \in [Ops -> Nat] /\ artifact' \in [Ops -> Nat]
  BY <1>0, LedgerGrows DEF LedgerMoves, files, CompanyInv, Typed
<1> QED BY <1>0, <1>3, <1>8, <1>12, <1>13, <1>14, MoveKeeps DEF Moves

LEMMA BirthKeeps ==
  ASSUME CompanyInv, NEW e \in Engines, BirthUnit(e)
  PROVE  CompanyInv'
<1>1. PICK o \in engine[e].todo :
        /\ engine' = [engine EXCEPT ![e] =
                        [engine[e] EXCEPT !.at = "start", !.op = o,
                                       !.todo = engine[e].todo \ {o}]]
        /\ \/ Call(ledger, ledger', o, NoUnit)
           \/ ledger[o].state # "none" /\ UNCHANGED ledger
  BY DEF BirthUnit
<1> DEFINE r == [engine[e] EXCEPT !.at = "start", !.op = o,
                                  !.todo = engine[e].todo \ {o}]
<1>2. engine[e] \in Invocations /\ o \in Ops /\ o # NoTurn
  <2>1. engine[e].todo \subseteq Ops /\ engine[e] \in Invocations
    BY DEF CompanyInv, Typed, Invocations
  <2> QED BY <2>1, HarnessAssumption DEF Ops
<1>3. LedgerMoves
  BY <1>1, <1>2, CallMoves, LedgerStays DEF CompanyInv, Typed
<1>4. UNCHANGED <<runState, stale, files, crashes>>
  BY DEF BirthUnit
<1>5. Truthful(engine[e], Talked, Mailed, Reported', Written)
  BY <1>3, <1>4, StillTruthful
<1>6. r \in Invocations
  BY <1>2 DEF Invocations, Places
<1>7. /\ r.at = "start" /\ r.op = o /\ r.memory = engine[e].memory
      /\ r.runnable = engine[e].runnable /\ r.done = engine[e].done
  BY <1>2 DEF Invocations
<1>8. engine' = [engine EXCEPT ![e] = r]
  BY <1>1
<1> HIDE DEF r
<1>9. Placed(r) /\ Scheduled(r) /\ Reached(r, Talked, Mailed)
  BY <1>2, <1>5, <1>7 DEF Truthful, Placed, Scheduled, Reached, BetweenOps
<1>10. Truthful(r, Talked, Mailed, Reported', Written)
  BY <1>5, <1>7, <1>9 DEF Truthful
<1> QED BY <1>3, <1>4, <1>6, <1>8, <1>10, QuietMove DEF Moves, CompanyInv, Typed

LEMMA BeginKeeps ==
  ASSUME CompanyInv, NEW e \in Engines, engine[e].at \notin BetweenOps, Begin(e)
  PROVE  CompanyInv'
<1> DEFINE r == [engine[e] EXCEPT !.at = "working", !.worked = FALSE, !.mailed = FALSE,
                                  !.attempt = ledger[Op(e)].started + 1]
<1>1. engine[e] \in Invocations /\ Op(e) \in Ops
  BY AtOperation DEF CompanyInv, Typed
<1>2. LedgerMoves
  BY <1>1, StartMoves DEF Begin, CompanyInv, Typed
<1>3. ledger[Op(e)].started + 1 \in Nat \ {0}
  <2>1. ledger[Op(e)].started \in Nat
    BY <1>1, CompanyAssumption DEF CompanyInv, Typed, Ledgers
  <2> QED BY <2>1
<1>4. UNCHANGED <<runState, files, crashes>> /\ stale' \subseteq Ops
  BY DEF Begin, CompanyInv, Typed
<1>5. r \in Invocations
  BY <1>1, <1>3 DEF Invocations, Places
<1>6. /\ r.at = "working" /\ r.op = engine[e].op /\ r.memory = engine[e].memory
      /\ r.runnable = engine[e].runnable /\ r.done = engine[e].done /\ r.attempt > 0
  BY <1>1, <1>3 DEF Invocations
<1>7. engine' = [engine EXCEPT ![e] = r]
  BY DEF Begin
<1> HIDE DEF r
<1>8. Truthful(engine[e], Talked, Mailed, Reported', Written)
  BY <1>2, <1>4, StillTruthful
<1>9. Reached(r, Talked, Mailed) /\ r.at \notin BetweenOps
  BY <1>6 DEF Reached, BetweenOps
<1>10. Truthful(r, Talked, Mailed, Reported', Written)
  BY <1>6, <1>8, <1>9, AdvanceIsTruthful
<1> QED BY <1>2, <1>4, <1>5, <1>7, <1>10, QuietMove DEF Moves, CompanyInv, Typed

(* The places an invocation goes to with its record otherwise unchanged.   *)
LEMMA SafePlaces ==
  ASSUME CompanyInv, NEW e \in Engines, engine[e].at \notin BetweenOps,
         NEW place \in {"inspect", "recover", "restart"}
  PROVE  /\ place \in Places \ BetweenOps
         /\ Reached([engine[e] EXCEPT !.at = place], Talked, Mailed)
<1>1. [engine[e] EXCEPT !.at = place].at = place
  BY DEF CompanyInv, Typed, Invocations
<1> QED BY <1>1 DEF Reached, Places, BetweenOps

LEMMA StartKeeps ==
  ASSUME CompanyInv, NEW e \in Engines, Start(e)
  PROVE  CompanyInv'
<1>1. engine[e].at \notin BetweenOps
  BY DEF Start, At, BetweenOps
<1>2. CASE Begin(e)
  BY <1>1, <1>2, BeginKeeps
<1>3. CASE Go(e, "inspect") /\ UNCHANGED <<ledger, runState, stale, files, crashes>>
  BY <1>1, <1>3, SafePlaces, GoKeeps, LedgerStays
<1> QED BY <1>2, <1>3 DEF Start

LEMMA InspectKeeps ==
  ASSUME CompanyInv, NEW e \in Engines, InspectActiveTurn(e)
  PROVE  CompanyInv'
<1>1. engine[e].at \notin BetweenOps
  BY DEF InspectActiveTurn, At, BetweenOps
<1>2. LedgerMoves /\ UNCHANGED <<runState, stale, files, crashes>>
  BY LedgerStays DEF InspectActiveTurn
<1>3. CASE Go(e, "recover")
  BY <1>1, <1>2, <1>3, SafePlaces, GoKeeps
<1>4. CASE NextOp(e)
  BY <1>2, <1>4, NextOpKeeps
<1> QED BY <1>3, <1>4 DEF InspectActiveTurn

LEMMA RecoverKeeps ==
  ASSUME CompanyInv, NEW e \in Engines, RecoverStaleTurn(e)
  PROVE  CompanyInv'
<1>1. engine[e].at \notin BetweenOps
  BY DEF RecoverStaleTurn, At, BetweenOps
<1>2. LedgerMoves
  BY <1>1, AtOperation, CompleteMoves DEF RecoverStaleTurn, CompanyInv, Typed
<1> QED BY <1>1, <1>2, SafePlaces, GoKeeps DEF RecoverStaleTurn

LEMMA WorkerKeeps ==
  ASSUME CompanyInv, NEW e \in Engines, NEW worked \in BOOLEAN,
         WorkerAnswers(e, worked)
  PROVE  CompanyInv'
<1> DEFINE r == [engine[e] EXCEPT !.at = "talk", !.worked = worked]
<1>1. engine[e] \in Invocations /\ engine[e].at = "working"
  BY DEF CompanyInv, Typed, WorkerAnswers, At
<1>2. /\ LedgerMoves /\ UNCHANGED <<runState, files, crashes>> /\ stale' \subseteq Ops
  BY LedgerStays DEF WorkerAnswers, CompanyInv, Typed
<1>3. r \in Invocations
  BY <1>1 DEF Invocations, Places
<1>4. /\ r.at = "talk" /\ r.op = engine[e].op /\ r.memory = engine[e].memory
      /\ r.runnable = engine[e].runnable /\ r.done = engine[e].done
      /\ r.attempt = engine[e].attempt
  BY <1>1 DEF Invocations
<1>5. engine' = [engine EXCEPT ![e] = r]
  BY DEF WorkerAnswers
<1> HIDE DEF r
<1>6. Truthful(engine[e], Talked, Mailed, Reported', Written)
  BY <1>2, StillTruthful
<1>7. Reached(r, Talked, Mailed) /\ {r.at, engine[e].at} \cap BetweenOps = {}
  BY <1>1, <1>4, <1>6 DEF Reached, BetweenOps, Truthful
<1>8. Truthful(r, Talked, Mailed, Reported', Written)
  BY <1>4, <1>6, <1>7, AdvanceIsTruthful
<1> QED BY <1>2, <1>3, <1>5, <1>8, QuietMove DEF Moves, CompanyInv, Typed

LEMMA GiveUpKeeps ==
  ASSUME CompanyInv, NEW e \in Engines, GiveUp(e)
  PROVE  CompanyInv'
<1>1. engine[e].at \notin BetweenOps
  BY DEF GiveUp, BetweenOps
<1>2. LedgerMoves
  BY <1>1, AtOperation, CompleteMoves, LedgerStays DEF GiveUp, CompanyInv, Typed
<1> QED BY <1>2, NextOpKeeps DEF GiveUp

LEMMA LookKeeps ==
  ASSUME CompanyInv, NEW e \in Engines, LookForArtifact(e)
  PROVE  CompanyInv'
<1>1. engine[e] \in Invocations /\ engine[e].at = "artifact"
  BY DEF CompanyInv, Typed, LookForArtifact, At
<1>2. LedgerMoves /\ UNCHANGED <<runState, stale, files, crashes>>
  BY LedgerStays DEF LookForArtifact
<1>3. CASE Go(e, "write")
  <2>1. Reached([engine[e] EXCEPT !.at = "write"], Talked, Mailed)
    <3>1. /\ [engine[e] EXCEPT !.at = "write"].at = "write"
          /\ [engine[e] EXCEPT !.at = "write"].op = engine[e].op
          /\ [engine[e] EXCEPT !.at = "write"].attempt = engine[e].attempt
      BY <1>1 DEF Invocations
    <3> QED BY <1>1, <3>1 DEF CompanyInv, Truthful, Reached
  <2> QED BY <1>1, <1>2, <1>3, <2>1, GoKeeps DEF Places, BetweenOps
<1>4. CASE NextOp(e)
  BY <1>2, <1>4, NextOpKeeps
<1> QED BY <1>3, <1>4 DEF LookForArtifact

(* The actions that write a file.                                          *)
LEMMA TalkKeeps ==
  ASSUME CompanyInv, NEW e \in Engines, AppendTalk(e)
  PROVE  CompanyInv'
<1> DEFINE r == [engine[e] EXCEPT !.at = "mail"]
<1>1. /\ engine[e] \in Invocations /\ engine[e].at = "talk"
      /\ Truthful(engine[e], Talked, Mailed, Reported, Written)
  BY DEF CompanyInv, Typed, AppendTalk, At
<1>2. Op(e) \in Ops /\ engine[e].attempt \in Nat \ {0}
  BY <1>1, AtOperation DEF BetweenOps, Truthful, Reached, Invocations
<1>3. talk' \in [Ops -> Nat] /\ talk'[Op(e)] # 0
      /\ \A o \in Ops : talk[o] # 0 => talk'[o] # 0
  BY <1>2 DEF AppendTalk, CompanyInv, Typed
<1>4. UNCHANGED <<ledger, runState, stale, mail, artifact, crashes>>
  BY DEF AppendTalk
<1>5. Grows /\ Op(e) \in Talked'
  BY <1>2, <1>3, <1>4 DEF Grows, Talked, Mailed, Written, Reported
<1>6. r \in Invocations
  BY <1>1 DEF Invocations, Places
<1>7. /\ r.at = "mail" /\ r.op = Op(e) /\ r.memory = engine[e].memory
      /\ r.runnable = engine[e].runnable /\ r.done = engine[e].done
      /\ r.attempt = engine[e].attempt
  BY <1>1 DEF Invocations, Op
<1>8. engine' = [engine EXCEPT ![e] = r]
  BY DEF AppendTalk, Go
<1> HIDE DEF r
<1>9. Truthful(engine[e], Talked', Mailed', Reported', Written')
  BY <1>1, <1>5, TruthPersists DEF Grows
<1>10. Reached(r, Talked', Mailed') /\ {r.at, engine[e].at} \cap BetweenOps = {}
  BY <1>1, <1>2, <1>5, <1>7 DEF Reached, BetweenOps
<1>11. Truthful(r, Talked', Mailed', Reported', Written')
  BY <1>7, <1>9, <1>10, AdvanceIsTruthful DEF Op
<1>12. Sound(runState', Reported', Written') /\ ledger' \in Ledgers /\ Fresh'
  BY <1>4, <1>5, SoundPersists DEF CompanyInv, Typed, Grows, Fresh
<1> QED BY <1>3, <1>4, <1>5, <1>6, <1>8, <1>11, <1>12, MoveKeeps
        DEF CompanyInv, Typed, Moves

LEMMA MailKeeps ==
  ASSUME CompanyInv, NEW e \in Engines, MailReport(e)
  PROVE  CompanyInv'
<1> DEFINE accepted == mail[Op(e)] \in {0, engine[e].attempt}
           r == [engine[e] EXCEPT !.at = "complete", !.mailed = accepted]
<1>1. /\ engine[e] \in Invocations /\ engine[e].at = "mail"
      /\ Truthful(engine[e], Talked, Mailed, Reported, Written)
  BY DEF CompanyInv, Typed, MailReport, At
<1>2. /\ Op(e) \in Ops /\ engine[e].attempt \in Nat \ {0} /\ Op(e) \in Talked
  BY <1>1, AtOperation DEF BetweenOps, Truthful, Reached, Invocations, Op
<1>3. mail' \in [Ops -> Nat] /\ (accepted => mail'[Op(e)] # 0)
      /\ \A o \in Ops : mail[o] # 0 => mail'[o] # 0
  BY <1>2 DEF MailReport, CompanyInv, Typed
<1>4. UNCHANGED <<ledger, runState, stale, talk, artifact, crashes>>
  BY DEF MailReport
<1>5. Grows /\ Op(e) \in Talked' /\ (accepted => Op(e) \in Mailed')
  BY <1>2, <1>3, <1>4 DEF Grows, Talked, Mailed, Written, Reported
<1>6. r \in Invocations
  <2>1. accepted \in BOOLEAN
    OBVIOUS
  <2> HIDE DEF accepted
  <2> QED BY <1>1, <2>1 DEF Invocations, Places
<1>7. /\ r.at = "complete" /\ r.op = Op(e) /\ r.memory = engine[e].memory
      /\ r.runnable = engine[e].runnable /\ r.done = engine[e].done
      /\ r.attempt = engine[e].attempt
  BY <1>1 DEF Invocations, Op
<1>8. r.mailed = accepted
  BY <1>1, Zenon DEF Invocations
<1>9. engine' = [engine EXCEPT ![e] = r]
  BY DEF MailReport
<1> HIDE DEF r, accepted
<1>10. Truthful(engine[e], Talked', Mailed', Reported', Written')
  BY <1>1, <1>5, TruthPersists DEF Grows
<1>11. /\ {r.at, engine[e].at} \cap BetweenOps = {}
       /\ (r.mailed => r.op \in Mailed') /\ r.op \in Talked' /\ r.attempt > 0
  BY <1>1, <1>2, <1>5, <1>7, <1>8 DEF BetweenOps
<1>12. Reached(r, Talked', Mailed')
  BY <1>7, <1>11 DEF Reached
<1>13. Truthful(r, Talked', Mailed', Reported', Written')
  BY <1>7, <1>10, <1>11, <1>12, AdvanceIsTruthful DEF Op
<1>14. Sound(runState', Reported', Written') /\ ledger' \in Ledgers /\ Fresh'
  BY <1>4, <1>5, SoundPersists DEF CompanyInv, Typed, Grows, Fresh
<1> QED BY <1>3, <1>4, <1>5, <1>6, <1>9, <1>13, <1>14, MoveKeeps
        DEF CompanyInv, Typed, Moves

LEMMA WriteKeeps ==
  ASSUME CompanyInv, NEW e \in Engines, WriteArtifact(e)
  PROVE  CompanyInv'
<1> DEFINE s == [engine[e].memory EXCEPT !.artifacts = @ \cup {Op(e)}]
           r == [engine[e] EXCEPT !.at = "save", !.memory = s]
<1>1. /\ engine[e] \in Invocations /\ engine[e].at = "write"
      /\ Truthful(engine[e], Talked, Mailed, Reported, Written)
  BY DEF CompanyInv, Typed, WriteArtifact, At
<1>2. /\ Op(e) \in Ops /\ engine[e].attempt \in Nat \ {0}
      /\ Op(e) \in Talked /\ Op(e) \in Mailed
  BY <1>1, AtOperation DEF BetweenOps, Truthful, Reached, Invocations, Op
<1>3. artifact' \in [Ops -> Nat] /\ artifact'[Op(e)] # 0
      /\ \A o \in Ops : artifact[o] # 0 => artifact'[o] # 0
  BY <1>2 DEF WriteArtifact, CompanyInv, Typed
<1>4. UNCHANGED <<ledger, runState, stale, talk, mail, crashes>>
  BY DEF WriteArtifact
<1>5. /\ Grows /\ Op(e) \in Talked' /\ Op(e) \in Mailed' /\ Op(e) \in Written'
  BY <1>2, <1>3, <1>4 DEF Grows, Talked, Mailed, Written, Reported
<1>6. engine' = [engine EXCEPT ![e] = r]
  BY DEF WriteArtifact
<1>7. s \in States /\ Sound(s, Reported', Written')
  <2>1. /\ s \in States /\ s.phases = engine[e].memory.phases
        /\ s.artifacts = engine[e].memory.artifacts \cup {Op(e)}
    BY <1>1, <1>2 DEF Invocations, States
  <2>2. Sound(engine[e].memory, Reported', Written')
    BY <1>1, <1>5, SoundPersists DEF Grows, Truthful
  <2> HIDE DEF s
  <2> QED BY <1>5, <2>1, <2>2 DEF Sound
<1> HIDE DEF s
<1>8. r \in Invocations
  BY <1>1, <1>7 DEF Invocations, Places
<1>9. /\ r.at = "save" /\ r.op = Op(e) /\ r.memory = s
      /\ r.runnable = engine[e].runnable /\ r.done = engine[e].done
  BY <1>1 DEF Invocations, Op
<1>10. s.phases = engine[e].memory.phases
  BY <1>1 DEF s, Invocations, States
<1> HIDE DEF r
<1>11. Truthful(engine[e], Talked', Mailed', Reported', Written')
  BY <1>1, <1>5, TruthPersists DEF Grows
<1>12. Placed(r) /\ Scheduled(r) /\ Reached(r, Talked', Mailed')
  BY <1>1, <1>5, <1>9, <1>10, <1>11
     DEF Placed, Scheduled, Reached, Truthful, BetweenOps, Op
<1>13. Truthful(r, Talked', Mailed', Reported', Written')
  BY <1>7, <1>9, <1>11, <1>12 DEF Truthful
<1>14. Sound(runState', Reported', Written') /\ ledger' \in Ledgers /\ Fresh'
  BY <1>4, <1>5, SoundPersists DEF CompanyInv, Typed, Grows, Fresh
<1> QED BY <1>3, <1>4, <1>5, <1>6, <1>8, <1>13, <1>14, MoveKeeps
        DEF CompanyInv, Typed, Moves

LEMMA SaveKeeps ==
  ASSUME CompanyInv, NEW e \in Engines, SaveState(e)
  PROVE  CompanyInv'
<1> DEFINE r == [engine[e] EXCEPT !.at = "pick", !.op = NoTurn]
<1>1. /\ UNCHANGED <<ledger, stale, files, crashes>> /\ LedgerMoves /\ Grows
      /\ Talked' = Talked /\ Mailed' = Mailed
      /\ Written' = Written /\ Reported' = Reported
  BY LedgerStays, LedgerGrows
     DEF SaveState, files, Talked, Mailed, Written, Reported
<1>2. engine[e] \in Invocations /\ Truthful(engine[e], Talked, Mailed, Reported, Written)
  BY DEF CompanyInv, Typed
<1>3. r \in Invocations /\ Truthful(r, Talked, Mailed, Reported, Written)
  BY <1>2, PickIsTruthful
<1>4. engine' = [engine EXCEPT ![e] = r]
  BY DEF SaveState, NextOp
<1> HIDE DEF r
<1>5. runState' \in States /\ Sound(runState', Reported', Written')
  BY <1>1, <1>2 DEF SaveState, Truthful, Invocations
<1>6. /\ ledger' \in Ledgers /\ Fresh' /\ stale' \subseteq Ops /\ crashes' \in Nat
      /\ talk' \in [Ops -> Nat] /\ mail' \in [Ops -> Nat] /\ artifact' \in [Ops -> Nat]
  BY <1>1 DEF LedgerMoves, files, CompanyInv, Typed
<1> QED BY <1>1, <1>3, <1>4, <1>5, <1>6, MoveKeeps DEF Moves

LEMMA CompleteKeeps ==
  ASSUME CompanyInv, NEW e \in Engines, CompleteHarnessTurn(e)
  PROVE  CompanyInv'
<1> DEFINE r == [engine[e] EXCEPT !.at = "artifact",
                                  !.done = engine[e].done \cup {Op(e)}]
<1>1. engine[e] \in Invocations /\ engine[e].at = "complete" /\ Op(e) \in Ops
  BY AtOperation DEF CompanyInv, Typed, CompleteHarnessTurn, At, BetweenOps
<1>2. LedgerMoves /\ ledger'[Op(e)].completed > 0
  BY <1>1, CompleteMoves DEF CompleteHarnessTurn, CompanyInv, Typed
<1>3. UNCHANGED <<runState, stale, files, crashes>>
  BY DEF CompleteHarnessTurn
<1>4. Truthful(engine[e], Talked, Mailed, Reported', Written)
  BY <1>2, <1>3, StillTruthful
<1>5. CASE engine[e].worked /\ engine[e].mailed
  <2>1. engine' = [engine EXCEPT ![e] = r]
    BY <1>5 DEF CompleteHarnessTurn
  <2>2. Op(e) \in Talked /\ Op(e) \in Mailed
    BY <1>1, <1>4, <1>5 DEF Truthful, Reached, Op
  <2>3. Op(e) \in Reported'
    BY <1>1, <1>2, <1>3, <2>2 DEF Reported, Talked, Mailed, files
  <2>4. r \in Invocations
    BY <1>1 DEF Invocations, Places
  <2>5. /\ r.at = "artifact" /\ r.op = Op(e) /\ r.memory = engine[e].memory
        /\ r.runnable = engine[e].runnable /\ r.done = engine[e].done \cup {Op(e)}
        /\ r.attempt = engine[e].attempt
    BY <1>1 DEF Invocations, Op
  <2> HIDE DEF r
  <2>6. Placed(r) /\ Scheduled(r) /\ Reached(r, Talked, Mailed)
    BY <1>1, <1>4, <2>2, <2>5
       DEF Placed, Scheduled, Reached, Truthful, BetweenOps, Op
  <2>7. Truthful(r, Talked, Mailed, Reported', Written)
    BY <1>4, <2>3, <2>5, <2>6 DEF Truthful
  <2> QED BY <1>2, <1>3, <2>1, <2>4, <2>7, QuietMove DEF CompanyInv, Typed, Moves
<1>6. CASE NextOp(e)
  BY <1>2, <1>3, <1>6, NextOpKeeps
<1> QED BY <1>5, <1>6 DEF CompleteHarnessTurn

(* A phase is finished when what runs of it is done; its unconditional     *)
(* turns were all scheduled, and so were the phases it depends on.         *)
LEMMA BatchKeeps ==
  ASSUME CompanyInv, NEW e \in Engines, CompleteBatchPhases(e)
  PROVE  CompanyInv'
<1> DEFINE phases == {p \in Phases : Finished(e, p)}
           s == [engine[e].memory EXCEPT !.phases = @ \cup phases]
<1>1. /\ UNCHANGED <<ledger, stale, files, crashes>> /\ LedgerMoves /\ Grows
      /\ Written' = Written /\ Reported' = Reported
  BY LedgerStays, LedgerGrows
     DEF CompleteBatchPhases, files, Written, Reported
<1>2. engine[e] \in Invocations /\ Truthful(engine[e], Talked, Mailed, Reported, Written)
  BY DEF CompanyInv, Typed
<1>3. /\ s \in States /\ s.artifacts = engine[e].memory.artifacts
      /\ s.phases = engine[e].memory.phases \cup phases
  BY <1>2 DEF Invocations, States
<1>4. \A p \in phases :
        /\ DependsOn[p] \subseteq engine[e].memory.phases
        /\ \A o \in Ops : PhaseOf[o] = p /\ Needs[o] = {} => o \in Reported
  <2> SUFFICES ASSUME NEW p \in phases
               PROVE  /\ DependsOn[p] \subseteq engine[e].memory.phases
                      /\ \A o \in Ops : PhaseOf[o] = p /\ Needs[o] = {} => o \in Reported
    OBVIOUS
  <2>1. PICK x \in engine[e].runnable : PhaseOf[x] = p
    BY DEF Finished
  <2>2. \A o \in engine[e].runnable : PhaseOf[o] = p => o \in Reported
    BY <1>2 DEF Finished, Truthful
  <2> QED BY <1>2, <2>1, <2>2 DEF Truthful, Scheduled
<1>5. runState' = IF engine[e].done = {} THEN runState ELSE s
  BY DEF CompleteBatchPhases
<1> HIDE DEF s, phases
<1>6. Sound(s, Reported, Written)
  BY <1>2, <1>3, <1>4 DEF Truthful, Sound
<1>7. runState' \in States /\ Sound(runState', Reported', Written')
  BY <1>1, <1>3, <1>5, <1>6 DEF CompanyInv, Typed
<1>8. Off \in Invocations /\ Truthful(Off, Talked', Mailed', Reported', Written')
  BY OffIsTruthful
<1>9. /\ ledger' \in Ledgers /\ Fresh' /\ stale' \subseteq Ops /\ crashes' \in Nat
      /\ talk' \in [Ops -> Nat] /\ mail' \in [Ops -> Nat] /\ artifact' \in [Ops -> Nat]
  BY <1>1 DEF LedgerMoves, files, CompanyInv, Typed
<1>10. engine' = [engine EXCEPT ![e] = Off]
  BY DEF CompleteBatchPhases
<1> QED BY <1>1, <1>7, <1>8, <1>9, <1>10, MoveKeeps DEF Moves

LEMMA StaleKeeps ==
  ASSUME CompanyInv, NEW o \in Ops, GoStale(o)
  PROVE  CompanyInv'
  BY DEF GoStale, CompanyInv, Typed, Fresh, files, Talked, Mailed, Written, Reported

LEMMA StutterKeeps ==
  ASSUME CompanyInv, UNCHANGED companyVars
  PROVE  CompanyInv'
  BY DEF companyVars, CompanyInv, Typed, Fresh, Talked, Mailed, Written, Reported

-----------------------------------------------------------------------------
LEMMA InitHolds ==
  ASSUME CompanyInit PROVE CompanyInv
<1>1. Typed /\ Fresh
  <2>1. Off \in Invocations
    BY OffIsTruthful
  <2>2. EmptyState \in States
    BY DEF EmptyState, States
  <2> QED BY <2>1, <2>2 DEF CompanyInit, TurnsInit, NotCalled, Typed, Fresh, Ledgers,
                            LifecycleStates
<1>2. Sound(runState, Reported, Written)
  BY DEF CompanyInit, EmptyState, Sound
<1>3. \A e \in Engines : Truthful(engine[e], Talked, Mailed, Reported, Written)
  BY OffIsTruthful DEF CompanyInit
<1> QED BY <1>1, <1>2, <1>3 DEF CompanyInv

(* The inductive invariant.                                                *)
THEOREM CompanyInvariant == CompanySpec => []CompanyInv
<1>1. CompanyInv /\ [CompanyNext]_companyVars => CompanyInv'
  <2> SUFFICES ASSUME CompanyInv, [CompanyNext]_companyVars PROVE CompanyInv'
    OBVIOUS
  <2>1. ASSUME NEW e \in Engines, EngineStep(e) PROVE CompanyInv'
    BY <2>1, LoadKeeps, PlanKeeps, BirthKeeps, StartKeeps, InspectKeeps, RecoverKeeps,
       BeginKeeps, WorkerKeeps, GiveUpKeeps, TalkKeeps, MailKeeps, CompleteKeeps,
       LookKeeps, WriteKeeps, SaveKeeps, BatchKeeps
       DEF EngineStep, Restart, At, BetweenOps
  <2> QED BY <2>1, CrashKeeps, StaleKeeps, StutterKeeps DEF CompanyNext
<1> QED BY <1>1, InitHolds, PTL DEF CompanySpec

(* The ledger, the invocations and the files keep their types, and an      *)
(* invocation is at an operation exactly between its start and its save    *)
(* (agent_execution.rs, execute_wiki_company_agents).                      *)
THEOREM CompanyTypeInvariant == CompanySpec => []CompanyTypeOK
<1>1. CompanyInv => CompanyTypeOK
  BY DEF CompanyInv, Typed, CompanyTypeOK, Truthful, Placed, Op
<1> QED BY <1>1, CompanyInvariant, PTL

(* Whatever invocations overlap, die or are repeated: each unconditional   *)
(* turn of a phase that the run state calls completed was completed in the *)
(* harness, and its text is on the talk page and in the mailboxes          *)
(* (agent_execution.rs, complete_batch_phases).                            *)
THEOREM CompletedPhasesAreReported == CompanySpec => []CompletedPhasesReported
<1>1. CompanyInv => CompletedPhasesReported
  BY DEF CompanyInv, Sound, Reported, CompletedPhasesReported
<1> QED BY <1>1, CompanyInvariant, PTL

(* No save skips a phase: what a completed phase depends on is completed,  *)
(* too, although a save overwrites what others saved meanwhile             *)
(* (run_state.rs, save_state).                                             *)
THEOREM PhasesCompleteInOrder == CompanySpec => []CompletedInOrder
<1>1. CompanyInv => CompletedInOrder
  BY DEF CompanyInv, Sound, CompletedInOrder
<1> QED BY <1>1, CompanyInvariant, PTL

(* An artifact the scheduler counts on exists, and so does the mail it     *)
(* tells of (agent_execution.rs, record_completed_runtime_turn).           *)
THEOREM ArtifactsAreThere == CompanySpec => []KnownArtifactsExist
<1>1. CompanyInv => KnownArtifactsExist
  BY DEF CompanyInv, Sound, Written, KnownArtifactsExist
<1> QED BY <1>1, CompanyInvariant, PTL

(* The engine does nothing to the harness but operations of the turn       *)
(* ledger, one in a step: what HarnessStore implements is what this model  *)
(* counts on (agent_execution.rs, daemon/src/turn.rs).                     *)
THEOREM CompanyKeepsTheLedger == CompanySpec => TurnsSpec
<1>1. CompanyInit => TurnsInit
  BY DEF CompanyInit
<1>2. CompanyInv /\ [CompanyNext]_companyVars => [TurnsNext]_ledger
  <2> SUFFICES ASSUME CompanyInv, CompanyNext, ledger' # ledger PROVE TurnsNext
    BY DEF companyVars
  <2>1. PICK e \in Engines : EngineStep(e)
    BY DEF CompanyNext, Crash, GoStale
  <2>2. \A o \in Ops : o \in Units /\ o \in TurnIds
    BY CompanyAssumption DEF Ops
  <2>3. ASSUME NEW o \in Ops, Call(ledger, ledger', o, NoUnit) PROVE TurnsNext
    BY <2>2, <2>3 DEF TurnsNext, TurnStep
  <2>4. ASSUME NEW o \in Ops, StartTurn(ledger, ledger', o, o) PROVE TurnsNext
    BY <2>2, <2>4 DEF TurnsNext, TurnStep
  <2>5. ASSUME NEW o \in Ops, Complete(o) PROVE TurnsNext
    BY <2>2, <2>5 DEF TurnsNext, TurnStep, Complete, RestStates
  <2>6. engine[e] \in Invocations
    BY DEF CompanyInv, Typed
  <2>7. engine[e].at \notin BetweenOps => Op(e) \in Ops
    BY AtOperation
  <2>8. CASE BirthUnit(e)
    <3>1. engine[e].todo \subseteq Ops
      BY <2>6 DEF Invocations
    <3> QED BY <2>3, <2>8, <3>1 DEF BirthUnit
  <2>9. CASE Start(e) \/ Restart(e)
    <3>1. Op(e) \in Ops
      BY <2>7, <2>9 DEF Start, Restart, At, BetweenOps
    <3> QED BY <2>4, <2>9, <3>1 DEF Start, Restart, Begin
  <2>10. CASE RecoverStaleTurn(e) \/ GiveUp(e) \/ CompleteHarnessTurn(e)
    <3>1. Op(e) \in Ops
      BY <2>7, <2>10 DEF RecoverStaleTurn, GiveUp, CompleteHarnessTurn, At, BetweenOps
    <3> QED BY <2>5, <2>10, <3>1 DEF RecoverStaleTurn, GiveUp, CompleteHarnessTurn
  <2> QED BY <2>1, <2>8, <2>9, <2>10
          DEF EngineStep, LoadState, PlanTurns, InspectActiveTurn, WorkerAnswers,
              AppendTalk, MailReport, LookForArtifact, WriteArtifact, SaveState,
              CompleteBatchPhases
<1> QED BY <1>1, <1>2, CompanyInvariant, PTL DEF CompanySpec, TurnsSpec

-----------------------------------------------------------------------------
(* Induction, as a fact about sets: what holds at first and after each     *)
(* step holds throughout.  The library's rule has an operator for its      *)
(* parameter; the least element of a set of naturals says the same.        *)
LEMMA LeastNatural ==
  ASSUME NEW T \in SUBSET Nat, T # {}
  PROVE  \E x \in T : \A y \in T : x <= y
<1> DEFINE R == OpToRel(<, Nat)
<1>1. IsWellFoundedOn(R, Nat)
  BY NatLessThanWellFounded
<1>2. \E x \in T : \A y \in T : ~(<<y, x>> \in R)
  <2> HIDE DEF R
  <2> QED BY <1>1, WFMin
<1>3. \A x, y \in Nat : <<y, x>> \notin R => x <= y
  BY DEF OpToRel
<1> HIDE DEF R
<1> QED BY <1>2, <1>3

LEMMA Induction ==
  ASSUME NEW n \in Nat, NEW S, 0 \in S, \A k \in 0..n : k < n /\ k \in S => k + 1 \in S
  PROVE  0..n \subseteq S
<1> DEFINE T == (0..n) \ S
<1> SUFFICES ASSUME T # {} PROVE FALSE
  OBVIOUS
<1>1. PICK x \in T : \A y \in T : x <= y
  <2>1. T \in SUBSET Nat
    OBVIOUS
  <2> HIDE DEF T
  <2> QED BY <2>1, LeastNatural
<1>2. x # 0 /\ x - 1 \in 0..n /\ x - 1 < n /\ x - 1 \in S
  BY <1>1
<1> QED BY <1>1, <1>2

(* A function may be defined by recursion on a bounded count: f is what    *)
(* becomes of base when op is applied n times.                             *)
Steps(op, V) == op \in [V -> V]
Iterates(f, n, V, base, op) ==
    f \in [0..n -> V] /\ f[0] = base /\ \A k \in 1..n : f[k] = op[f[k - 1]]

LEMMA Iteration ==
  ASSUME NEW n \in Nat, NEW V, NEW base \in V, NEW op, Steps(op, V)
  PROVE  \E f : Iterates(f, n, V, base, op)
<1> USE DEF Steps, Iterates
<1> DEFINE Runs(m, f) == f[0] = base /\ \A k \in 1..m : f[k] = op[f[k - 1]]
           Defined == {m \in 0..n : \E f \in [0..m -> V] : Runs(m, f)}
<1>1. 0 \in Defined
  <2> DEFINE f == [k \in 0..0 |-> base]
  <2>1. f \in [0..0 -> V] /\ f[0] = base /\ 0 \in 0..n /\ 1..0 = {}
    OBVIOUS
  <2> HIDE DEF f
  <2> QED BY <2>1
<1>2. ASSUME NEW m \in 0..n, m < n, m \in Defined PROVE m + 1 \in Defined
  <2>1. PICK f \in [0..m -> V] : Runs(m, f)
    BY <1>2
  <2> DEFINE h == [k \in 0..m + 1 |-> IF k = m + 1 THEN op[f[m]] ELSE f[k]]
  <2>2. h \in [0..m + 1 -> V] /\ h[0] = base /\ m + 1 \in 0..n
    BY <1>2, <2>1
  <2>3. ASSUME NEW k \in 1..m + 1 PROVE h[k] = op[h[k - 1]]
    <3>1. CASE k = m + 1
      BY <3>1
    <3>2. CASE k # m + 1
      <4>1. k \in 1..m /\ k \in 0..m + 1 /\ k - 1 \in 0..m + 1 /\ k - 1 # m + 1
        BY <3>2
      <4> QED BY <4>1, <3>2, <2>1
    <3> QED BY <3>1, <3>2
  <2> HIDE DEF h
  <2> QED BY <2>2, <2>3
<1>3. 0..n \subseteq Defined
  <2> HIDE DEF Defined
  <2> QED BY <1>1, <1>2, Induction
<1> QED BY <1>3

(* A function that obeys the recursion is one of them.                     *)
Recurs(h, n, V, base, op) ==
    /\ h = [k \in 0..n |-> h[k]] /\ h[0] = base
    /\ \A k \in 1..n : h[k - 1] \in V => h[k] = op[h[k - 1]]

LEMMA RecursionIterates ==
  ASSUME NEW n \in Nat, NEW V, NEW base \in V, NEW op, Steps(op, V),
         NEW h, Recurs(h, n, V, base, op)
  PROVE  Iterates(h, n, V, base, op)
<1> DEFINE InV == {k \in 0..n : h[k] \in V}
<1>1. 0 \in InV
  BY DEF Recurs
<1>2. \A k \in 0..n : k < n /\ k \in InV => k + 1 \in InV
  <2>1. \A k \in 0..n : k < n => k + 1 \in 1..n /\ k + 1 \in 0..n /\ (k + 1) - 1 = k
    OBVIOUS
  <2> QED BY <2>1 DEF Recurs, Steps
<1>3. 0..n \subseteq InV
  <2> HIDE DEF InV
  <2> QED BY <1>1, <1>2, Induction
<1>4. \A k \in 1..n : k - 1 \in 0..n
  OBVIOUS
<1> QED BY <1>3, <1>4 DEF Recurs, Iterates

LEMMA PhasesFinite ==
  /\ PhaseCount \in Nat /\ IsFiniteSet(Phases) /\ Cardinality(Phases) = PhaseCount
  /\ Unknown \notin Phases
<1>1. PhaseCount \in Nat \ {0}
  BY PhaseAssumption
<1> QED BY <1>1, FS_Interval DEF Phases, Unknown

-----------------------------------------------------------------------------
(* The phases that an unknown dependency spoils.                           *)
Behind(g, S) == {p \in Phases : g[p] \cap S # {}}

LEMMA InvalidUnfolds ==
  ASSUME NEW g
  PROVE  \E f \in [0..PhaseCount -> SUBSET Phases] :
            /\ f[0] = Missing(g)
            /\ \A n \in 1..PhaseCount : f[n] = f[n - 1] \cup Behind(g, f[n - 1])
            /\ InvalidPhases(g) = f[PhaseCount]
<1> DEFINE spread(f) ==
             [n \in 0..PhaseCount |->
                IF n = 0 THEN Missing(g)
                ELSE f[n - 1] \cup {p \in Phases : g[p] \cap f[n - 1] # {}}]
           chosen == CHOOSE f : f = spread(f)
           V == SUBSET Phases
           base == Missing(g)
           op == [S \in V |-> S \cup Behind(g, S)]
<1>1. base \in V /\ Steps(op, V) /\ PhaseCount \in Nat
  BY PhasesFinite DEF Missing, Behind, Steps
<1>2. PICK f : Iterates(f, PhaseCount, V, base, op)
  <2> HIDE DEF V, base, op
  <2> QED BY <1>1, Iteration
<1>3. \A n \in 0..PhaseCount : n # 0 <=> n \in 1..PhaseCount /\ n - 1 \in 0..PhaseCount
  BY PhasesFinite
<1>4. f = spread(f)
  <2>1. \A n \in 0..PhaseCount : n # 0 => f[n] = f[n - 1] \cup Behind(g, f[n - 1])
    BY <1>2, <1>3 DEF Iterates
  <2> QED BY <1>2, <2>1 DEF Iterates, Behind
<1>5. chosen = spread(chosen)
  <2>1. \E x : x = spread(x)
    <3> HIDE DEF spread
    <3> QED BY <1>4
  <2> QED BY <2>1
<1>6. Recurs(chosen, PhaseCount, V, base, op)
  <2>1. \A n \in 1..PhaseCount : n \in 0..PhaseCount /\ n # 0
    BY PhasesFinite
  <2>2. 0 \in 0..PhaseCount
    BY PhasesFinite
  <2> HIDE DEF chosen
  <2> QED BY <1>5, <2>1, <2>2 DEF Recurs, Behind
<1>7. Iterates(chosen, PhaseCount, V, base, op)
  <2> HIDE DEF V, base, op, chosen
  <2> QED BY <1>1, <1>6, RecursionIterates
<1>8. InvalidPhases(g) = chosen[PhaseCount]
  BY DEF InvalidPhases
<1>9. \A n \in 1..PhaseCount : n - 1 \in 0..PhaseCount
  BY PhasesFinite
<1> HIDE DEF chosen
<1> QED BY <1>7, <1>8, <1>9 DEF Iterates

(* What depends on what is spoiled is spoiled: there is no phase left to   *)
(* add after as many turns as there are phases.                            *)
LEMMA InvalidIsClosed ==
  ASSUME NEW g
  PROVE  /\ Missing(g) \subseteq InvalidPhases(g)
         /\ InvalidPhases(g) \subseteq Phases
         /\ Behind(g, InvalidPhases(g)) \subseteq InvalidPhases(g)
<1> USE PhasesFinite
<1>1. PICK f \in [0..PhaseCount -> SUBSET Phases] :
        /\ f[0] = Missing(g)
        /\ \A n \in 1..PhaseCount : f[n] = f[n - 1] \cup Behind(g, f[n - 1])
        /\ InvalidPhases(g) = f[PhaseCount]
  BY InvalidUnfolds
<1>2. \A n \in 0..PhaseCount : n < PhaseCount =>
        n + 1 \in 0..PhaseCount /\ f[n + 1] = f[n] \cup Behind(g, f[n])
  <2>1. \A n \in 0..PhaseCount : n < PhaseCount => n + 1 \in 1..PhaseCount /\ (n + 1) - 1 = n
    OBVIOUS
  <2> QED BY <2>1, <1>1
<1> DEFINE Starts == {n \in 0..PhaseCount : f[0] \subseteq f[n]}
           Closed(S) == Behind(g, S) \subseteq S
           Full == {n \in 0..PhaseCount : Closed(f[n]) \/ Cardinality(f[n]) > n}
<1>3. PhaseCount \in Starts
  <2>1. 0 \in Starts /\ \A n \in 0..PhaseCount : n < PhaseCount /\ n \in Starts => n + 1 \in Starts
    BY <1>2
  <2>2. 0..PhaseCount \subseteq Starts
    <3> HIDE DEF Starts
    <3> QED BY <2>1, Induction
  <2> QED BY <2>2
<1>4. \A n \in 0..PhaseCount : IsFiniteSet(f[n]) /\ Cardinality(f[n]) \in Nat
  BY FS_Subset, FS_CardinalityType
<1>5. 0 \in Full
  <2>1. CASE f[0] = {}
    <3>1. Closed(f[0])
      BY <2>1 DEF Behind
    <3> QED BY <3>1
  <2>2. CASE f[0] # {}
    <3>1. Cardinality(f[0]) # 0
      BY <2>2, <1>4, FS_EmptySet
    <3> QED BY <3>1, <1>4
  <2> QED BY <2>1, <2>2
<1>6. ASSUME NEW n \in 0..PhaseCount, n < PhaseCount, n \in Full PROVE n + 1 \in Full
  <2>1. f[n + 1] = f[n] \cup Behind(g, f[n]) /\ n + 1 \in 0..PhaseCount
    BY <1>2, <1>6
  <2>2. CASE Closed(f[n])
    <3>1. f[n + 1] = f[n]
      BY <2>1, <2>2
    <3> QED BY <3>1, <2>1, <2>2
  <2>3. CASE ~Closed(f[n])
    <3>1. Cardinality(f[n]) > n
      BY <1>6, <2>3
    <3>2. f[n] \subseteq f[n + 1] /\ f[n] # f[n + 1]
      BY <2>1, <2>3
    <3>3. Cardinality(f[n]) < Cardinality(f[n + 1])
      <4>1. IsFiniteSet(f[n + 1]) /\ Cardinality(f[n]) \in Nat /\ Cardinality(f[n + 1]) \in Nat
        BY <1>4, <2>1
      <4>2. /\ Cardinality(f[n]) <= Cardinality(f[n + 1])
            /\ Cardinality(f[n]) = Cardinality(f[n + 1]) => f[n] = f[n + 1]
        BY <3>2, <4>1, FS_Subset
      <4> QED BY <3>2, <4>1, <4>2
    <3>4. Cardinality(f[n + 1]) > n + 1
      <4>1. Cardinality(f[n]) \in Nat
        BY <1>4
      <4>2. Cardinality(f[n + 1]) \in Nat
        BY <1>4, <2>1
      <4>3. n \in Nat
        OBVIOUS
      <4> QED BY <3>1, <3>3, <4>1, <4>2, <4>3
    <3> QED BY <3>4, <2>1
  <2> QED BY <2>2, <2>3
<1>7. PhaseCount \in Full
  <2>1. 0..PhaseCount \subseteq Full
    <3> HIDE DEF Full
    <3> QED BY <1>5, <1>6, Induction
  <2> QED BY <2>1
<1>8. Cardinality(f[PhaseCount]) <= PhaseCount
  <2>1. f[PhaseCount] \subseteq Phases
    OBVIOUS
  <2> QED BY <2>1, FS_Subset
<1>9. Closed(f[PhaseCount])
  BY <1>4, <1>7, <1>8
<1> QED BY <1>1, <1>3, <1>9

-----------------------------------------------------------------------------
(* What a phase depends on.                                                *)
Closed(g, S) == \A x \in S \cap Phases : g[x] \subseteq S

LEMMA UpstreamClosed ==
  ASSUME NEW g \in Graphs, NEW p \in Phases
  PROVE  /\ g[p] \subseteq Upstream(g, p)
         /\ Closed(g, Upstream(g, p))
         /\ Upstream(g, p) \subseteq Phases \cup {Unknown}
<1>1. g[p] \subseteq Phases \cup {Unknown}
      /\ \A x \in Phases : g[x] \subseteq Phases \cup {Unknown}
  BY DEF Graphs
<1> QED BY <1>1 DEF Upstream, Closed

LEMMA UpstreamIsLeast ==
  ASSUME NEW g, NEW p \in Phases, NEW S \in SUBSET (Phases \cup {Unknown}),
         g[p] \subseteq S, Closed(g, S)
  PROVE  Upstream(g, p) \subseteq S
  BY DEF Upstream, Closed

LEMMA UpstreamTransitive ==
  ASSUME NEW g \in Graphs, NEW p \in Phases, NEW q \in Upstream(g, p) \cap Phases
  PROVE  Upstream(g, q) \subseteq Upstream(g, p)
<1>1. g[q] \subseteq Upstream(g, p)
  BY UpstreamClosed DEF Closed
<1> QED BY <1>1, UpstreamClosed, UpstreamIsLeast

(* A phase is spoiled exactly if there is an unknown name upstream.        *)
LEMMA InvalidMeansUnknown ==
  ASSUME NEW g \in Graphs
  PROVE  InvalidPhases(g) = {p \in Phases : Unknown \in Upstream(g, p)}
<1> USE PhasesFinite
<1>1. ASSUME NEW p \in Phases, Unknown \in Upstream(g, p) PROVE p \in InvalidPhases(g)
  <2> DEFINE S == Phases \ InvalidPhases(g)
  <2>1. SUFFICES ASSUME p \in S PROVE FALSE
    OBVIOUS
  <2>2. \A x \in S : g[x] \subseteq S
    <3> SUFFICES ASSUME NEW x \in S PROVE g[x] \subseteq S
      OBVIOUS
    <3>1. x \notin Missing(g) /\ x \notin Behind(g, InvalidPhases(g))
      BY InvalidIsClosed
    <3>2. g[x] \subseteq Phases \cup {Unknown}
      BY DEF Graphs
    <3> QED BY <3>1, <3>2 DEF Missing, Behind
  <2>3. Closed(g, S)
    BY <2>2 DEF Closed
  <2>4. Upstream(g, p) \subseteq S
    <3> HIDE DEF S
    <3>1. S \in SUBSET (Phases \cup {Unknown})
      BY DEF S
    <3> QED BY <2>1, <2>2, <2>3, <3>1, UpstreamIsLeast
  <2> QED BY <2>4, <1>1
<1>2. PICK f \in [0..PhaseCount -> SUBSET Phases] :
        /\ f[0] = Missing(g)
        /\ \A n \in 1..PhaseCount : f[n] = f[n - 1] \cup Behind(g, f[n - 1])
        /\ InvalidPhases(g) = f[PhaseCount]
  BY InvalidUnfolds
<1> DEFINE Spoiled == {p \in Phases : Unknown \in Upstream(g, p)}
           Rightly == {n \in 0..PhaseCount : f[n] \subseteq Spoiled}
<1>3. 0 \in Rightly
  <2>1. Missing(g) \subseteq Spoiled
    BY UpstreamClosed DEF Missing
  <2> QED BY <2>1, <1>2
<1>4. ASSUME NEW n \in 0..PhaseCount, n < PhaseCount, n \in Rightly PROVE n + 1 \in Rightly
  <2>1. n + 1 \in 1..PhaseCount /\ (n + 1) - 1 = n /\ n + 1 \in 0..PhaseCount
    BY <1>4
  <2>2. f[n + 1] = f[n] \cup Behind(g, f[n])
    BY <2>1, <1>2
  <2>3. ASSUME NEW p \in Behind(g, f[n]) PROVE p \in Spoiled
    <3>1. PICK q \in g[p] : q \in Spoiled
      BY <1>4 DEF Behind
    <3>2. p \in Phases /\ q \in Phases /\ q \in Upstream(g, p)
      BY <3>1, UpstreamClosed DEF Behind
    <3>3. Upstream(g, q) \subseteq Upstream(g, p)
      BY <3>2, UpstreamTransitive
    <3> QED BY <3>1, <3>2, <3>3
  <2> QED BY <2>1, <2>2, <2>3, <1>4
<1>5. 0..PhaseCount \subseteq Rightly
  <2> HIDE DEF Rightly
  <2> QED BY <1>3, <1>4, Induction
<1> QED BY <1>1, <1>2, <1>5

-----------------------------------------------------------------------------
(* The loop that orders the phases.                                        *)
Ranked(s) == {s.order[i] : i \in 1..Len(s.order)}
LoopStates == [order : Seq(Phases), left : [Phases -> Int], queue : SUBSET Phases]
LoopStart(g) ==
    [order |-> <<>>, left |-> [p \in Phases |-> Cardinality(g[p] \cap Phases)],
     queue |-> {p \in Phases : g[p] = {}}]
Turn(g, s) == IF s.queue = {} THEN s ELSE Pop(g, s)

(* Every phase that is placed comes after all it depends on, and once; the *)
(* counts are what is still to come; the queue is what may come next.      *)
Early(s, i) == {s.order[j] : j \in 1..i - 1}
LoopInv(g, s) ==
    /\ s \in LoopStates
    /\ \A i, j \in 1..Len(s.order) : s.order[i] = s.order[j] => i = j
    /\ \A i \in 1..Len(s.order) : g[s.order[i]] \subseteq Early(s, i)
    /\ \A p \in Phases : s.left[p] = Cardinality((g[p] \cap Phases) \ Ranked(s))
    /\ s.queue = {p \in Phases \ Ranked(s) : g[p] \subseteq Ranked(s)}

LEMMA Subsets ==
  ASSUME NEW S \in SUBSET Phases
  PROVE  IsFiniteSet(S) /\ Cardinality(S) \in 0..PhaseCount
         /\ (Cardinality(S) = 0 <=> S = {}) /\ (Cardinality(S) = PhaseCount => S = Phases)
<1>1. IsFiniteSet(S) /\ Cardinality(S) <= PhaseCount
      /\ (Cardinality(S) = PhaseCount => S = Phases)
  BY PhasesFinite, FS_Subset
<1>2. Cardinality(S) \in Nat /\ PhaseCount \in Nat
  BY <1>1, FS_CardinalityType, PhasesFinite
<1> QED BY <1>1, <1>2, FS_EmptySet

LEMMA LoopStartInv ==
  ASSUME NEW g \in Graphs
  PROVE  LoopInv(g, LoopStart(g)) /\ Ranked(LoopStart(g)) = {}
<1> DEFINE s == LoopStart(g)
<1>1. s.order = <<>> /\ Len(s.order) = 0 /\ 1..Len(s.order) = {}
  BY DEF LoopStart
<1>2. Ranked(s) = {}
  BY <1>1 DEF Ranked
<1>3. \A p \in Phases : Cardinality(g[p] \cap Phases) \in Int
  BY Subsets, PhasesFinite
<1>4. s \in LoopStates
  BY <1>3 DEF LoopStart, LoopStates
<1>5. \A p \in Phases : s.left[p] = Cardinality((g[p] \cap Phases) \ Ranked(s))
  <2>1. \A p \in Phases : (g[p] \cap Phases) \ Ranked(s) = g[p] \cap Phases
    BY <1>2
  <2> QED BY <2>1 DEF LoopStart
<1>6. s.queue = {p \in Phases \ Ranked(s) : g[p] \subseteq Ranked(s)}
  BY <1>2 DEF LoopStart
<1> HIDE DEF s
<1>7. LoopInv(g, s)
  BY <1>1, <1>4, <1>5, <1>6 DEF LoopInv
<1> QED BY <1>2, <1>7 DEF s

(* One turn places one phase that was queued.                              *)
LEMMA PopKeeps ==
  ASSUME NEW g \in Graphs, NEW s, LoopInv(g, s), s.queue # {}
  PROVE  /\ LoopInv(g, Pop(g, s))
         /\ Len(Pop(g, s).order) = Len(s.order) + 1
         /\ Cardinality(Ranked(Pop(g, s))) = Cardinality(Ranked(s)) + 1
<1> DEFINE c == Min(s.queue)
           t == Pop(g, s)
           n == Len(s.order)
           behind == {p \in Phases : c \in g[p]}
<1>1. s \in LoopStates /\ s.order \in Seq(Phases) /\ s.left \in [Phases -> Int]
      /\ s.queue \subseteq Phases /\ n \in Nat
  BY DEF LoopInv, LoopStates
<1>2. c \in s.queue
  <2>1. s.queue \in SUBSET Nat
    BY <1>1 DEF Phases
  <2>2. \E x \in s.queue : \A y \in s.queue : x <= y
    BY <2>1, LeastNatural
  <2> QED BY <2>2 DEF Min
<1>3. c \in Phases /\ c \notin Ranked(s) /\ g[c] \subseteq Ranked(s)
  BY <1>2 DEF LoopInv
<1>4. /\ t.order = Append(s.order, c)
      /\ t.left = [p \in Phases |-> IF p \in behind THEN s.left[p] - 1 ELSE s.left[p]]
      /\ t.queue = (s.queue \ {c})
                     \cup {p \in behind : t.left[p] = 0 /\ p \notin Missing(g)}
  BY DEF Pop
<1> HIDE DEF c, t
<1>5. /\ t.order \in Seq(Phases) /\ Len(t.order) = n + 1 /\ t.order[n + 1] = c
      /\ \A i \in 1..n : t.order[i] = s.order[i]
  BY <1>1, <1>3, <1>4
<1>6. Ranked(t) = Ranked(s) \cup {c}
  <2>1. 1..Len(t.order) = 1..n \cup {n + 1}
    BY <1>1, <1>5
  <2> QED BY <1>5, <2>1 DEF Ranked
<1>7. Ranked(s) \subseteq Phases
  BY <1>1 DEF Ranked
<1>8. Cardinality(Ranked(t)) = Cardinality(Ranked(s)) + 1
  BY <1>3, <1>6, <1>7, Subsets, FS_AddElement
<1>9. t \in LoopStates
  <2>1. t = [order |-> t.order, left |-> t.left, queue |-> t.queue]
    BY DEF t, Pop
  <2>2. t.left \in [Phases -> Int]
    BY <1>1, <1>4
  <2>3. t.queue \subseteq Phases
    BY <1>1, <1>4
  <2> QED BY <1>5, <2>1, <2>2, <2>3 DEF LoopStates
<1>10. \A i, j \in 1..Len(t.order) : t.order[i] = t.order[j] => i = j
  <2>1. \A i \in 1..n : t.order[i] \in Ranked(s) /\ t.order[i] # c
    BY <1>3, <1>5 DEF Ranked
  <2>2. \A i \in 1..n + 1 : i \in 1..n \/ i = n + 1
    BY <1>1
  <2>3. \A i, j \in 1..n : s.order[i] = s.order[j] => i = j
    BY DEF LoopInv
  <2> QED BY <2>1, <2>2, <2>3, <1>5
<1>11. \A i \in 1..Len(t.order) : g[t.order[i]] \subseteq Early(t, i)
  <2>1. \A i \in 1..n : g[s.order[i]] \subseteq Early(s, i)
    BY DEF LoopInv
  <2>2. ASSUME NEW i \in 1..n PROVE Early(t, i) = Early(s, i)
    <3>1. \A j \in 1..i - 1 : t.order[j] = s.order[j]
      <4>1. \A j \in 1..i - 1 : j \in 1..n
        BY <1>1
      <4> QED BY <4>1, <1>5
    <3> QED BY <3>1 DEF Early
  <2>3. Early(t, n + 1) = Ranked(s)
    <3>1. 1..(n + 1) - 1 = 1..n
      BY <1>1
    <3> QED BY <3>1, <1>5 DEF Early, Ranked
  <2>4. \A i \in 1..n + 1 : i \in 1..n \/ i = n + 1
    BY <1>1
  <2> QED BY <2>1, <2>2, <2>3, <2>4, <1>3, <1>5
<1>12. \A p \in Phases : t.left[p] = Cardinality((g[p] \cap Phases) \ Ranked(t))
  <2> SUFFICES ASSUME NEW p \in Phases
               PROVE  t.left[p] = Cardinality((g[p] \cap Phases) \ Ranked(t))
    OBVIOUS
  <2> DEFINE open == (g[p] \cap Phases) \ Ranked(s)
  <2>1. s.left[p] = Cardinality(open) /\ open \subseteq Phases
    BY DEF LoopInv
  <2>2. (g[p] \cap Phases) \ Ranked(t) = open \ {c}
    BY <1>6
  <2>3. CASE p \in behind
    <3>1. c \in open
      BY <2>3, <1>3
    <3>2. IsFiniteSet(open) /\ Cardinality(open) \in Nat
      BY <2>1, Subsets
    <3>3. Cardinality(open \ {c}) = Cardinality(open) - 1
      BY <3>1, <3>2, FS_RemoveElement
    <3> QED BY <3>3, <2>1, <2>2, <2>3, <1>4
  <2>4. CASE p \notin behind
    <3>1. open \ {c} = open
      BY <2>4
    <3> QED BY <3>1, <2>1, <2>2, <2>4, <1>4
  <2> QED BY <2>3, <2>4
<1>13. t.queue = {p \in Phases \ Ranked(t) : g[p] \subseteq Ranked(t)}
  <2>1. ASSUME NEW p \in Phases
        PROVE  g[p] \subseteq Ranked(t) <=> t.left[p] = 0 /\ p \notin Missing(g)
    <3>1. (g[p] \cap Phases) \ Ranked(t) \subseteq Phases
      OBVIOUS
    <3>2. t.left[p] = 0 <=> g[p] \cap Phases \subseteq Ranked(t)
      <4> DEFINE S == (g[p] \cap Phases) \ Ranked(t)
      <4>1. t.left[p] = Cardinality(S)
        BY <1>12
      <4>2. S = {} <=> g[p] \cap Phases \subseteq Ranked(t)
        OBVIOUS
      <4>3. S \in SUBSET Phases
        OBVIOUS
      <4> HIDE DEF S
      <4> QED BY <4>1, <4>2, <4>3, Subsets
    <3>3. g[p] \subseteq Phases \cup {Unknown} /\ Ranked(t) \subseteq Phases
      BY <1>3, <1>6, <1>7 DEF Graphs
    <3> QED BY <3>2, <3>3, PhasesFinite DEF Missing
  <2>2. s.queue = {p \in Phases \ Ranked(s) : g[p] \subseteq Ranked(s)}
    BY DEF LoopInv
  <2>3. \A p \in behind : p \notin Ranked(t)
    <3> SUFFICES ASSUME NEW p \in behind, p \in Ranked(s) \cup {c} PROVE FALSE
      BY <1>6
    <3>1. p # c
      BY <1>3
    <3>2. PICK i \in 1..n : p = s.order[i]
      BY <3>1 DEF Ranked
    <3>3. c \in Early(s, i)
      BY <3>2 DEF LoopInv
    <3>4. Early(s, i) \subseteq Ranked(s)
      BY <1>1 DEF Early, Ranked
    <3> QED BY <3>3, <3>4, <1>3
  <2>4. \A p \in Phases : p \notin behind => (g[p] \subseteq Ranked(t) <=> g[p] \subseteq Ranked(s))
    BY <1>6
  <2> QED BY <2>1, <2>2, <2>3, <2>4, <1>4, <1>6
<1>14. LoopInv(g, t)
  BY <1>9, <1>10, <1>11, <1>12, <1>13 DEF LoopInv
<1> QED BY <1>14, <1>5, <1>8 DEF t

LEMMA TurnType ==
  ASSUME NEW g, NEW s \in LoopStates
  PROVE  Turn(g, s) \in LoopStates
<1> DEFINE c == Min(s.queue)
           t == Pop(g, s)
           behind == {p \in Phases : c \in g[p]}
<1>1. s.order \in Seq(Phases) /\ s.left \in [Phases -> Int] /\ s.queue \subseteq Phases
  BY DEF LoopStates
<1>2. CASE s.queue # {}
  <2>1. c \in Phases
    <3>1. s.queue \in SUBSET Nat
      BY <1>1 DEF Phases
    <3>2. \E x \in s.queue : \A y \in s.queue : x <= y
      BY <1>2, <3>1, LeastNatural
    <3> QED BY <1>1, <3>2 DEF Min
  <2>2. /\ t.order = Append(s.order, c)
        /\ t.left = [p \in Phases |-> IF p \in behind THEN s.left[p] - 1 ELSE s.left[p]]
        /\ t.queue = (s.queue \ {c})
                       \cup {p \in behind : t.left[p] = 0 /\ p \notin Missing(g)}
        /\ t = [order |-> t.order, left |-> t.left, queue |-> t.queue]
    BY DEF Pop
  <2> HIDE DEF c, t
  <2>3. t.order \in Seq(Phases) /\ t.left \in [Phases -> Int] /\ t.queue \subseteq Phases
    BY <1>1, <2>1, <2>2
  <2>4. t \in LoopStates
    BY <2>2, <2>3 DEF LoopStates
  <2> QED BY <1>2, <2>4 DEF t, Turn
<1> QED BY <1>2 DEF Turn

LEMMA OrderUnfolds ==
  ASSUME NEW g \in Graphs
  PROVE  \E f \in [0..PhaseCount -> LoopStates] :
            /\ f[0] = LoopStart(g)
            /\ \A n \in 1..PhaseCount : f[n] = Turn(g, f[n - 1])
            /\ PhaseOrder(g) = f[PhaseCount].order
<1> DEFINE run(f) ==
             [n \in 0..PhaseCount |->
                IF n = 0 THEN LoopStart(g)
                ELSE IF f[n - 1].queue = {} THEN f[n - 1] ELSE Pop(g, f[n - 1])]
           chosen == CHOOSE f : f = run(f)
           V == LoopStates
           base == LoopStart(g)
           op == [s \in V |-> Turn(g, s)]
<1>1. base \in V /\ Steps(op, V) /\ PhaseCount \in Nat
  BY PhasesFinite, LoopStartInv, TurnType DEF Steps, LoopInv
<1>2. PICK f : Iterates(f, PhaseCount, V, base, op)
  <2> HIDE DEF V, base, op
  <2> QED BY <1>1, Iteration
<1>3. \A n \in 0..PhaseCount : n # 0 <=> n \in 1..PhaseCount /\ n - 1 \in 0..PhaseCount
  BY PhasesFinite
<1>4. f = run(f)
  <2>1. \A n \in 0..PhaseCount : n # 0 => f[n] = Turn(g, f[n - 1])
    BY <1>2, <1>3 DEF Iterates
  <2> QED BY <1>2, <2>1 DEF Iterates, Turn
<1>5. chosen = run(chosen)
  <2>1. \E x : x = run(x)
    <3> HIDE DEF run
    <3> QED BY <1>4
  <2> QED BY <2>1
<1>6. Recurs(chosen, PhaseCount, V, base, op)
  <2>1. \A n \in 1..PhaseCount : n \in 0..PhaseCount /\ n # 0
    BY PhasesFinite
  <2>2. 0 \in 0..PhaseCount
    BY PhasesFinite
  <2> HIDE DEF chosen
  <2> QED BY <1>5, <2>1, <2>2 DEF Recurs, Turn
<1>7. Iterates(chosen, PhaseCount, V, base, op)
  <2> HIDE DEF V, base, op, chosen
  <2> QED BY <1>1, <1>6, RecursionIterates
<1>8. PhaseOrder(g) = chosen[PhaseCount].order
  BY DEF PhaseOrder, LoopStart
<1>9. \A n \in 1..PhaseCount : n - 1 \in 0..PhaseCount
  BY PhasesFinite
<1> HIDE DEF chosen
<1> QED BY <1>7, <1>8, <1>9 DEF Iterates

(* When the loop ends nothing is left that could come next, and it took no *)
(* more turns than there are phases.                                       *)
LEMMA LoopEnds ==
  ASSUME NEW g \in Graphs
  PROVE  \E s : /\ LoopInv(g, s) /\ s.queue = {} /\ Len(s.order) <= PhaseCount
                /\ PhaseOrder(g) = s.order /\ Ordered(g) = Ranked(s)
<1> USE PhasesFinite
<1>1. PICK f \in [0..PhaseCount -> LoopStates] :
        /\ f[0] = LoopStart(g)
        /\ \A n \in 1..PhaseCount : f[n] = Turn(g, f[n - 1])
        /\ PhaseOrder(g) = f[PhaseCount].order
  BY OrderUnfolds
<1> DEFINE Progress(s, n) ==
             /\ LoopInv(g, s) /\ Len(s.order) <= n
             /\ s.queue = {} \/ Cardinality(Ranked(s)) = n
           Good == {n \in 0..PhaseCount : Progress(f[n], n)}
<1>2. 0 \in Good
  <2>1. Cardinality(Ranked(LoopStart(g))) = 0 /\ Len(LoopStart(g).order) = 0
    BY LoopStartInv, FS_EmptySet DEF LoopStart
  <2> QED BY <1>1, <2>1, LoopStartInv
<1>3. ASSUME NEW n \in 0..PhaseCount, n < PhaseCount, n \in Good PROVE n + 1 \in Good
  <2>1. n + 1 \in 1..PhaseCount /\ n + 1 \in 0..PhaseCount /\ (n + 1) - 1 = n /\ n \in Nat
    BY <1>3
  <2>2. f[n + 1] = Turn(g, f[n])
    BY <1>1, <2>1
  <2>3. Progress(f[n], n) /\ f[n].order \in Seq(Phases)
    BY <1>3 DEF LoopInv, LoopStates
  <2>4. Len(f[n].order) \in Nat
    BY <2>3
  <2>5. CASE f[n].queue = {}
    <3>1. f[n + 1] = f[n]
      BY <2>2, <2>5 DEF Turn
    <3> QED BY <3>1, <2>1, <2>3, <2>4, <2>5
  <2>6. CASE f[n].queue # {}
    <3>1. f[n + 1] = Pop(g, f[n])
      BY <2>2, <2>6 DEF Turn
    <3>2. /\ LoopInv(g, f[n + 1])
          /\ Len(f[n + 1].order) = Len(f[n].order) + 1
          /\ Cardinality(Ranked(f[n + 1])) = Cardinality(Ranked(f[n])) + 1
      BY <3>1, <2>3, <2>6, PopKeeps
    <3> QED BY <3>2, <2>1, <2>3, <2>4, <2>6
  <2> QED BY <2>5, <2>6
<1>4. Progress(f[PhaseCount], PhaseCount)
  <2>1. 0..PhaseCount \subseteq Good
    <3> HIDE DEF Good
    <3> QED BY <1>2, <1>3, Induction
  <2> QED BY <2>1
<1> DEFINE s == f[PhaseCount]
<1>5. s.queue = {}
  <2>1. s.order \in Seq(Phases)
    BY <1>4 DEF LoopInv, LoopStates
  <2>2. Ranked(s) \subseteq Phases
    BY <2>1 DEF Ranked
  <2>3. CASE Cardinality(Ranked(s)) = PhaseCount
    <3>1. Ranked(s) = Phases
      BY <2>2, <2>3, Subsets
    <3> QED BY <3>1, <1>4 DEF LoopInv
  <2> QED BY <2>3, <1>4
<1>6. Ordered(g) = Ranked(s)
  <2>1. s.order \in Seq(Phases)
    BY <1>4 DEF LoopInv, LoopStates
  <2>2. DOMAIN s.order = 1..Len(s.order)
    BY <2>1
  <2> QED BY <2>2, <1>1 DEF Ordered, Ranked
<1> HIDE DEF s
<1>7. LoopInv(g, s) /\ Len(s.order) <= PhaseCount /\ PhaseOrder(g) = s.order
  BY <1>1, <1>4 DEF s
<1> QED BY <1>5, <1>6, <1>7

-----------------------------------------------------------------------------
(* Nothing that has a place depends on what has none, nor on itself.       *)
LEMMA RankedUpstream ==
  ASSUME NEW g \in Graphs, NEW s, LoopInv(g, s), NEW p \in Ranked(s)
  PROVE  /\ p \in Phases /\ Ranked(s) \subseteq Phases
         /\ Upstream(g, p) \subseteq Ranked(s) \ {p}
<1> DEFINE n == Len(s.order)
<1>1. s.order \in Seq(Phases) /\ n \in Nat /\ Ranked(s) \subseteq Phases
  BY DEF LoopInv, LoopStates, Ranked
<1>2. PICK k \in 1..n : p = s.order[k]
  BY DEF Ranked
<1> DEFINE S == Early(s, k)
<1>3. \A j \in 1..k - 1 : j \in 1..n /\ j < k
  BY <1>1
<1>4. S \subseteq Ranked(s)
  BY <1>3 DEF Early, Ranked
<1>5. p \notin S
  BY <1>2, <1>3 DEF Early, LoopInv
<1>6. \A x \in S : g[x] \subseteq S
  <2> SUFFICES ASSUME NEW j \in 1..k - 1 PROVE g[s.order[j]] \subseteq S
    BY DEF Early
  <2>1. g[s.order[j]] \subseteq Early(s, j)
    BY <1>3 DEF LoopInv
  <2>2. 1..j - 1 \subseteq 1..k - 1
    BY <1>1, <1>3
  <2> QED BY <2>1, <2>2 DEF Early
<1>7. Upstream(g, p) \subseteq S
  <2>1. Closed(g, S) /\ S \in SUBSET (Phases \cup {Unknown}) /\ p \in Phases
    BY <1>1, <1>4, <1>6 DEF Closed
  <2>2. g[p] \subseteq S
    BY <1>2 DEF LoopInv
  <2> HIDE DEF S
  <2> QED BY <2>1, <2>2, UpstreamIsLeast
<1> QED BY <1>1, <1>4, <1>5, <1>7

(* Phases that all depend on one another's kind go round in a circle: of   *)
(* those with the fewest such phases upstream, one is upstream of itself.  *)
LEMMA CircleExists ==
  ASSUME NEW g \in Graphs, NEW B \in SUBSET Phases, B # {},
         \A b \in B : g[b] \cap B # {}
  PROVE  B \cap OnCycle(g) # {}
<1> DEFINE Above(b) == Upstream(g, b) \cap B
           Sizes == {Cardinality(Above(b)) : b \in B}
<1>1. \A b \in B : IsFiniteSet(Above(b)) /\ Cardinality(Above(b)) \in Nat
  BY Subsets, PhasesFinite
<1>2. PICK b \in B : \A x \in B : Cardinality(Above(b)) <= Cardinality(Above(x))
  <2>1. Sizes \in SUBSET Nat /\ Sizes # {}
    BY <1>1
  <2>2. \E x \in Sizes : \A y \in Sizes : x <= y
    <3> HIDE DEF Sizes
    <3> QED BY <2>1, LeastNatural
  <2> QED BY <2>2
<1>3. PICK c \in B : c \in g[b]
  OBVIOUS
<1>4. c \in Above(b) /\ Above(c) \subseteq Above(b)
  <2>1. c \in Upstream(g, b)
    BY <1>3, UpstreamClosed
  <2>2. Upstream(g, c) \subseteq Upstream(g, b)
    BY <2>1, UpstreamTransitive
  <2> QED BY <2>1, <2>2
<1>5. Above(c) = Above(b)
  <2> HIDE DEF Above
  <2>1. /\ Cardinality(Above(c)) <= Cardinality(Above(b))
        /\ Cardinality(Above(c)) = Cardinality(Above(b)) => Above(c) = Above(b)
    BY <1>1, <1>4, FS_Subset
  <2>2. Cardinality(Above(b)) \in Nat /\ Cardinality(Above(c)) \in Nat
        /\ Cardinality(Above(b)) <= Cardinality(Above(c))
    BY <1>1, <1>2
  <2> QED BY <2>1, <2>2
<1>6. c \in Upstream(g, c)
  BY <1>4, <1>5
<1> QED BY <1>6 DEF OnCycle

LEMMA CyclesAreFound ==
  ASSUME NEW g \in Graphs
  PROVE  CyclePhases(g) = {p \in Phases \ InvalidPhases(g) :
                             (Upstream(g, p) \cup {p}) \cap OnCycle(g) # {}}
<1>1. PICK s : /\ LoopInv(g, s) /\ s.queue = {} /\ Ordered(g) = Ranked(s)
  BY LoopEnds
<1>2. ASSUME NEW p \in Phases, p \notin InvalidPhases(g), p \notin Ranked(s)
      PROVE  (Upstream(g, p) \cup {p}) \cap OnCycle(g) # {}
  <2> DEFINE B == ((Upstream(g, p) \cup {p}) \cap Phases) \ Ranked(s)
  <2>1. ASSUME NEW b \in B PROVE g[b] \cap B # {}
    <3>1. b \in Phases /\ Upstream(g, b) \subseteq Upstream(g, p)
      BY UpstreamTransitive
    <3>2. Unknown \notin Upstream(g, b)
      BY <1>2, <3>1, InvalidMeansUnknown
    <3>3. g[b] \subseteq Upstream(g, b) /\ Upstream(g, b) \subseteq Phases \cup {Unknown}
      BY <3>1, UpstreamClosed
    <3>4. ~(g[b] \subseteq Ranked(s))
      BY <1>1 DEF LoopInv
    <3> QED BY <3>1, <3>2, <3>3, <3>4
  <2>2. p \in B /\ B \in SUBSET Phases
    BY <1>2
  <2>3. B \cap OnCycle(g) # {}
    <3> HIDE DEF B
    <3> QED BY <2>1, <2>2, CircleExists
  <2> QED BY <2>3
<1>3. ASSUME NEW p \in Ranked(s)
      PROVE  (Upstream(g, p) \cup {p}) \cap OnCycle(g) = {}
  <2>1. Upstream(g, p) \cup {p} \subseteq Ranked(s)
    BY <1>1, RankedUpstream
  <2>2. \A q \in Ranked(s) : q \notin Upstream(g, q)
    BY <1>1, RankedUpstream
  <2> QED BY <2>1, <2>2 DEF OnCycle
<1> QED BY <1>1, <1>2, <1>3 DEF CyclePhases

-----------------------------------------------------------------------------
(* Completing phases as they become ready.                                 *)
LEMMA ReadyAreOrdered ==
  ASSUME NEW g \in Graphs, NEW C
  PROVE  ReadyPhases(g, C) = {p \in Ordered(g) \ C : g[p] \subseteq C}
<1>1. PICK s : LoopInv(g, s) /\ Ordered(g) = Ranked(s)
  BY LoopEnds
<1>2. \A p \in Ordered(g) : p \in Phases /\ p \notin InvalidPhases(g)
  BY <1>1, RankedUpstream, InvalidMeansUnknown, PhasesFinite
<1> QED BY <1>2 DEF ReadyPhases, CyclePhases

Reaches(g, f) ==
    /\ f \in [0..PhaseCount -> SUBSET Phases] /\ f[0] = {}
    /\ \A n \in 1..PhaseCount : f[n] = f[n - 1] \cup ReadyPhases(g, f[n - 1])

LEMMA ReachedIsOrdered ==
  ASSUME NEW g \in Graphs, NEW f, Reaches(g, f)
  PROVE  f[PhaseCount] = Ordered(g)
<1> USE PhasesFinite
<1>1. PICK s : /\ LoopInv(g, s) /\ Len(s.order) <= PhaseCount /\ Ordered(g) = Ranked(s)
  BY LoopEnds
<1>2. s.order \in Seq(Phases) /\ Len(s.order) \in Nat
  BY <1>1 DEF LoopInv, LoopStates
<1> DEFINE Good == {n \in 0..PhaseCount :
                      /\ f[n] \subseteq Ordered(g)
                      /\ \A i \in 1..Len(s.order) : i <= n => s.order[i] \in f[n]}
<1>3. 0 \in Good
  BY <1>2 DEF Reaches
<1>4. ASSUME NEW n \in 0..PhaseCount, n < PhaseCount, n \in Good PROVE n + 1 \in Good
  <2>1. n + 1 \in 1..PhaseCount /\ n + 1 \in 0..PhaseCount /\ (n + 1) - 1 = n /\ n \in Nat
    BY <1>4
  <2>2. f[n + 1] = f[n] \cup {p \in Ordered(g) \ f[n] : g[p] \subseteq f[n]}
    BY <2>1, ReadyAreOrdered DEF Reaches
  <2>3. ASSUME NEW i \in 1..Len(s.order), i <= n + 1 PROVE s.order[i] \in f[n + 1]
    <3>1. CASE i <= n
      BY <3>1, <2>2, <1>4
    <3>2. CASE i = n + 1
      <4>1. g[s.order[i]] \subseteq Early(s, i)
        BY <1>1 DEF LoopInv
      <4>2. \A j \in 1..i - 1 : j \in 1..Len(s.order) /\ j <= n
        BY <1>2, <2>1, <3>2
      <4>3. Early(s, i) \subseteq f[n]
        BY <4>2, <1>4 DEF Early
      <4>4. s.order[i] \in Ordered(g)
        BY <1>1 DEF Ranked
      <4> QED BY <4>1, <4>3, <4>4, <2>2
    <3> QED BY <3>1, <3>2, <2>3, <2>1, <1>2
  <2> QED BY <2>1, <2>2, <2>3, <1>4
<1>5. PhaseCount \in Good
  <2>1. 0..PhaseCount \subseteq Good
    <3> HIDE DEF Good
    <3> QED BY <1>3, <1>4, Induction
  <2> QED BY <2>1
<1>6. Ranked(s) \subseteq f[PhaseCount]
  BY <1>1, <1>2, <1>5 DEF Ranked
<1> QED BY <1>1, <1>5, <1>6

LEMMA ReachedUnfolds ==
  ASSUME NEW g \in Graphs,
         NEW chosen,
         chosen = CHOOSE f : f = [n \in 0..PhaseCount |->
                                    IF n = 0 THEN {}
                                    ELSE f[n - 1] \cup ReadyPhases(g, f[n - 1])]
  PROVE  Reaches(g, chosen)
<1> DEFINE reached(f) == [n \in 0..PhaseCount |->
                            IF n = 0 THEN {}
                            ELSE f[n - 1] \cup ReadyPhases(g, f[n - 1])]
           V == SUBSET Phases
           base == {}
           op == [S \in V |-> S \cup ReadyPhases(g, S)]
<1>1. base \in V /\ Steps(op, V) /\ PhaseCount \in Nat
  BY PhasesFinite DEF ReadyPhases, Steps
<1>2. PICK f : Iterates(f, PhaseCount, V, base, op)
  <2> HIDE DEF V, base, op
  <2> QED BY <1>1, Iteration
<1>3. \A n \in 0..PhaseCount : n # 0 <=> n \in 1..PhaseCount /\ n - 1 \in 0..PhaseCount
  BY PhasesFinite
<1>4. f = reached(f)
  <2>1. \A n \in 0..PhaseCount : n # 0 => f[n] = f[n - 1] \cup ReadyPhases(g, f[n - 1])
    BY <1>2, <1>3 DEF Iterates
  <2> QED BY <1>2, <2>1 DEF Iterates
<1>5. chosen = reached(chosen)
  <2>1. \E x : x = reached(x)
    <3> HIDE DEF reached
    <3> QED BY <1>4
  <2> QED BY <2>1
<1>6. Recurs(chosen, PhaseCount, V, base, op)
  <2>1. \A n \in 1..PhaseCount : n \in 0..PhaseCount /\ n # 0
    BY PhasesFinite
  <2>2. 0 \in 0..PhaseCount
    BY PhasesFinite
  <2> QED BY <1>5, <2>1, <2>2 DEF Recurs
<1>7. Iterates(chosen, PhaseCount, V, base, op)
  <2> HIDE DEF V, base, op
  <2> QED BY <1>1, <1>6, RecursionIterates
<1>8. \A n \in 1..PhaseCount : n - 1 \in 0..PhaseCount
  BY PhasesFinite
<1> QED BY <1>7, <1>8 DEF Iterates, Reaches

(* The scheduler's analysis is right about every plan of any size: a phase *)
(* is spoiled, or behind a cycle, or it has a place after all it depends   *)
(* on; and completing phases as they become ready gets through exactly     *)
(* those that have one (scheduler.rs).                                     *)
THEOREM EveryPlanIsOrdered == PhaseOrderIsSound
<1> SUFFICES ASSUME NEW g \in Graphs
             PROVE  LET order == PhaseOrder(g)
                        reached[n \in 0..PhaseCount] ==
                          IF n = 0 THEN {}
                          ELSE reached[n - 1] \cup ReadyPhases(g, reached[n - 1])
                    IN  /\ InvalidPhases(g) = {p \in Phases : Unknown \in Upstream(g, p)}
                        /\ CyclePhases(g) = {p \in Phases \ InvalidPhases(g) :
                                               (Upstream(g, p) \cup {p}) \cap OnCycle(g) # {}}
                        /\ \A i, j \in DOMAIN order :
                             i < j => order[j] \notin g[order[i]] \cup {order[i]}
                        /\ reached[PhaseCount] = Ordered(g)
  BY DEF PhaseOrderIsSound
<1> DEFINE order == PhaseOrder(g)
           reached[n \in 0..PhaseCount] ==
             IF n = 0 THEN {} ELSE reached[n - 1] \cup ReadyPhases(g, reached[n - 1])
<1>1. \A i, j \in DOMAIN order : i < j => order[j] \notin g[order[i]] \cup {order[i]}
  <2>1. PICK s : LoopInv(g, s) /\ order = s.order
    BY LoopEnds
  <2>2. s.order \in Seq(Phases) /\ DOMAIN s.order = 1..Len(s.order) /\ Len(s.order) \in Nat
    BY <2>1 DEF LoopInv, LoopStates
  <2> SUFFICES ASSUME NEW i \in 1..Len(s.order), NEW j \in 1..Len(s.order), i < j
               PROVE  s.order[j] \notin g[s.order[i]] \cup {s.order[i]}
    BY <2>1, <2>2
  <2>3. s.order[j] # s.order[i]
    BY <2>1, <2>2 DEF LoopInv
  <2>4. s.order[j] \notin Early(s, i)
    <3>1. \A k \in 1..i - 1 : k \in 1..Len(s.order) /\ k # j
      BY <2>2
    <3> QED BY <3>1, <2>1 DEF Early, LoopInv
  <2> QED BY <2>1, <2>3, <2>4 DEF LoopInv
<1>2. Reaches(g, reached)
  BY ReachedUnfolds
<1>3. reached[PhaseCount] = Ordered(g)
  <2> HIDE DEF reached
  <2> QED BY <1>2, ReachedIsOrdered
<1> QED BY <1>1, <1>3, InvalidMeansUnknown, CyclesAreFound

(* Whatever the program does, its scheduler is right about every plan      *)
(* (scheduler.rs, analyze_phase_graph).                                    *)
THEOREM SchedulesAreSound == CompanySpec => []SchedulerIsSound
<1>1. SchedulerIsSound
  BY EveryPlanIsOrdered DEF SchedulerIsSound
<1> QED BY <1>1, PTL
===============================================================================
