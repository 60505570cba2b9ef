-------------------------- MODULE MemoryIngestProofs --------------------------
(***************************************************************************)
(* First for PostgresBootstrap, then for MemoryIngest on top of it.  For   *)
(* any processes, rows and faults: until a process that judged a blank     *)
(* lock file, or one that was there before, removes the file of a process  *)
(* at work, one process bootstraps at a time, the marker and the           *)
(* fingerprint tell the truth, and no row goes.  And for any files,        *)
(* sources and limits, and any other processes at the same database: all   *)
(* that still holds, the cursors stay behind the rows, and, whatever       *)
(* happens to the lock, a line is stored once.                             *)
(***************************************************************************)
EXTENDS MemoryIngest, TLAPS

LEMMA FaultType == ASSUME faults \in 0..MaxFaults, Fault PROVE faults' \in 0..MaxFaults
BY StorageAssumption DEF Fault

(* All places, and the steps the actions take, have their types.           *)
TypeInv ==
    PgTypeOK /\ \A p \in Procs : proc[p].at = "make" => proc[p].step \in 1..Parts

LEMMA TypeInit == PgInit => TypeInv
<1> SUFFICES ASSUME PgInit PROVE TypeInv
  OBVIOUS
<1>1. cluster \in Clusters /\ lock \in Locks /\ faults \in 0..MaxFaults
  BY StorageAssumption DEF PgInit, Locks, NoCluster, Clusters, Configs, Parts
<1>2. misjudged \subseteq Procs /\ robbed \in BOOLEAN /\ server = "down"
  BY DEF PgInit
<1> QED
  BY <1>1, <1>2 DEF PgInit, TypeInv, PgTypeOK, Resting, Parts

LEMMA TypeStep == TypeInv /\ [PgNext]_pgVars => TypeInv'
<1> SUFFICES ASSUME TypeInv, [PgNext]_pgVars PROVE TypeInv'
  OBVIOUS
<1> USE DEF TypeInv, PgTypeOK, Move, Place, Locked, Parts, history
<1>1. ASSUME NEW p \in Procs, Ensure(p) PROVE TypeInv'
  BY <1>1 DEF Ensure
<1>2. ASSUME NEW p \in Procs, CreateLock(p) PROVE TypeInv'
  BY <1>2 DEF CreateLock, Locks
<1>3. ASSUME NEW p \in Procs, SignLock(p) PROVE TypeInv'
  <2>1. lock' \in Locks
    BY <1>3 DEF SignLock, Locks
  <2> QED
    BY <1>3, <2>1 DEF SignLock
<1>4. ASSUME NEW p \in Procs, JudgeLock(p) \/ RemoveLock(p) PROVE TypeInv'
  <2>1. robbed' \in BOOLEAN /\ misjudged' \subseteq Procs
    BY <1>4 DEF JudgeLock, RemoveLock
  <2> QED
    BY <1>4, <2>1 DEF JudgeLock, RemoveLock, Locks
<1>5. ASSUME NEW p \in Procs, CheckAgain(p) PROVE TypeInv'
  <2>1. (cluster.print # "current") \in BOOLEAN
    OBVIOUS
  <2> QED
    BY <1>5, <2>1 DEF CheckAgain
<1>6. ASSUME NEW p \in Procs, InitializeCluster(p) PROVE TypeInv'
  <2>1. [NoCluster EXCEPT !.version = TRUE] \in Clusters
    <3>1. NoCluster \in Clusters
      BY DEF Clusters, NoCluster, Configs
    <3> QED
      BY <3>1 DEF Clusters
  <2>2. cluster' \in Clusters
    BY <1>6, <2>1 DEF InitializeCluster
  <2> QED
    BY <1>6, <2>2 DEF InitializeCluster
<1>7. ASSUME NEW p \in Procs, WriteConfig(p) PROVE TypeInv'
  <2>1. cluster' \in Clusters
    BY <1>7 DEF WriteConfig, Clusters, Configs
  <2> QED
    BY <1>7, <2>1 DEF WriteConfig
<1>8. ASSUME NEW p \in Procs, StartServer(p) PROVE TypeInv'
  <2>1. cluster.conf \in Configs
    BY DEF Clusters
  <2> QED
    BY <1>8, <2>1 DEF StartServer, Configs
<1>9. ASSUME NEW p \in Procs, AwaitReady(p) PROVE TypeInv'
  BY <1>9 DEF AwaitReady
<1>10. ASSUME NEW p \in Procs, QuarantineCluster(p) PROVE TypeInv'
  BY <1>10 DEF QuarantineCluster, Clusters, NoCluster, Configs
<1>11. ASSUME NEW p \in Procs, MakePart(p) PROVE TypeInv'
  <2>1. cluster.made \in 0..Parts /\ proc[p].step \in 0..Parts + 1
    BY DEF Clusters
  <2>2. proc[p].step \in 0..Parts
    BY <1>11, <2>1 DEF MakePart
  <2>3. cluster' \in Clusters
    BY <1>11, <2>1, <2>2 DEF MakePart, Clusters
  <2> QED
    BY <1>11, <2>2, <2>3 DEF MakePart
<1>12. ASSUME NEW p \in Procs, WriteConfigFingerprint(p) PROVE TypeInv'
  <2>1. cluster' \in Clusters
    BY <1>12 DEF WriteConfigFingerprint, Clusters, Configs
  <2> QED
    BY <1>12, <2>1 DEF WriteConfigFingerprint
<1>13. ASSUME NEW p \in Procs, WriteInitializedMarker(p) PROVE TypeInv'
  <2>1. cluster' \in Clusters
    BY <1>13 DEF WriteInitializedMarker, Clusters
  <2> QED
    BY <1>13, <2>1 DEF WriteInitializedMarker
<1>14. ASSUME NEW p \in Procs, Probe(p) PROVE TypeInv'
  BY <1>14 DEF Probe
<1>15. ASSUME NEW p \in Procs, ReleaseLock(p) PROVE TypeInv'
  BY <1>15 DEF ReleaseLock, Locks
<1>16. ASSUME NEW p \in Procs, Fail(p) PROVE TypeInv'
  BY <1>16, FaultType DEF Fail, Rest, Resting, Locks
<1>17. ASSUME NEW p \in Procs, NEW rows \in SUBSET Rows, Store(p, rows) PROVE TypeInv'
  <2>1. cluster' \in Clusters
    BY <1>17 DEF Store, Clusters
  <2> QED
    BY <1>17, <2>1 DEF Store
<1>18. ASSUME NEW p \in Procs, Leave(p) PROVE TypeInv'
  BY <1>18 DEF Leave, Rest, Resting
<1>19. ASSUME NEW p \in Procs, Kill(p) PROVE TypeInv'
  <2>1. lock' \in Locks
    BY <1>19 DEF Kill, Locks
  <2> QED
    BY <1>19, <2>1, FaultType DEF Kill, Rest, Resting
<1>20. CASE StopServer
  BY <1>20, FaultType DEF StopServer
<1>21. CASE UpdateApp
  <2>1. cluster' \in Clusters
    BY <1>21 DEF UpdateApp, Clusters, Configs
  <2> QED
    BY <1>21, <2>1, FaultType DEF UpdateApp
<1>22. CASE UNCHANGED pgVars
  BY <1>22 DEF pgVars
<1> QED
  BY <1>1, <1>2, <1>3, <1>4, <1>5, <1>6, <1>7, <1>8, <1>9, <1>10, <1>11, <1>12, <1>13, <1>14,
     <1>15, <1>16, <1>17, <1>18, <1>19, <1>20, <1>21, <1>22 DEF PgNext, Bootstrap

(* Places, lock, cluster and server keep their types.                      *)
THEOREM PgTypeInvariant == PgSpec => []PgTypeOK
<1>1. PgSpec => []TypeInv
  BY TypeInit, TypeStep, PTL DEF PgSpec
<1> QED
  BY <1>1, PTL DEF TypeInv

-----------------------------------------------------------------------------
(* The lock.  Who is at work owns it, and who is about to remove the file  *)
(* of one at work is known to have misjudged it.                           *)
LockInv ==
    /\ \A p \in Procs : Place(p) \in Locked =>
         lock = [state |-> IF Place(p) = "sign" THEN "blank" ELSE "owned", by |-> p]
    /\ \A p \in Procs :
         Place(p) = "remove" /\ lock # Free /\ Place(lock.by) \in Locked => p \in misjudged

LEMMA OneAtWork ==
    ASSUME LockInv, NEW p \in Procs, NEW q \in Procs, Place(p) \in Locked, Place(q) \in Locked
    PROVE  p = q
<1>1. lock.by = p /\ lock.by = q
  BY DEF LockInv
<1> QED
  BY <1>1

(* A step of p moves nobody else, except that a kill may mark the lock.    *)
LEMMA OthersStay ==
    ASSUME TypeInv, NEW p \in Procs, NEW rows,
           Bootstrap(p) \/ Leave(p) \/ Kill(p) \/ Store(p, rows)
    PROVE  \A q \in Procs : q # p => proc'[q] = proc[q]
<1> USE DEF TypeInv, PgTypeOK, Move, Rest
<1>1. CASE Leave(p) \/ Kill(p) \/ Store(p, rows) \/ Fail(p)
  BY <1>1 DEF Leave, Kill, Store, Fail
<1>2. CASE Ensure(p) \/ CreateLock(p) \/ SignLock(p) \/ JudgeLock(p) \/ RemoveLock(p) \/ CheckAgain(p)
  BY <1>2 DEF Ensure, CreateLock, SignLock, JudgeLock, RemoveLock, CheckAgain
<1>3. CASE InitializeCluster(p) \/ WriteConfig(p) \/ StartServer(p) \/ AwaitReady(p) \/ QuarantineCluster(p)
  BY <1>3 DEF InitializeCluster, WriteConfig, StartServer, AwaitReady, QuarantineCluster
<1>4. CASE MakePart(p) \/ WriteConfigFingerprint(p) \/ WriteInitializedMarker(p) \/ Probe(p) \/ ReleaseLock(p)
  BY <1>4 DEF MakePart, WriteConfigFingerprint, WriteInitializedMarker, Probe, ReleaseLock
<1> QED
  BY <1>1, <1>2, <1>3, <1>4 DEF Bootstrap

LEMMA LockStep ==
    ASSUME TypeInv, LockInv, [PgNext]_pgVars, ~robbed' PROVE LockInv'
<1> USE DEF Place
<1>1. ASSUME NEW p \in Procs, NEW rows \in SUBSET Rows,
             Bootstrap(p) \/ Leave(p) \/ Kill(p) \/ Store(p, rows)
      PROVE  LockInv'
  <2>1. \A q \in Procs : q # p => proc'[q] = proc[q]
    BY <1>1, OthersStay
  <2> DEFINE at == proc[p].at
             next == proc'[p].at
  <2>2. lock # Free => lock.by \in Procs /\ lock.state \in {"blank", "owned", "dead"}
    BY DEF TypeInv, PgTypeOK, Locks
  <2>3. CASE UNCHANGED <<lock, misjudged>> /\ at \in Locked /\ (at # "sign" /\ next # "sign") /\ next \in Locked
    <3>1. next # "remove" /\ \A q \in Procs : proc'[q].at \in Locked <=> proc[q].at \in Locked
      BY <2>1, <2>3 DEF Locked
    <3> QED
      BY <2>1, <2>2, <2>3, <3>1 DEF LockInv
  <2>4. CASE UNCHANGED lock /\ next \notin Locked \cup {"remove"} /\ misjudged \ {p} \subseteq misjudged'
    BY <2>1, <2>2, <2>4 DEF LockInv
  <2>5. CASE CreateLock(p)
    <3>1. /\ next = "sign" /\ at = "acquire" /\ lock = Free
          /\ lock' = [state |-> "blank", by |-> p]
          /\ \A q \in Procs : proc[q].at = "remove" => q \in misjudged'
      BY <2>5 DEF CreateLock, Move, TypeInv, PgTypeOK
    <3>2. \A q \in Procs : proc[q].at \notin Locked
      <4>1. \A q \in Procs : Free # [state |-> IF proc[q].at = "sign" THEN "blank" ELSE "owned", by |-> q]
        <5>1. \A q : [state |-> IF proc[q].at = "sign" THEN "blank" ELSE "owned", by |-> q].state # "free"
          OBVIOUS
        <5> QED
          BY <5>1 DEF Free
      <4> QED
        BY <3>1, <4>1 DEF LockInv
    <3> QED
      BY <2>1, <3>1, <3>2 DEF LockInv, Locked
  <2>6. CASE SignLock(p)
    <3>1. at = "sign" /\ next = "check" /\ lock = [state |-> "blank", by |-> p] /\ UNCHANGED misjudged
      BY <2>6 DEF SignLock, Move, TypeInv, PgTypeOK, LockInv, Locked, history
    <3>2. lock' = [state |-> "owned", by |-> p]
      BY <2>6, <3>1 DEF SignLock
    <3>3. \A q \in Procs : q # p => proc[q].at \notin Locked
      BY <3>1, OneAtWork DEF Locked
    <3>4. lock # Free /\ lock.by = p
      BY <3>1 DEF Free
    <3>5. \A q \in Procs : proc[q].at = "remove" => q \in misjudged
      BY <3>1, <3>4 DEF LockInv, Locked
    <3> QED
      BY <2>1, <3>1, <3>2, <3>3, <3>5 DEF LockInv, Locked
  <2>7. CASE JudgeLock(p)
    <3>1. /\ next = "remove" /\ at = "acquire" /\ UNCHANGED lock /\ lock # Free
          /\ lock.state \in {"blank", "dead"} /\ misjudged \subseteq misjudged'
          /\ lock.state = "blank" /\ proc[lock.by].at = "sign" => p \in misjudged'
      BY <2>7 DEF JudgeLock, Stale, Move, TypeInv, PgTypeOK
    <3>2. proc[lock.by].at \in Locked => p \in misjudged'
      <4> SUFFICES ASSUME proc[lock.by].at \in Locked PROVE p \in misjudged'
        OBVIOUS
      <4>1. lock = [state |-> IF proc[lock.by].at = "sign" THEN "blank" ELSE "owned", by |-> lock.by]
        BY <2>2, <3>1 DEF LockInv
      <4>2. lock.state = "blank" /\ proc[lock.by].at = "sign"
        BY <3>1, <4>1
      <4> QED
        BY <3>1, <4>2
    <3>3. "remove" \notin Locked /\ "acquire" \notin Locked
      BY DEF Locked
    <3> QED
      BY <2>1, <2>2, <3>1, <3>2, <3>3 DEF LockInv
  <2>8. CASE RemoveLock(p)
    <3>1. /\ next = "acquire" /\ at = "remove" /\ lock # Free /\ lock' = Free
          /\ ~(p \in misjudged /\ proc[lock.by].at \in Locked)
      BY <2>8 DEF RemoveLock, Move, TypeInv, PgTypeOK
    <3>2. \A q \in Procs : proc[q].at \notin Locked
      <4> SUFFICES ASSUME NEW q \in Procs, proc[q].at \in Locked PROVE FALSE
        OBVIOUS
      <4>1. lock.by = q
        BY DEF LockInv
      <4> QED
        BY <3>1, <4>1 DEF LockInv
    <3> QED
      BY <2>1, <3>1, <3>2 DEF LockInv, Locked
  <2>9. CASE ReleaseLock(p) \/ Fail(p)
    <3>1. next \notin Locked \cup {"remove"} /\ misjudged \ {p} \subseteq misjudged'
      BY <2>9 DEF ReleaseLock, Fail, Move, Rest, Resting, Locked, TypeInv, PgTypeOK, history
    <3>2. CASE UNCHANGED lock
      BY <2>4, <3>1, <3>2
    <3>3. CASE at \in Locked /\ lock' = Free
      <4>1. \A q \in Procs : q # p => proc[q].at \notin Locked
        BY <3>3, OneAtWork
      <4> QED
        BY <2>1, <3>1, <3>3, <4>1 DEF LockInv
    <3> QED
      BY <2>9, <3>2, <3>3 DEF ReleaseLock, Fail, Locked
  <2>10. CASE Kill(p)
    <3>1. next \notin Locked \cup {"remove"} /\ misjudged \ {p} \subseteq misjudged'
      BY <2>10 DEF Kill, Rest, Resting, Locked, TypeInv, PgTypeOK
    <3>2. CASE UNCHANGED lock
      BY <2>4, <3>1, <3>2
    <3>3. CASE lock # Free /\ lock.by = p /\ lock' = [lock EXCEPT !.state = "dead"]
      <4>1. \A q \in Procs : q # p => proc[q].at \notin Locked
        BY <3>3 DEF LockInv
      <4>2. \A q \in Procs : proc'[q].at \notin Locked
        BY <2>1, <3>1, <4>1
      <4>3. lock'.by = p
        BY <3>3 DEF TypeInv, PgTypeOK, Locks
      <4> QED
        BY <4>2, <4>3 DEF LockInv
    <3> QED
      BY <2>10, <3>2, <3>3 DEF Kill
  <2>11. CASE Ensure(p) \/ Leave(p) \/ Store(p, rows)
    BY <2>1, <2>4, <2>11 DEF Ensure, Leave, Store, Rest, Resting, Move, Locked, TypeInv, PgTypeOK, history
  <2>12. CASE CheckAgain(p) \/ InitializeCluster(p) \/ WriteConfig(p) \/ StartServer(p) \/ Probe(p)
    BY <2>3, <2>12 DEF CheckAgain, InitializeCluster, WriteConfig, StartServer, Probe, Move,
       Locked, TypeInv, PgTypeOK, history
  <2>13. CASE AwaitReady(p) \/ QuarantineCluster(p) \/ MakePart(p) \/ WriteConfigFingerprint(p)
              \/ WriteInitializedMarker(p)
    BY <2>3, <2>13 DEF AwaitReady, QuarantineCluster, MakePart, WriteConfigFingerprint,
       WriteInitializedMarker, Move, Locked, TypeInv, PgTypeOK, history
  <2> QED
    BY <1>1, <2>5, <2>6, <2>7, <2>8, <2>9, <2>10, <2>11, <2>12, <2>13 DEF Bootstrap
<1>2. CASE StopServer \/ UpdateApp \/ UNCHANGED pgVars
  BY <1>2 DEF StopServer, UpdateApp, pgVars, LockInv, history
<1> QED
  BY <1>1, <1>2 DEF PgNext

(* A robbery is not forgotten.                                             *)
LEMMA RobberyStays == [PgNext]_pgVars => (robbed => robbed')
<1> SUFFICES ASSUME [PgNext]_pgVars, robbed PROVE robbed'
  OBVIOUS
<1>1. CASE StopServer \/ UpdateApp \/ UNCHANGED pgVars
  BY <1>1 DEF StopServer, UpdateApp, pgVars, history
<1>2. ASSUME NEW p \in Procs, NEW rows, Leave(p) \/ Kill(p) \/ Store(p, rows) \/ Fail(p) PROVE robbed'
  BY <1>2 DEF Leave, Kill, Store, Fail, Rest, history
<1>3. ASSUME NEW p \in Procs, Ensure(p) \/ CreateLock(p) \/ SignLock(p) \/ JudgeLock(p)
                               \/ RemoveLock(p) \/ CheckAgain(p) \/ InitializeCluster(p)
      PROVE  robbed'
  BY <1>3 DEF Ensure, CreateLock, SignLock, JudgeLock, RemoveLock, CheckAgain, InitializeCluster, history
<1>4. ASSUME NEW p \in Procs, WriteConfig(p) \/ StartServer(p) \/ AwaitReady(p) \/ QuarantineCluster(p)
                               \/ MakePart(p) \/ WriteConfigFingerprint(p)
      PROVE  robbed'
  BY <1>4 DEF WriteConfig, StartServer, AwaitReady, QuarantineCluster, MakePart, WriteConfigFingerprint,
     history
<1>5. ASSUME NEW p \in Procs, WriteInitializedMarker(p) \/ Probe(p) \/ ReleaseLock(p) PROVE robbed'
  BY <1>5 DEF WriteInitializedMarker, Probe, ReleaseLock, history
<1> QED
  BY <1>1, <1>2, <1>3, <1>4, <1>5 DEF PgNext, Bootstrap

BootInv == TypeInv /\ (~robbed => LockInv)

LEMMA BootInvariant == PgSpec => []BootInv
<1>1. PgInit => BootInv
  BY TypeInit DEF BootInv, LockInv, PgInit, Resting, Place, Locked
<1>2. BootInv /\ [PgNext]_pgVars => BootInv'
  BY TypeStep, LockStep, RobberyStays DEF BootInv
<1> QED
  BY <1>1, <1>2, PTL DEF PgSpec

(* For any number of processes, kills and failed commands one of them at   *)
(* most is between the creation of bootstrap.lock and its release, until   *)
(* the file of one at work is removed by a process that saw it blank or    *)
(* saw another.                                                            *)
THEOREM OneBootstrapAtATime == PgSpec => []BootstrapIsExclusive
<1>1. BootInv => BootstrapIsExclusive
  BY OneAtWork DEF BootInv, BootstrapIsExclusive
<1> QED
  BY <1>1, BootInvariant, PTL

-----------------------------------------------------------------------------
(* What the process at work has achieved at each of its places.  A server  *)
(* that is down or runs the configuration on disk is in tune.              *)
InTune == server # "stale"
ClusterInv ==
    /\ cluster.marker => cluster.version /\ cluster.made = Parts
    /\ cluster.rows # {} => cluster.marker
    /\ cluster.print = "current" => InTune
WorkInv ==
    \A p \in Procs :
        /\ Place(p) \in {"probe", "release", "ok"} => cluster.marker
        /\ Place(p) \in {"configure", "start", "await", "quarantine", "make", "print", "mark"} =>
              cluster.version
        /\ Place(p) = "quarantine" => ~cluster.marker
        /\ Place(p) = "start" => cluster.conf = "current"
        /\ Place(p) \in {"print", "mark"} => cluster.made = Parts
        /\ Place(p) \in {"await", "quarantine", "make", "print"} => InTune
        /\ Place(p) \in {"init", "configure", "start"} /\ ~proc[p].changed => InTune

MarkerAndRowsStay ==
    /\ cluster.marker => cluster'.marker
    /\ cluster.rows \subseteq cluster'.rows

(* While p is at work only its own steps and stops of the server matter.   *)
LEMMA WorkStep ==
    ASSUME TypeInv, LockInv, ClusterInv, WorkInv, [PgNext]_pgVars
    PROVE  ClusterInv' /\ WorkInv' /\ MarkerAndRowsStay
<1> USE DEF Place, Parts
<1>1. /\ server \in {"down", "stale", "current"} /\ proc \in [Procs -> [at : Locked \cup {"idle", "acquire", "remove", "ok"}, changed : BOOLEAN, step : 0..Parts + 1]]
      /\ cluster \in Clusters
  BY DEF TypeInv, PgTypeOK
<1>2. ASSUME NEW p \in Procs, NEW rows \in SUBSET Rows,
             Bootstrap(p) \/ Leave(p) \/ Kill(p) \/ Store(p, rows)
      PROVE  ClusterInv' /\ WorkInv' /\ MarkerAndRowsStay
  <2>1. \A q \in Procs : q # p => proc'[q] = proc[q]
    BY <1>2, OthersStay
  <2>2. proc[p].at \in Locked => \A q \in Procs : q # p => proc[q].at \notin Locked
    BY OneAtWork
  <2> DEFINE at == proc[p].at
             next == proc'[p].at
  <2>3. CASE UNCHANGED <<cluster, server>> /\ next \in {"idle", "acquire", "remove", "sign", "check"}
    BY <2>1, <2>3 DEF ClusterInv, WorkInv, MarkerAndRowsStay, InTune
  <2>4. CASE CreateLock(p) \/ SignLock(p) \/ JudgeLock(p) \/ RemoveLock(p) \/ Fail(p) \/ Leave(p) \/ Kill(p)
    BY <1>1, <2>3, <2>4
    DEF CreateLock, SignLock, JudgeLock, RemoveLock, Fail, Leave, Kill, Move, Rest, Resting
  <2>5. CASE Ensure(p)
    <3>1. next = "acquire" \/ (next = "ok" /\ cluster.marker)
      BY <1>1, <2>5 DEF Ensure, Current, Move
    <3> QED
      BY <2>1, <2>5, <3>1 DEF Ensure, ClusterInv, WorkInv, MarkerAndRowsStay, InTune
  <2>6. CASE CheckAgain(p)
    <3>1. next = "init" \/ (next = "release" /\ cluster.marker)
      BY <1>1, <2>6 DEF CheckAgain, Current
    <3>2. ~proc'[p].changed => cluster.print = "current"
      BY <1>1, <2>6 DEF CheckAgain
    <3> QED
      BY <2>1, <2>6, <3>1, <3>2 DEF CheckAgain, ClusterInv, WorkInv, MarkerAndRowsStay, InTune
  <2>7. CASE InitializeCluster(p)
    <3>1. at = "init" /\ next = "configure" /\ proc'[p].changed = proc[p].changed
      BY <1>1, <2>7 DEF InitializeCluster, Move
    <3>2. CASE cluster.version
      <4>1. UNCHANGED <<cluster, server>>
        BY <2>7, <3>2 DEF InitializeCluster
      <4> QED
        BY <2>1, <3>1, <3>2, <4>1 DEF ClusterInv, WorkInv, MarkerAndRowsStay, InTune
    <3>3. CASE ~cluster.version
      <4>1. cluster.rows = {} /\ ~cluster.marker
        BY <3>3 DEF ClusterInv
      <4>2. cluster'.version /\ ~cluster'.marker /\ cluster'.rows = {} /\ cluster'.print = "none" /\ UNCHANGED server
        BY <2>7, <3>3 DEF InitializeCluster, NoCluster
      <4>3. \A q \in Procs : q # p => proc[q].at \in {"idle", "acquire", "remove"}
        BY <1>1, <2>2, <3>1, <4>1 DEF WorkInv, Locked
      <4> QED
        BY <2>1, <3>1, <4>1, <4>2, <4>3 DEF ClusterInv, WorkInv, MarkerAndRowsStay, InTune
    <3> QED
      BY <3>2, <3>3
  <2>8. CASE WriteConfig(p)
    <3>1. at = "configure" /\ next = "start" /\ proc'[p].changed = proc[p].changed
      BY <1>1, <2>8 DEF WriteConfig, Move
    <3>2. /\ cluster'.conf = "current" /\ cluster'.version = cluster.version /\ cluster'.made = cluster.made
          /\ cluster'.rows = cluster.rows /\ cluster'.print = cluster.print
          /\ cluster'.marker = cluster.marker /\ UNCHANGED server
      BY <1>1, <2>8 DEF WriteConfig, Clusters
    <3> QED
      BY <2>1, <2>2, <3>1, <3>2 DEF ClusterInv, WorkInv, MarkerAndRowsStay, InTune, Locked
  <2>9. CASE StartServer(p)
    <3>1. at = "start" /\ next = "await" /\ UNCHANGED cluster
      BY <1>1, <2>9 DEF StartServer, Move
    <3>2. server' = "current" \/ (server' = server /\ ~proc[p].changed)
      BY <2>9, <3>1 DEF StartServer, WorkInv
    <3>3. InTune'
      BY <3>1, <3>2 DEF WorkInv, InTune
    <3> QED
      BY <2>1, <2>2, <3>1, <3>3 DEF ClusterInv, WorkInv, MarkerAndRowsStay, Locked
  <2>10. CASE AwaitReady(p)
    <3>1. /\ at = "await" /\ UNCHANGED <<cluster, server>>
          /\ next = "make" \/ (next = "quarantine" /\ (Up \/ ~cluster.marker) /\ ~Up)
      BY <1>1, <2>10 DEF AwaitReady
    <3> QED
      BY <2>1, <2>10, <3>1 DEF ClusterInv, WorkInv, MarkerAndRowsStay, InTune
  <2>11. CASE QuarantineCluster(p)
    <3>1. at = "quarantine" /\ next = "init" /\ UNCHANGED server /\ cluster' = NoCluster
      BY <1>1, <2>11 DEF QuarantineCluster, Move
    <3>2. cluster.rows = {} /\ ~cluster.marker /\ InTune
      BY <3>1 DEF WorkInv, ClusterInv
    <3>3. \A q \in Procs : q # p => proc[q].at \in {"idle", "acquire", "remove"}
      BY <1>1, <2>2, <3>1, <3>2 DEF WorkInv, Locked
    <3> QED
      BY <2>1, <3>1, <3>2, <3>3 DEF ClusterInv, WorkInv, MarkerAndRowsStay, InTune, NoCluster
  <2>12. CASE MakePart(p)
    <3>1. /\ at = "make" /\ UNCHANGED server
          /\ next = "make" \/ (next = "print" /\ proc[p].step = Parts)
      BY <1>1, <2>12 DEF MakePart
    <3>2. /\ cluster'.version = cluster.version /\ cluster'.conf = cluster.conf
          /\ cluster'.rows = cluster.rows /\ cluster'.print = cluster.print
          /\ cluster'.marker = cluster.marker
          /\ cluster'.made = IF cluster.made < proc[p].step THEN proc[p].step ELSE cluster.made
      BY <1>1, <2>12 DEF MakePart, Clusters
    <3>3. cluster.made \in 0..4 /\ proc[p].step \in 1..4
      BY <1>1, <3>1 DEF Clusters, TypeInv
    <3>4. (next = "print" \/ cluster.made = Parts) => cluster'.made = Parts
      BY <3>1, <3>2, <3>3
    <3> QED
      BY <2>1, <2>2, <3>1, <3>2, <3>4 DEF ClusterInv, WorkInv, MarkerAndRowsStay, InTune, Locked
  <2>13. CASE WriteConfigFingerprint(p)
    <3>1. at = "print" /\ next = "mark" /\ UNCHANGED server
      BY <1>1, <2>13 DEF WriteConfigFingerprint, Move
    <3>2. /\ cluster'.conf = cluster.conf /\ cluster'.version = cluster.version /\ cluster'.made = cluster.made
          /\ cluster'.rows = cluster.rows /\ cluster'.marker = cluster.marker
      BY <1>1, <2>13 DEF WriteConfigFingerprint, Clusters
    <3> QED
      BY <2>1, <2>2, <3>1, <3>2 DEF ClusterInv, WorkInv, MarkerAndRowsStay, InTune, Locked
  <2>14. CASE WriteInitializedMarker(p)
    <3>1. at = "mark" /\ next = "probe" /\ UNCHANGED server
      BY <1>1, <2>14 DEF WriteInitializedMarker, Move
    <3>2. /\ cluster'.conf = cluster.conf /\ cluster'.version = cluster.version /\ cluster'.made = cluster.made
          /\ cluster'.rows = cluster.rows /\ cluster'.print = cluster.print /\ cluster'.marker = TRUE
      BY <1>1, <2>14 DEF WriteInitializedMarker, Clusters
    <3> QED
      BY <2>1, <2>2, <3>1, <3>2 DEF ClusterInv, WorkInv, MarkerAndRowsStay, InTune, Locked
  <2>15. CASE Probe(p) \/ ReleaseLock(p)
    <3>1. at \in {"probe", "release"} /\ next \in {"release", "ok"} /\ UNCHANGED <<cluster, server>>
      BY <1>1, <2>15 DEF Probe, ReleaseLock, Move
    <3> QED
      BY <2>1, <3>1 DEF ClusterInv, WorkInv, MarkerAndRowsStay, InTune
  <2>16. CASE Store(p, rows)
    <3>1. at = "ok" /\ UNCHANGED <<proc, server>>
      BY <2>16 DEF Store
    <3>2. /\ cluster'.conf = cluster.conf /\ cluster'.version = cluster.version /\ cluster'.made = cluster.made
          /\ cluster.rows \subseteq cluster'.rows /\ cluster'.print = cluster.print
          /\ cluster'.marker = cluster.marker
      BY <1>1, <2>16 DEF Store, Clusters
    <3> QED
      BY <3>1, <3>2 DEF ClusterInv, WorkInv, MarkerAndRowsStay, InTune
  <2> QED
    BY <1>2, <2>4, <2>5, <2>6, <2>7, <2>8, <2>9, <2>10, <2>11, <2>12, <2>13, <2>14, <2>15, <2>16
    DEF Bootstrap
<1>3. CASE StopServer
  BY <1>3 DEF StopServer, ClusterInv, WorkInv, MarkerAndRowsStay, InTune
<1>4. CASE UpdateApp
  <2>1. /\ cluster'.version = cluster.version /\ cluster'.made = cluster.made /\ cluster'.rows = cluster.rows
        /\ cluster'.marker = cluster.marker /\ cluster'.print # "current"
    BY <1>1, <1>4 DEF UpdateApp, Clusters
  <2> QED
    BY <1>4, <2>1 DEF UpdateApp, ClusterInv, WorkInv, MarkerAndRowsStay, InTune
<1>5. CASE UNCHANGED pgVars
  BY <1>5 DEF pgVars, ClusterInv, WorkInv, MarkerAndRowsStay, InTune
<1> QED
  BY <1>2, <1>3, <1>4, <1>5 DEF PgNext

PgInv == BootInv /\ (~robbed => ClusterInv /\ WorkInv)

LEMMA PgStepInv ==
    ASSUME PgInv, [PgNext]_pgVars
    PROVE  PgInv' /\ (~robbed => MarkerAndRowsStay)
BY TypeStep, LockStep, WorkStep, RobberyStays DEF PgInv, BootInv

LEMMA WorkInvariant == PgSpec => []PgInv
<1>1. PgInit => PgInv
  BY TypeInit DEF PgInv, BootInv, LockInv, PgInit, ClusterInv, WorkInv, Resting, Place, Locked, NoCluster
<1>2. PgInv /\ [PgNext]_pgVars => PgInv'
  BY PgStepInv
<1> QED
  BY <1>1, <1>2, PTL DEF PgSpec

(* Whoever is killed where, and whenever the server stops, initialized.json *)
(* vouches for a whole cluster, and the config fingerprint for a server    *)
(* that reads the configuration on disk, until a bootstrap is robbed.      *)
THEOREM MarkerTellsTheTruth == PgSpec => []MarkerMeansReady
<1>1. PgInv => MarkerMeansReady
  BY DEF PgInv, BootInv, TypeInv, PgTypeOK, ClusterInv, InTune, MarkerMeansReady
<1> QED
  BY <1>1, WorkInvariant, PTL

(* No re-initialization and no quarantine takes away a row that was        *)
(* stored, until a bootstrap is robbed of its lock.                        *)
THEOREM NoRowIsLost == PgSpec => RowsSurvive
<1>1. PgInv /\ [PgNext]_pgVars => [~robbed => cluster.rows \subseteq cluster'.rows]_pgVars
  BY PgStepInv DEF MarkerAndRowsStay
<1> QED
  BY <1>1, WorkInvariant, PTL DEF PgSpec, RowsSurvive

-----------------------------------------------------------------------------
(* The ingest daemon on the database.                                      *)
Offsets == [Files -> 0..MaxLength]
Ticks == [at : {"asleep", "read", "write", "save"}, offset : Offsets, files : SUBSET Files,
          lines : 0..MaxLines, found : SUBSET Rows, batch : SUBSET Rows]

(* A tick only has files left, and records found, while it reads.          *)
IngestTypeInv ==
    /\ length \in Offsets
    /\ cursorFile \in [readable : BOOLEAN, offset : Offsets]
    /\ tick \in Ticks
    /\ resliced \in BOOLEAN
    /\ \A f \in Files : cursorFile.offset[f] <= length[f] /\ tick.offset[f] <= length[f]
    /\ tick.files = {} \/ tick.at # "read" => tick.found = {}
    /\ tick.at # "read" => tick.files = {}

(* What an ingest step does to the database is a step of PostgresBootstrap *)
(* or the fault of a daemon that was not at work with it.                  *)
LoneFault == Fault /\ UNCHANGED <<proc, lock, cluster, server, history>>
PgStep == [PgNext]_pgVars \/ LoneFault

LEMMA StepIsPgStep ==
    ASSUME IngestTypeInv, [IngestNext]_allVars
    PROVE  PgStep
<1> USE IngestAssumption
<1>1. ASSUME NEW chunk \in SUBSET tick.batch, Store(Daemon, chunk) PROVE PgStep
  <2>1. chunk \in SUBSET Rows
    BY DEF IngestTypeInv, Ticks
  <2> QED
    BY <1>1, <2>1 DEF PgStep, PgNext
<1>2. CASE UNCHANGED pgVars
  BY <1>2 DEF PgStep
<1>3. CASE \/ EnsureStorage \/ WriteChunk \/ WriteEnds
  BY <1>1, <1>3 DEF EnsureStorage, WriteChunk, WriteEnds, PgStep, PgNext
<1>4. CASE KillDaemon \/ KillWhileSaving
  BY <1>4 DEF KillDaemon, KillWhileSaving, LoneFault, PgStep, PgNext
<1>5. CASE Others
  BY <1>5 DEF Others, PgStep, PgNext
<1>6. ASSUME NEW f \in Files, AppendLine(f) \/ ReadFile(f) \/ SourceFails(f) PROVE PgStep
  BY <1>2, <1>6 DEF AppendLine, ReadFile, SourceFails
<1>7. CASE LoadCursors \/ EndReading \/ SaveCursors \/ UNCHANGED allVars
  BY <1>2, <1>7 DEF LoadCursors, EndReading, SaveCursors, allVars
<1> QED
  BY <1>3, <1>4, <1>5, <1>6, <1>7 DEF IngestNext, DaemonStep

LEMMA PgInvStep ==
    ASSUME PgInv, PgStep
    PROVE  /\ PgInv' /\ (robbed => robbed')
           /\ ~robbed => cluster.rows \subseteq cluster'.rows
<1>1. CASE [PgNext]_pgVars
  BY <1>1, PgStepInv, RobberyStays DEF MarkerAndRowsStay
<1>2. CASE LoneFault
  <2>1. TypeInv'
    BY <1>2, FaultType DEF LoneFault, PgInv, BootInv, TypeInv, PgTypeOK, history
  <2> QED
    BY <1>2, <2>1 DEF LoneFault, PgInv, BootInv, LockInv, ClusterInv, WorkInv, Place, InTune, history
<1> QED
  BY <1>1, <1>2 DEF PgStep

LEMMA Limits == MaxLength \in Nat /\ MaxLines \in Nat /\ 0 \in 0..MaxLines
BY IngestAssumption

LEMMA AsleepIsATick ==
    /\ Start0 \in Offsets /\ \A f \in Files : Start0[f] = 0
    /\ Asleep \in Ticks /\ Asleep.at = "asleep" /\ Asleep.offset = Start0
    /\ Asleep.files = {} /\ Asleep.found = {} /\ Asleep.batch = {}
<1>1. Start0 \in Offsets /\ \A f \in Files : Start0[f] = 0
  BY Limits DEF Start0, Offsets
<1> QED
  BY <1>1, Limits DEF Asleep, Ticks

LEMMA IngestInitInv == IngestInit => IngestTypeInv /\ PgInv
<1> SUFFICES ASSUME IngestInit PROVE IngestTypeInv /\ PgInv
  OBVIOUS
<1>1. PgInv
  BY TypeInit DEF IngestInit, PgInv, BootInv, LockInv, ClusterInv, WorkInv, PgInit, Resting, Place,
     Locked, NoCluster
<1>2. /\ cursorFile \in [readable : BOOLEAN, offset : Offsets] /\ cursorFile.offset = Start0
      /\ length = Start0 /\ tick = Asleep /\ resliced = FALSE
  BY AsleepIsATick DEF IngestInit, Cursors
<1>3. \A f \in Files : cursorFile.offset[f] <= length[f] /\ tick.offset[f] <= length[f]
  BY <1>2, AsleepIsATick
<1> QED
  BY <1>1, <1>2, <1>3, AsleepIsATick DEF IngestTypeInv
-----------------------------------------------------------------------------
(* The slice that is read of a file lies within it, and within the limit.  *)
LEMMA SliceFits ==
    ASSUME IngestTypeInv, NEW f \in Files,
           NEW lines, lines \in {0, Lowest(length[f] - tick.offset[f], MaxLines - tick.lines)}
    PROVE  /\ lines \in Nat /\ tick.offset[f] \in 0..MaxLength
           /\ tick.offset[f] + lines \in 0..length[f] /\ length[f] \in 0..MaxLength
           /\ tick.lines + lines \in 0..MaxLines
           /\ Record(f, tick.offset[f], lines) \in SUBSET Rows
           /\ [tick.offset EXCEPT ![f] = tick.offset[f] + lines] \in Offsets
<1> USE IngestAssumption
<1>1. /\ length[f] \in 0..MaxLength /\ tick.offset[f] \in 0..MaxLength
      /\ tick.offset[f] <= length[f] /\ tick.lines \in 0..MaxLines /\ tick.offset \in Offsets
  BY DEF IngestTypeInv, Offsets, Ticks
<1>2. /\ lines \in Nat /\ tick.offset[f] + lines \in 0..length[f]
      /\ tick.lines + lines \in 0..MaxLines
  BY <1>1 DEF Lowest
<1>3. tick.offset[f] + lines \in 0..MaxLength
  BY <1>1, <1>2
<1>4. Record(f, tick.offset[f], lines) \in SUBSET Rows
  <2>1. tick.offset[f] + 1..tick.offset[f] + lines \subseteq 1..MaxLength
    BY <1>1, <1>2, <1>3
  <2> QED
    BY <1>1, <2>1 DEF Record
<1> QED
  BY <1>1, <1>2, <1>3, <1>4 DEF Offsets

LEMMA IngestTypeStep ==
    ASSUME IngestTypeInv, [IngestNext]_allVars
    PROVE  IngestTypeInv'
<1>1. \A f \in Files : 0 <= length[f]
  <2>1. length \in Offsets
    BY DEF IngestTypeInv
  <2> QED
    BY <2>1, Limits DEF Offsets
<1>a. CASE tick' = Asleep /\ UNCHANGED <<length, cursorFile>> /\ resliced' \in BOOLEAN
  BY <1>1, <1>a, AsleepIsATick DEF IngestTypeInv
<1>2. CASE UNCHANGED ingestVars
  BY <1>2 DEF IngestTypeInv, ingestVars
<1>3. ASSUME NEW f \in Files, AppendLine(f) PROVE IngestTypeInv'
  <2>1. length' \in Offsets /\ \A g \in Files : length[g] <= length'[g]
    <3>1. /\ length \in [Files -> 0..MaxLength] /\ length[f] < MaxLength
          /\ length' = [length EXCEPT ![f] = length[f] + 1]
      BY <1>3 DEF AppendLine, IngestTypeInv, Offsets
    <3> QED
      BY <3>1, Limits DEF Offsets
  <2>2. \A g \in Files : cursorFile.offset[g] \in Nat /\ tick.offset[g] \in Nat /\ length[g] \in Nat
                         /\ length'[g] \in Nat
    BY <2>1 DEF IngestTypeInv, Offsets, Ticks
  <2> QED
    BY <1>3, <2>1, <2>2 DEF AppendLine, IngestTypeInv
<1>4. CASE LoadCursors
  <2>1. tick' = [at |-> "read", offset |-> cursorFile.offset, files |-> Files, lines |-> 0,
                 found |-> {}, batch |-> {}]
    BY <1>4 DEF LoadCursors, Asleep
  <2>2. cursorFile.offset \in Offsets /\ \A f \in Files : cursorFile.offset[f] <= length[f]
    BY DEF IngestTypeInv
  <2>3. tick' \in Ticks
    BY <2>1, <2>2, Limits DEF Ticks
  <2>4. tick'.at = "read" /\ tick'.offset = cursorFile.offset /\ tick'.found = {}
    BY <2>1
  <2>5. UNCHANGED <<length, cursorFile, resliced>>
    BY <1>4 DEF LoadCursors
  <2> QED
    BY <2>2, <2>3, <2>4, <2>5 DEF IngestTypeInv
<1>5. ASSUME NEW f \in Files, ReadFile(f) PROVE IngestTypeInv'
  <2> DEFINE from == tick.offset[f]
             lines == Lowest(length[f] - from, MaxLines - tick.lines)
             offset == [tick.offset EXCEPT ![f] = from + lines]
             found == tick.found \cup Record(f, from, lines)
  <2>1. /\ lines \in Nat /\ from + lines \in 0..length[f] /\ tick.lines + lines \in 0..MaxLines
        /\ Record(f, from, lines) \in SUBSET Rows /\ offset \in Offsets
    BY SliceFits
  <2>2. tick.at = "read" /\ tick \in Ticks
    BY <1>5 DEF ReadFile, TickAt, IngestTypeInv
  <2>3. found \in SUBSET Rows /\ tick.batch \cup found \in SUBSET Rows
    BY <2>1, <2>2 DEF Ticks
  <2>4. PICK rest \in SUBSET tick.files :
          \/ tick' = [tick EXCEPT !.files = rest, !.lines = 0, !.found = {},
                                  !.batch = @ \cup found, !.offset = offset]
          \/ rest # {} /\ tick' = [tick EXCEPT !.files = rest, !.lines = tick.lines + lines,
                                               !.found = found, !.offset = offset]
    BY <1>5 DEF ReadFile, Through
  <2>5. tick' \in Ticks /\ tick'.at = "read" /\ tick'.offset = offset
    <3>1. /\ tick'.at = "read" /\ tick'.offset = offset
          /\ tick' = [at |-> "read", offset |-> offset, files |-> rest, lines |-> tick'.lines,
                      found |-> tick'.found, batch |-> tick'.batch]
      BY <2>2, <2>4 DEF Ticks
    <3>2. tick'.lines \in 0..MaxLines /\ tick'.found \in SUBSET Rows /\ tick'.batch \in SUBSET Rows
      <4>1. tick'.lines \in {0, tick.lines + lines} /\ tick'.found \in {{}, found}
            /\ tick'.batch \in {tick.batch, tick.batch \cup found}
        BY <2>2, <2>4 DEF Ticks
      <4> QED
        BY <2>1, <2>2, <2>3, <4>1, Limits DEF Ticks
    <3>3. rest \in SUBSET Files
      BY <2>2 DEF Ticks
    <3> QED
      BY <2>1, <3>1, <3>2, <3>3 DEF Ticks
  <2>6. tick'.files = {} => tick'.found = {}
    BY <2>2, <2>4 DEF Ticks
  <2>7. \A g \in Files : tick'.offset[g] <= length[g]
    BY <2>1, <2>5 DEF IngestTypeInv, Offsets, Ticks
  <2>8. resliced' \in BOOLEAN
    BY <1>5 DEF ReadFile
  <2>9. UNCHANGED <<length, cursorFile>>
    BY <1>5 DEF ReadFile
  <2> QED
    BY <2>5, <2>6, <2>7, <2>8, <2>9 DEF IngestTypeInv
<1>6. ASSUME NEW f \in Files, SourceFails(f) PROVE IngestTypeInv'
  <2>1. PICK lines \in {0, Lowest(length[f] - tick.offset[f], MaxLines - tick.lines)} :
          /\ tick' = [tick EXCEPT !.files = @ \ Peers(f), !.lines = 0, !.found = {},
                                  !.offset = [@ EXCEPT ![f] = tick.offset[f] + lines]]
          /\ resliced' = (resliced \/ Recut(f, tick.offset[f], lines))
    BY <1>6 DEF SourceFails
  <2>2. /\ tick.offset[f] + lines \in 0..length[f]
        /\ [tick.offset EXCEPT ![f] = tick.offset[f] + lines] \in Offsets
    BY SliceFits
  <2>3. tick \in Ticks /\ tick.at = "read"
    BY <1>6 DEF SourceFails, TickAt, IngestTypeInv
  <2>4. /\ tick' \in Ticks /\ tick'.at = "read" /\ tick'.found = {}
        /\ tick'.offset = [tick.offset EXCEPT ![f] = tick.offset[f] + lines]
    <3>1. tick' = [at |-> "read", offset |-> [tick.offset EXCEPT ![f] = tick.offset[f] + lines],
                   files |-> tick.files \ Peers(f), lines |-> 0, found |-> {}, batch |-> tick.batch]
      BY <2>1, <2>3 DEF Ticks
    <3> QED
      BY <2>2, <2>3, <3>1, Limits DEF Ticks
  <2>5. \A g \in Files : tick'.offset[g] <= length[g]
    BY <2>2, <2>4 DEF IngestTypeInv, Offsets, Ticks
  <2> QED
    BY <1>6, <2>1, <2>4, <2>5 DEF SourceFails, IngestTypeInv
<1>7. CASE EndReading
  <2>1. tick' = [tick EXCEPT !.at = IF tick.batch = {} THEN "save" ELSE "write"]
    BY <1>7 DEF EndReading
  <2> QED
    BY <1>7, <2>1 DEF EndReading, TickAt, IngestTypeInv, Ticks
<1>8. CASE EnsureStorage \/ KillDaemon
  <2>1. tick' = tick \/ tick' = Asleep
    BY <1>8 DEF EnsureStorage, KillDaemon
  <2>2. UNCHANGED <<length, cursorFile, resliced>> /\ resliced' \in BOOLEAN
    BY <1>8 DEF EnsureStorage, KillDaemon, IngestTypeInv
  <2> QED
    BY <1>a, <2>1, <2>2 DEF IngestTypeInv
<1>9. CASE WriteChunk
  <2>1. PICK chunk \in SUBSET tick.batch : tick' = [tick EXCEPT !.batch = @ \ chunk]
    BY <1>9 DEF WriteChunk
  <2> QED
    BY <1>9, <2>1 DEF WriteChunk, IngestTypeInv, Ticks
<1>10. CASE WriteEnds
  <2>1. tick' = [tick EXCEPT !.at = "save"] \/ tick' = Asleep
    BY <1>10 DEF WriteEnds
  <2>2. UNCHANGED <<length, cursorFile, resliced>> /\ resliced' \in BOOLEAN /\ tick.at = "write"
    BY <1>10 DEF WriteEnds, TickAt, IngestTypeInv
  <2> QED
    BY <1>a, <2>1, <2>2 DEF IngestTypeInv, Ticks
<1>11. CASE SaveCursors \/ KillWhileSaving
  <2>1. /\ tick' = Asleep /\ UNCHANGED length /\ resliced' \in BOOLEAN
        /\ cursorFile' \in {Cursors(tick.offset), Cursors(Start0), Torn}
    BY <1>11 DEF SaveCursors, KillWhileSaving, IngestTypeInv
  <2>2. PICK offset \in {tick.offset, Start0} :
          cursorFile' = [readable |-> cursorFile'.readable, offset |-> offset]
          /\ cursorFile'.readable \in BOOLEAN
    <3>1. CASE cursorFile' = Cursors(tick.offset)
      BY <3>1 DEF Cursors
    <3>2. CASE cursorFile' = Cursors(Start0)
      BY <3>2 DEF Cursors
    <3>3. CASE cursorFile' = Torn
      BY <3>3 DEF Torn
    <3> QED
      BY <2>1, <3>1, <3>2, <3>3
  <2>3. offset \in Offsets /\ \A f \in Files : offset[f] <= length[f]
    BY <1>1, AsleepIsATick DEF IngestTypeInv, Ticks
  <2> QED
    BY <1>1, <2>1, <2>2, <2>3, AsleepIsATick DEF IngestTypeInv
<1> QED
  BY <1>2, <1>3, <1>4, <1>5, <1>6, <1>7, <1>8, <1>9, <1>10, <1>11
  DEF IngestNext, DaemonStep, Others, allVars
-----------------------------------------------------------------------------
(* The lines of f before its offset are among the records, or were dropped. *)
Behind(offset, records, lost) ==
    \A f \in Files : \A i \in 1..offset[f] :
        <<f, i>> \in lost \/ \E r \in records : r.file = f /\ r.line = i

LEMMA MoreIsBehind ==
    ASSUME NEW offset, NEW records, NEW more, NEW lost, NEW lost2,
           Behind(offset, records, lost), records \subseteq more, lost \subseteq lost2
    PROVE  Behind(offset, more, lost2)
<1> SUFFICES ASSUME NEW f \in Files, NEW i \in 1..offset[f]
             PROVE  <<f, i>> \in lost2 \/ \E r \in more : r.file = f /\ r.line = i
  BY Zenon DEF Behind
<1>1. <<f, i>> \in lost \/ \E r \in records : r.file = f /\ r.line = i
  BY Zenon DEF Behind
<1> QED
  BY <1>1

LEMMA ReadIsBehind ==
    ASSUME NEW offset \in Offsets, NEW records, NEW lost, NEW f \in Files, NEW lines \in Nat,
           Behind(offset, records, lost)
    PROVE  Behind([offset EXCEPT ![f] = offset[f] + lines],
                  records \cup Record(f, offset[f], lines), lost)
<1> DEFINE to == [offset EXCEPT ![f] = offset[f] + lines]
<1> SUFFICES ASSUME NEW g \in Files, NEW i \in 1..to[g]
             PROVE  \/ <<g, i>> \in lost
                    \/ \E r \in records \cup Record(f, offset[f], lines) : r.file = g /\ r.line = i
  BY DEF Behind
<1>1. \A h \in Files : offset[h] \in Nat /\ to[h] = IF h = f THEN offset[f] + lines ELSE offset[h]
  BY Limits DEF Offsets
<1>2. CASE i \in 1..offset[g]
  BY <1>2 DEF Behind
<1>3. CASE i \notin 1..offset[g]
  <2>1. g = f /\ i \in offset[f] + 1..offset[f] + lines
    BY <1>1, <1>3
  <2>2. [file |-> f, line |-> i, from |-> offset[f]] \in Record(f, offset[f], lines)
    BY <2>1 DEF Record
  <2> QED
    BY <2>1, <2>2
<1> QED
  BY <1>2, <1>3

(* What a failing source takes along counts as dropped.                    *)
LEMMA DropIsBehind ==
    ASSUME NEW offset, NEW records, NEW lost, NEW read,
           Behind(offset, records \cup read, lost)
    PROVE  Behind(offset, records, lost \cup {<<r.file, r.line>> : r \in read})
<1> SUFFICES ASSUME NEW f \in Files, NEW i \in 1..offset[f],
                    ~ \E r \in records : r.file = f /\ r.line = i
             PROVE  <<f, i>> \in lost \cup {<<r.file, r.line>> : r \in read}
  BY Zenon DEF Behind
<1>1. <<f, i>> \in lost \/ \E r \in records \cup read : r.file = f /\ r.line = i
  BY Zenon DEF Behind
<1> QED
  BY <1>1

(* The cursors on disk stay behind what is stored, those in memory behind  *)
(* that and what the tick has still to write.                              *)
CursorInv ==
    /\ cursorFile.readable => Behind(cursorFile.offset, cluster.rows, dropped)
    /\ Behind(tick.offset, cluster.rows \cup (tick.found \cup tick.batch), dropped)
    /\ tick.at = "save" => tick.batch = {}

(* What reading and failing do, whichever way the source is done with.     *)
LEMMA ReadEffect ==
    ASSUME IngestTypeInv, NEW f \in Files, ReadFile(f)
    PROVE  \E lines \in {0, Lowest(length[f] - tick.offset[f], MaxLines - tick.lines)} :
             /\ f \in tick.files /\ tick'.files \subseteq tick.files \ {f}
             /\ tick'.at = "read"
             /\ tick'.offset = [tick.offset EXCEPT ![f] = tick.offset[f] + lines]
             /\ tick'.found \cup tick'.batch =
                  (tick.found \cup tick.batch) \cup Record(f, tick.offset[f], lines)
             /\ resliced' = (resliced \/ Recut(f, tick.offset[f], lines))
<1> DEFINE lines == Lowest(length[f] - tick.offset[f], MaxLines - tick.lines)
           offset == [tick.offset EXCEPT ![f] = tick.offset[f] + lines]
           found == tick.found \cup Record(f, tick.offset[f], lines)
<1>1. /\ tick.at = "read" /\ f \in tick.files
      /\ resliced' = (resliced \/ Recut(f, tick.offset[f], lines))
  BY DEF ReadFile, TickAt, IsLatest
<1>2. PICK rest \in SUBSET (tick.files \ {f}) :
        \/ tick' = [tick EXCEPT !.files = rest, !.lines = 0, !.found = {},
                                !.batch = @ \cup found, !.offset = offset]
        \/ tick' = [tick EXCEPT !.files = rest, !.lines = tick.lines + lines,
                                !.found = found, !.offset = offset]
  BY DEF ReadFile, Through, Peers
<1>3. /\ tick'.at = "read" /\ tick'.files = rest /\ tick'.offset = offset
      /\ tick'.found \cup tick'.batch = tick.batch \cup found
  <2>1. tick \in Ticks
    BY DEF IngestTypeInv
  <2>2. /\ tick'.at = tick.at /\ tick'.files = rest /\ tick'.offset = offset
        /\ \/ tick'.found = {} /\ tick'.batch = tick.batch \cup found
           \/ tick'.found = found /\ tick'.batch = tick.batch
    BY <1>2, <2>1 DEF Ticks
  <2> QED
    BY <1>1, <2>2
<1> QED
  BY <1>1, <1>2, <1>3

LEMMA FailEffect ==
    ASSUME IngestTypeInv, NEW f \in Files, SourceFails(f)
    PROVE  \E lines \in {0, Lowest(length[f] - tick.offset[f], MaxLines - tick.lines)} :
             /\ f \in tick.files /\ tick'.files \subseteq tick.files \ {f}
             /\ tick'.at = "read" /\ tick'.found = {} /\ tick'.batch = tick.batch
             /\ tick'.offset = [tick.offset EXCEPT ![f] = tick.offset[f] + lines]
             /\ dropped' = dropped \cup {<<r.file, r.line>> :
                                         r \in tick.found \cup Record(f, tick.offset[f], lines)}
             /\ resliced' = (resliced \/ Recut(f, tick.offset[f], lines))
<1>1. f \in Peers(f) /\ tick \in Ticks
  BY DEF Peers, IngestTypeInv
<1> QED
  BY <1>1 DEF SourceFails, TickAt, IsLatest, Ticks

LEMMA ChunkEffect ==
    ASSUME IngestTypeInv, cluster \in Clusters, WriteChunk
    PROVE  \E chunk \in SUBSET tick.batch :
             /\ cluster'.rows = cluster.rows \cup chunk
             /\ tick'.at = "write" /\ tick'.offset = tick.offset /\ tick'.files = tick.files
             /\ tick'.found = tick.found /\ tick'.batch = tick.batch \ chunk
<1>1. PICK chunk \in SUBSET tick.batch : Store(Daemon, chunk) /\ tick' = [tick EXCEPT !.batch = @ \ chunk]
  BY DEF WriteChunk
<1>2. cluster'.rows = cluster.rows \cup chunk
  BY <1>1 DEF Store, Clusters
<1> QED
  BY <1>1, <1>2 DEF WriteChunk, TickAt, IngestTypeInv, Ticks

LEMMA CursorStep ==
    ASSUME IngestTypeInv, CursorInv, [IngestNext]_allVars,
           cluster \in Clusters, cluster.rows \subseteq cluster'.rows
    PROVE  CursorInv'
<1>1. tick.offset \in Offsets /\ tick \in Ticks
  BY DEF IngestTypeInv, Ticks
<1>2. CASE UNCHANGED <<cursorFile, tick, dropped>>
  <2>1. cursorFile.readable => Behind(cursorFile.offset, cluster'.rows, dropped)
    BY MoreIsBehind DEF CursorInv
  <2>2. Behind(tick.offset, cluster'.rows \cup (tick.found \cup tick.batch), dropped)
    BY MoreIsBehind DEF CursorInv
  <2> QED
    BY <1>2, <2>1, <2>2 DEF CursorInv
<1>3. CASE tick' = Asleep /\ UNCHANGED <<cursorFile, dropped>>
  <2>1. cursorFile.readable => Behind(cursorFile.offset, cluster'.rows, dropped)
    BY MoreIsBehind DEF CursorInv
  <2>2. \A records : Behind(Start0, records, dropped)
    BY AsleepIsATick DEF Behind
  <2> QED
    BY <1>3, <2>1, <2>2, AsleepIsATick DEF CursorInv
<1>4. CASE LoadCursors
  <2>1. /\ tick'.at = "read" /\ tick'.offset = cursorFile.offset /\ tick'.found = {} /\ tick'.batch = {}
        /\ cursorFile.readable /\ UNCHANGED <<cluster, cursorFile, dropped>>
    BY <1>4 DEF LoadCursors, Asleep, pgVars
  <2>2. cluster.rows \cup ({} \cup {}) = cluster.rows
    OBVIOUS
  <2> QED
    BY <2>1, <2>2 DEF CursorInv
<1>5. ASSUME NEW f \in Files, ReadFile(f) PROVE CursorInv'
  <2>1. PICK lines \in {0, Lowest(length[f] - tick.offset[f], MaxLines - tick.lines)} :
          /\ tick'.at = "read"
          /\ tick'.offset = [tick.offset EXCEPT ![f] = tick.offset[f] + lines]
          /\ tick'.found \cup tick'.batch =
               (tick.found \cup tick.batch) \cup Record(f, tick.offset[f], lines)
    BY <1>5, ReadEffect
  <2>2. lines \in Nat
    BY SliceFits
  <2>3. Behind(tick'.offset, (cluster.rows \cup (tick.found \cup tick.batch))
                             \cup Record(f, tick.offset[f], lines), dropped)
    BY <1>1, <2>1, <2>2, ReadIsBehind DEF CursorInv
  <2>4. (cluster.rows \cup (tick.found \cup tick.batch)) \cup Record(f, tick.offset[f], lines)
        = cluster.rows \cup (tick'.found \cup tick'.batch)
    BY <2>1
  <2>5. UNCHANGED <<cluster, cursorFile, dropped>>
    BY <1>5 DEF ReadFile, pgVars
  <2> QED
    BY <2>1, <2>3, <2>4, <2>5 DEF CursorInv
<1>6. ASSUME NEW f \in Files, SourceFails(f) PROVE CursorInv'
  <2>1. PICK lines \in {0, Lowest(length[f] - tick.offset[f], MaxLines - tick.lines)} :
          /\ tick'.at = "read" /\ tick'.found = {} /\ tick'.batch = tick.batch
          /\ tick'.offset = [tick.offset EXCEPT ![f] = tick.offset[f] + lines]
          /\ dropped' = dropped \cup {<<r.file, r.line>> :
                                      r \in tick.found \cup Record(f, tick.offset[f], lines)}
    BY <1>6, FailEffect
  <2>2. lines \in Nat
    BY SliceFits
  <2> DEFINE read == tick.found \cup Record(f, tick.offset[f], lines)
  <2>3. Behind(tick'.offset, (cluster.rows \cup (tick.found \cup tick.batch))
                             \cup Record(f, tick.offset[f], lines), dropped)
    BY <1>1, <2>1, <2>2, ReadIsBehind DEF CursorInv
  <2>4. (cluster.rows \cup (tick.found \cup tick.batch)) \cup Record(f, tick.offset[f], lines)
        = (cluster.rows \cup tick.batch) \cup read
    OBVIOUS
  <2>5. Behind(tick'.offset, cluster.rows \cup tick.batch, dropped')
    BY <2>1, <2>3, <2>4, DropIsBehind
  <2>6. UNCHANGED <<cluster, cursorFile>> /\ tick'.found \cup tick'.batch = tick.batch
    BY <1>6, <2>1 DEF SourceFails, pgVars
  <2>7. dropped \subseteq dropped'
    BY <2>1
  <2>8. cursorFile.readable => Behind(cursorFile.offset, cluster.rows, dropped')
    BY <2>7, MoreIsBehind DEF CursorInv
  <2> QED
    BY <2>1, <2>5, <2>6, <2>8 DEF CursorInv
<1>7. CASE EndReading
  <2>1. /\ tick'.at = IF tick.batch = {} THEN "save" ELSE "write"
        /\ tick'.offset = tick.offset /\ tick'.found = tick.found /\ tick'.batch = tick.batch
        /\ UNCHANGED <<cluster, cursorFile, dropped>>
    BY <1>1, <1>7 DEF EndReading, Ticks, pgVars
  <2> QED
    BY <2>1 DEF CursorInv
<1>8. CASE WriteChunk
  <2>1. PICK chunk \in SUBSET tick.batch :
          /\ cluster'.rows = cluster.rows \cup chunk
          /\ tick'.at = "write" /\ tick'.offset = tick.offset
          /\ tick'.found = tick.found /\ tick'.batch = tick.batch \ chunk
    BY <1>8, ChunkEffect
  <2>2. cluster.rows \cup (tick.found \cup tick.batch) = cluster'.rows \cup (tick'.found \cup tick'.batch)
    BY <2>1
  <2>3. UNCHANGED <<cursorFile, dropped>>
    BY <1>8 DEF WriteChunk
  <2>4. cursorFile.readable => Behind(cursorFile.offset, cluster'.rows, dropped)
    BY MoreIsBehind DEF CursorInv
  <2> QED
    BY <2>1, <2>2, <2>3, <2>4 DEF CursorInv
<1>9. CASE WriteEnds /\ tick' # Asleep
  <2>1. /\ tick.batch = {} /\ tick'.offset = tick.offset /\ tick'.found = tick.found /\ tick'.batch = tick.batch
        /\ UNCHANGED <<cluster, cursorFile, dropped>>
    BY <1>1, <1>9 DEF WriteEnds, Leave, Ticks
  <2> QED
    BY <2>1 DEF CursorInv
<1>10. CASE SaveCursors
  <2>1. /\ tick' = Asleep /\ cursorFile'.offset = tick.offset
        /\ UNCHANGED <<cluster, dropped>> /\ tick.found = {} /\ tick.batch = {}
    BY <1>10 DEF SaveCursors, Cursors, TickAt, CursorInv, IngestTypeInv, pgVars
  <2>2. Behind(cursorFile'.offset, cluster'.rows, dropped')
    <3>1. cluster.rows \cup (tick.found \cup tick.batch) = cluster.rows
      BY <2>1
    <3> QED
      BY <2>1, <3>1 DEF CursorInv
  <2>3. \A records : Behind(Start0, records, dropped)
    BY AsleepIsATick DEF Behind
  <2> QED
    BY <2>1, <2>2, <2>3, AsleepIsATick DEF CursorInv
<1>11. CASE KillWhileSaving
  <2>1. tick' = Asleep /\ cursorFile'.offset = Start0
    BY <1>11 DEF KillWhileSaving, Cursors, Torn
  <2>2. \A records : Behind(Start0, records, dropped')
    BY AsleepIsATick DEF Behind
  <2> QED
    BY <2>1, <2>2, AsleepIsATick DEF CursorInv
<1>12. CASE EnsureStorage \/ KillDaemon \/ WriteEnds
  BY <1>2, <1>3, <1>9, <1>12 DEF EnsureStorage, KillDaemon, WriteEnds
<1>13. ASSUME NEW f \in Files, AppendLine(f) PROVE CursorInv'
  BY <1>2, <1>13 DEF AppendLine
<1>14. CASE Others \/ UNCHANGED allVars
  BY <1>2, <1>14 DEF Others, allVars, ingestVars
<1> QED
  BY <1>4, <1>5, <1>6, <1>7, <1>8, <1>10, <1>11, <1>12, <1>13, <1>14 DEF IngestNext, DaemonStep
-----------------------------------------------------------------------------
(* What the tick has read begins at the cursors on disk and goes to those  *)
(* in memory, and of a file that was read nothing is stored beyond.        *)
SliceInv ==
    /\ \A f \in Files : /\ cursorFile.offset[f] <= tick.offset[f]
                        /\ f \in tick.files => tick.offset[f] = cursorFile.offset[f]
    /\ \A r \in tick.found \cup tick.batch :
          /\ cursorFile.offset[r.file] < r.line /\ r.line <= tick.offset[r.file]
          /\ r.from = cursorFile.offset[r.file]
    /\ \A r \in cluster.rows :
          cursorFile.offset[r.file] < tick.offset[r.file] => r.line <= tick.offset[r.file]

(* Rows that the cursors on disk do not know of were read from there.      *)
RowsInv ==
    /\ \A r, s \in cluster.rows : r.file = s.file /\ r.line = s.line => r = s
    /\ \A r \in cluster.rows :
          /\ r.line <= length[r.file]
          /\ cursorFile.offset[r.file] < r.line => r.from = cursorFile.offset[r.file]

OnceInv == ~resliced => RowsInv /\ (tick.at # "asleep" => SliceInv)

LEMMA NoNewRows ==
    ASSUME cluster \in Clusters, NEW p \in Procs, Bootstrap(p) \/ Leave(p) \/ Kill(p)
    PROVE  cluster'.rows \subseteq cluster.rows
<1>1. CASE UNCHANGED cluster
  BY <1>1
<1>2. CASE InitializeCluster(p) \/ QuarantineCluster(p)
  BY <1>2 DEF InitializeCluster, QuarantineCluster, NoCluster
<1>3. CASE WriteConfig(p) \/ MakePart(p) \/ WriteConfigFingerprint(p) \/ WriteInitializedMarker(p)
  BY <1>3 DEF WriteConfig, MakePart, WriteConfigFingerprint, WriteInitializedMarker, Clusters
<1> QED
  BY <1>1, <1>2, <1>3 DEF Bootstrap, Leave, Kill, Ensure, CreateLock, SignLock, JudgeLock, RemoveLock,
     CheckAgain, StartServer, AwaitReady, Probe, ReleaseLock, Fail

LEMMA RowTypes ==
    ASSUME IngestTypeInv, cluster \in Clusters
    PROVE  /\ \A r \in cluster.rows \cup (tick.found \cup tick.batch) :
                r = [file |-> r.file, line |-> r.line, from |-> r.from]
                /\ r.file \in Files /\ r.line \in Nat
           /\ \A f \in Files : length[f] \in Nat /\ cursorFile.offset[f] \in Nat /\ tick.offset[f] \in Nat
<1>1. cluster.rows \cup (tick.found \cup tick.batch) \subseteq Rows
  BY DEF IngestTypeInv, Ticks, Clusters
<1>2. length \in Offsets /\ cursorFile.offset \in Offsets /\ tick.offset \in Offsets
  BY DEF IngestTypeInv, Ticks
<1> QED
  BY <1>1, <1>2, IngestAssumption DEF Offsets

(* Reading a file moves its offset in memory past the records it adds, and *)
(* past everything that is stored unless the slice is cut again.           *)
LEMMA SliceStep ==
    ASSUME IngestTypeInv, cluster \in Clusters, OnceInv, TickAt("read"), NEW f \in Files,
           NEW lines \in {0, Lowest(length[f] - tick.offset[f], MaxLines - tick.lines)},
           f \in tick.files, tick'.files \subseteq tick.files \ {f},
           tick'.offset = [tick.offset EXCEPT ![f] = tick.offset[f] + lines],
           tick'.found \cup tick'.batch \subseteq
             (tick.found \cup tick.batch) \cup Record(f, tick.offset[f], lines),
           resliced' = (resliced \/ Recut(f, tick.offset[f], lines)),
           UNCHANGED <<cluster, cursorFile, length>>
    PROVE  OnceInv'
<1> SUFFICES ASSUME ~resliced' PROVE RowsInv' /\ SliceInv'
  BY DEF OnceInv
<1> DEFINE c == cursorFile.offset
           o == tick.offset
<1>1. RowsInv /\ SliceInv /\ ~Recut(f, o[f], lines)
  BY DEF OnceInv, TickAt
<1>2. RowsInv'
  BY <1>1 DEF RowsInv
<1>3. o[f] = c[f] /\ lines \in Nat /\ \A g \in Files : tick'.offset[g] = IF g = f THEN o[f] + lines ELSE o[g]
  <2>1. o \in Offsets
    BY DEF IngestTypeInv, Ticks
  <2> QED
    BY <1>1, <2>1, SliceFits DEF SliceInv, Offsets
<1>4. \A g \in Files : c[g] <= tick'.offset[g] /\ (g \in tick'.files => tick'.offset[g] = c[g])
  BY <1>1, <1>3, RowTypes DEF SliceInv
<1>5. ASSUME NEW r \in tick'.found \cup tick'.batch
      PROVE  c[r.file] < r.line /\ r.line <= tick'.offset[r.file] /\ r.from = c[r.file]
  <2>1. CASE r \in tick.found \cup tick.batch
    <3>1. c[r.file] < r.line /\ r.line <= o[r.file] /\ r.from = c[r.file] /\ r.file \in Files /\ r.line \in Nat
      BY <1>1, <2>1, RowTypes DEF SliceInv
    <3> QED
      BY <1>3, <3>1, RowTypes
  <2>2. CASE r \in Record(f, o[f], lines)
    <3>1. r.file = f /\ r.line \in o[f] + 1..o[f] + lines /\ r.from = o[f]
      BY <2>2 DEF Record
    <3> QED
      BY <1>3, <3>1, RowTypes
  <2> QED
    BY <1>5, <2>1, <2>2
<1>6. ASSUME NEW r \in cluster.rows, c[r.file] < tick'.offset[r.file]
      PROVE  r.line <= tick'.offset[r.file]
  <2>1. r.file \in Files /\ r.line \in Nat /\ r.line <= length[r.file]
    BY <1>1, RowTypes DEF RowsInv
  <2>2. CASE r.file # f
    BY <1>1, <1>3, <1>6, <2>1, <2>2 DEF SliceInv
  <2>3. CASE r.file = f
    <3>1. lines > 0
      BY <1>3, <1>6, <2>3, RowTypes
    <3>2. r.line \notin o[f] + lines + 1..length[f]
      BY <1>1, <2>3, <3>1 DEF Recut, Stored
    <3> QED
      BY <1>3, <2>1, <2>3, <3>2, RowTypes
  <2> QED
    BY <2>2, <2>3
<1>7. SliceInv'
  BY <1>4, <1>5, <1>6 DEF SliceInv
<1> QED
  BY <1>2, <1>7

LEMMA OnceStep ==
    ASSUME IngestTypeInv, cluster \in Clusters, OnceInv, [IngestNext]_allVars
    PROVE  OnceInv'
<1> SUFFICES ASSUME ~resliced' PROVE OnceInv'
  BY DEF OnceInv
<1>1. CASE cluster'.rows \subseteq cluster.rows /\ UNCHANGED <<ingestVars>>
  <2>1. RowsInv => RowsInv'
    BY <1>1 DEF RowsInv, ingestVars
  <2>2. SliceInv => SliceInv'
    BY <1>1 DEF SliceInv, ingestVars
  <2> QED
    BY <1>1, <2>1, <2>2 DEF OnceInv, ingestVars
<1>2. CASE /\ cluster'.rows \subseteq cluster.rows /\ tick' = Asleep
           /\ UNCHANGED <<length, cursorFile, resliced>>
  <2>1. RowsInv => RowsInv'
    BY <1>2 DEF RowsInv
  <2> QED
    BY <1>2, <2>1, AsleepIsATick DEF OnceInv
<1>3. ASSUME NEW f \in Files, AppendLine(f) PROVE OnceInv'
  <2>1. /\ \A g \in Files : length'[g] \in Nat /\ length[g] <= length'[g]
        /\ UNCHANGED <<cluster, cursorFile, tick, resliced>>
    <3>1. length \in [Files -> 0..MaxLength] /\ length' = [length EXCEPT ![f] = length[f] + 1]
      BY <1>3 DEF AppendLine, IngestTypeInv, Offsets
    <3> QED
      BY <1>3, <3>1, Limits DEF AppendLine, pgVars
  <2>2. RowsInv => RowsInv'
    <3> SUFFICES ASSUME RowsInv, NEW r \in cluster.rows PROVE r.line <= length'[r.file]
      BY <2>1 DEF RowsInv
    <3>1. r.file \in Files /\ r.line \in Nat /\ r.line <= length[r.file]
      BY RowTypes DEF RowsInv
    <3> QED
      BY <2>1, <3>1, RowTypes
  <2>3. SliceInv => SliceInv'
    BY <2>1 DEF SliceInv
  <2> QED
    BY <2>1, <2>2, <2>3 DEF OnceInv
<1>4. CASE LoadCursors
  <2>1. /\ tick'.at = "read" /\ tick'.offset = cursorFile.offset /\ tick'.found = {} /\ tick'.batch = {}
        /\ UNCHANGED <<cluster, cursorFile, length, resliced>>
    BY <1>4 DEF LoadCursors, Asleep, pgVars
  <2>2. RowsInv => RowsInv'
    BY <2>1 DEF RowsInv
  <2>3. \A g \in Files : cursorFile.offset[g] \in Nat
    BY RowTypes
  <2>4. \A r \in cluster.rows : r.file \in Files
    BY RowTypes
  <2>5. SliceInv'
    BY <2>1, <2>3, <2>4 DEF SliceInv
  <2> QED
    BY <2>1, <2>2, <2>5 DEF OnceInv
<1>5. ASSUME NEW f \in Files, ReadFile(f) PROVE OnceInv'
  <2>1. PICK lines \in {0, Lowest(length[f] - tick.offset[f], MaxLines - tick.lines)} :
          /\ f \in tick.files /\ tick'.files \subseteq tick.files \ {f}
          /\ tick'.offset = [tick.offset EXCEPT ![f] = tick.offset[f] + lines]
          /\ tick'.found \cup tick'.batch =
               (tick.found \cup tick.batch) \cup Record(f, tick.offset[f], lines)
          /\ resliced' = (resliced \/ Recut(f, tick.offset[f], lines))
    BY <1>5, ReadEffect
  <2>2. TickAt("read") /\ UNCHANGED <<cluster, cursorFile, length>>
    BY <1>5 DEF ReadFile, pgVars
  <2> QED
    BY <2>1, <2>2, SliceStep
<1>6. ASSUME NEW f \in Files, SourceFails(f) PROVE OnceInv'
  <2>1. PICK lines \in {0, Lowest(length[f] - tick.offset[f], MaxLines - tick.lines)} :
          /\ f \in tick.files /\ tick'.files \subseteq tick.files \ {f}
          /\ tick'.found = {} /\ tick'.batch = tick.batch
          /\ tick'.offset = [tick.offset EXCEPT ![f] = tick.offset[f] + lines]
          /\ resliced' = (resliced \/ Recut(f, tick.offset[f], lines))
    BY <1>6, FailEffect
  <2>2. TickAt("read") /\ UNCHANGED <<cluster, cursorFile, length>>
    BY <1>6 DEF SourceFails, pgVars
  <2>3. tick'.found \cup tick'.batch \subseteq
          (tick.found \cup tick.batch) \cup Record(f, tick.offset[f], lines)
    BY <2>1
  <2> QED
    BY <2>1, <2>2, <2>3, SliceStep
<1>7. CASE EndReading \/ (WriteEnds /\ tick' # Asleep)
  <2>1. /\ tick.at # "asleep" /\ tick'.files = tick.files /\ tick'.offset = tick.offset
        /\ tick'.found = tick.found /\ tick'.batch = tick.batch
        /\ UNCHANGED <<cluster, cursorFile, length, resliced>>
    BY <1>7 DEF EndReading, WriteEnds, Leave, TickAt, IngestTypeInv, Ticks, pgVars
  <2>2. RowsInv /\ SliceInv => RowsInv' /\ SliceInv'
    BY <2>1 DEF RowsInv, SliceInv
  <2> QED
    BY <2>1, <2>2 DEF OnceInv
<1>8. CASE WriteChunk
  <2>1. PICK chunk \in SUBSET tick.batch :
          /\ cluster'.rows = cluster.rows \cup chunk
          /\ tick'.at = "write" /\ tick'.offset = tick.offset /\ tick'.files = tick.files
          /\ tick'.found = tick.found /\ tick'.batch = tick.batch \ chunk
    BY <1>8, ChunkEffect
  <2>2. tick.at # "asleep" /\ UNCHANGED <<cursorFile, length, resliced>>
    BY <1>8 DEF WriteChunk, TickAt
  <2>3. RowsInv /\ SliceInv
    BY <2>2 DEF OnceInv
  <2>4. ASSUME NEW r \in chunk
        PROVE  /\ cursorFile.offset[r.file] < r.line /\ r.line <= tick.offset[r.file]
               /\ r.line <= length[r.file] /\ r.from = cursorFile.offset[r.file]
    <3>1. /\ cursorFile.offset[r.file] < r.line /\ r.line <= tick.offset[r.file]
          /\ r.from = cursorFile.offset[r.file]
      BY <2>3 DEF SliceInv
    <3>2. r.file \in Files /\ r.line \in Nat
      BY RowTypes
    <3>3. tick.offset[r.file] <= length[r.file]
      BY <3>2 DEF IngestTypeInv
    <3> QED
      BY <3>1, <3>2, <3>3, RowTypes
  <2>5. ASSUME NEW r \in cluster'.rows, NEW s \in cluster'.rows, r.file = s.file, r.line = s.line
        PROVE  r = s
    <3>1. CASE r \in cluster.rows /\ s \in cluster.rows
      BY <2>3, <2>5, <3>1 DEF RowsInv
    <3>2. CASE r \in chunk \/ s \in chunk
      <4>1. r.from = s.from
        BY <2>1, <2>3, <2>4, <2>5, <3>2 DEF RowsInv
      <4>2. /\ r = [file |-> r.file, line |-> r.line, from |-> r.from]
            /\ s = [file |-> s.file, line |-> s.line, from |-> s.from]
        BY <2>1, RowTypes
      <4> QED
        BY <2>5, <4>1, <4>2
    <3> QED
      BY <2>1, <3>1, <3>2
  <2>6. RowsInv'
    BY <2>1, <2>2, <2>3, <2>4, <2>5 DEF RowsInv
  <2>7. SliceInv'
    BY <2>1, <2>2, <2>3, <2>4 DEF SliceInv
  <2> QED
    BY <2>6, <2>7 DEF OnceInv
<1>9. CASE SaveCursors
  <2>1. /\ tick.at # "asleep" /\ tick' = Asleep /\ cursorFile'.offset = tick.offset
        /\ UNCHANGED <<cluster, length, resliced>>
    BY <1>9 DEF SaveCursors, Cursors, TickAt, pgVars
  <2>2. RowsInv /\ SliceInv
    BY <2>1 DEF OnceInv
  <2>3. ASSUME NEW r \in cluster.rows, tick.offset[r.file] < r.line PROVE r.from = tick.offset[r.file]
    <3>1. /\ r.file \in Files /\ r.line \in Nat /\ cursorFile.offset[r.file] \in Nat
          /\ tick.offset[r.file] \in Nat
      BY RowTypes
    <3>2. cursorFile.offset[r.file] = tick.offset[r.file]
      BY <2>2, <2>3, <3>1 DEF SliceInv
    <3> QED
      BY <2>2, <2>3, <3>2 DEF RowsInv
  <2>4. RowsInv'
    BY <2>1, <2>2, <2>3 DEF RowsInv
  <2> QED
    BY <2>1, <2>4, AsleepIsATick DEF OnceInv
<1>10. CASE EnsureStorage
  <2>1. cluster'.rows \subseteq cluster.rows
    BY <1>10, IngestAssumption, NoNewRows DEF EnsureStorage
  <2> QED
    BY <1>1, <1>2, <1>10, <2>1 DEF EnsureStorage, ingestVars
<1>11. CASE KillDaemon \/ (WriteEnds /\ tick' = Asleep)
  <2>1. cluster'.rows \subseteq cluster.rows
    BY <1>11 DEF KillDaemon, Kill, WriteEnds, Leave
  <2> QED
    BY <1>2, <1>11, <2>1 DEF KillDaemon, WriteEnds
<1>12. CASE Others
  <2>1. cluster'.rows \subseteq cluster.rows
    <3>1. CASE StopServer \/ UpdateApp
      BY <3>1 DEF StopServer, UpdateApp, Clusters
    <3> QED
      BY <1>12, <3>1, NoNewRows DEF Others
  <2> QED
    BY <1>1, <1>12, <2>1 DEF Others
<1>13. CASE UNCHANGED allVars
  BY <1>1, <1>13 DEF allVars, pgVars
<1>14. CASE KillWhileSaving
  BY <1>14 DEF KillWhileSaving
<1> QED
  BY <1>3, <1>4, <1>5, <1>6, <1>7, <1>8, <1>9, <1>10, <1>11, <1>12, <1>13, <1>14
  DEF IngestNext, DaemonStep

-----------------------------------------------------------------------------
IngestInv == IngestTypeInv /\ PgInv /\ (~robbed => CursorInv) /\ OnceInv

LEMMA IngestInvariant == IngestSpec => []IngestInv
<1>1. IngestInit => IngestInv
  <2> SUFFICES ASSUME IngestInit PROVE CursorInv /\ OnceInv
    BY IngestInitInv DEF IngestInv
  <2>1. /\ cursorFile.offset = Start0 /\ tick = Asleep /\ cluster.rows = {}
    BY DEF IngestInit, Cursors, PgInit, NoCluster
  <2>2. \A records, lost : Behind(Start0, records, lost)
    BY AsleepIsATick DEF Behind
  <2> QED
    BY <2>1, <2>2, AsleepIsATick DEF CursorInv, OnceInv, RowsInv
<1>2. IngestInv /\ [IngestNext]_allVars => IngestInv'
  <2> SUFFICES ASSUME IngestInv, [IngestNext]_allVars PROVE IngestInv'
    OBVIOUS
  <2>1. cluster \in Clusters
    BY DEF IngestInv, PgInv, BootInv, TypeInv, PgTypeOK
  <2>2. PgInv' /\ (robbed => robbed') /\ (~robbed => cluster.rows \subseteq cluster'.rows)
    BY StepIsPgStep, PgInvStep DEF IngestInv
  <2>3. ~robbed' => CursorInv'
    BY <2>1, <2>2, CursorStep DEF IngestInv
  <2> QED
    BY <2>1, <2>2, <2>3, IngestTypeStep, OnceStep DEF IngestInv
<1> QED
  BY <1>1, <1>2, PTL DEF IngestSpec

(* A cursor never passes a line that is neither stored nor lost to a       *)
(* failing source, for any kills, faults and server stops, until a         *)
(* bootstrap is robbed of its lock.                                        *)
THEOREM CursorsStayBehind == IngestSpec => []CursorsBehindRows
<1>1. IngestInv => CursorsBehindRows
  <2> SUFFICES ASSUME IngestInv, ~robbed, cursorFile.readable, NEW f \in Files, NEW i \in 1..cursorFile.offset[f]
               PROVE  Stored(f, i) \/ <<f, i>> \in dropped
    BY DEF CursorsBehindRows
  <2>1. Behind(cursorFile.offset, cluster.rows, dropped)
    BY DEF IngestInv, CursorInv
  <2> QED
    BY <2>1, Zenon DEF Behind, Stored
<1> QED
  BY <1>1, IngestInvariant, PTL

(* Unless a kill fell into the write of the cursors or the limit on lines  *)
(* before lines that are stored, each line is one row, however often a     *)
(* killed tick read it again and whatever became of the lock.              *)
THEOREM NoSecondRow == IngestSpec => []StoredOnce
<1>1. IngestInv => StoredOnce
  BY DEF IngestInv, OnceInv, RowsInv, StoredOnce
<1> QED
  BY <1>1, IngestInvariant, PTL

(* A database with the ingest at work in it is still the one               *)
(* PostgresBootstrap is about: exclusion, marker and rows hold under the   *)
(* steps of the composition, too, until a bootstrap is robbed.             *)
THEOREM IngestKeepsTheDatabase ==
    IngestSpec => [](BootstrapIsExclusive /\ MarkerMeansReady) /\ RowsSurvive
<1>1. IngestInv => BootstrapIsExclusive /\ MarkerMeansReady
  BY OneAtWork DEF IngestInv, PgInv, BootInv, TypeInv, PgTypeOK, ClusterInv, InTune,
     BootstrapIsExclusive, MarkerMeansReady
<1>2. IngestInv /\ [IngestNext]_allVars => [~robbed => cluster.rows \subseteq cluster'.rows]_pgVars
  BY StepIsPgStep, PgInvStep DEF IngestInv
<1> QED
  BY <1>1, <1>2, IngestInvariant, PTL DEF IngestSpec, RowsSurvive
=============================================================================
