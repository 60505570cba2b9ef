--------------------------- MODULE PostgresBootstrap ---------------------------
(***************************************************************************)
(* The managed Postgres of the memory database (local_postgres/            *)
(* supervisor.rs).  Every memoryd process that needs the database makes    *)
(* sure it is ready: a cluster, its configuration, a running server, and   *)
(* in it the role, database, extensions and schema.  A lock file with the  *)
(* owner's pid is to keep a second process out; one whose owner is gone is *)
(* removed.  Stopping the server takes no lock.                            *)
(*                                                                         *)
(* The file is blank until the pid is in it, blank counts as stale, and a  *)
(* file judged stale is removed by its path: so the file of a process at   *)
(* work can go.  Two histories tell when that happened.                    *)
(***************************************************************************)
EXTENDS Naturals, FiniteSets

CONSTANTS
    Procs,        \* processes of memoryd
    Rows,         \* what is stored in the database
    MaxFaults     \* bound: kills, updates, failed commands, stopped servers

ASSUME StorageAssumption == MaxFaults \in Nat

VARIABLES
    proc,         \* per process: its place, and whether it saw another config
    lock,         \* the lock file: its state and who created it
    cluster,      \* the data directory and the two files that vouch for it
    server,       \* "down", or the configuration the running server read
    misjudged,    \* history: who is to remove a file it did not see stale,
                  \*   or saw blank while its owner was signing it
    robbed,       \* history: such a removal took the file of one at work
    faults

history == <<misjudged, robbed>>
pgVars == <<proc, lock, cluster, server, history, faults>>

Parts == 4        \* the role, the database, its extensions, the schema
Free == [state |-> "free"]
Locks == {Free} \cup [state : {"blank", "owned", "dead"}, by : Procs]
NoCluster == [version |-> FALSE, made |-> 0, rows |-> {}, conf |-> "none",
              print |-> "none", marker |-> FALSE]
Resting == [at |-> "idle", changed |-> FALSE, step |-> 0]

PgInit ==
    /\ proc = [p \in Procs |-> Resting]
    /\ lock = Free
    /\ cluster = NoCluster
    /\ server = "down"
    /\ misjudged = {}
    /\ robbed = FALSE
    /\ faults = 0

Place(p) == proc[p].at
Move(p, place) == proc' = [proc EXCEPT ![p].at = place]
Rest(p) ==
    /\ proc' = [proc EXCEPT ![p] = Resting]
    /\ misjudged' = misjudged \ {p}
    /\ UNCHANGED robbed
Locked == {"sign", "check", "init", "configure", "start", "await", "quarantine",
           "make", "print", "mark", "probe", "release"}
Up == server # "down"
Current == cluster.version /\ cluster.marker /\ cluster.print = "current"

Fault == faults < MaxFaults /\ faults' = faults + 1

(* The fast path looks without the lock.                                   *)
Ensure(p) ==
    /\ Place(p) = "idle"
    /\ Move(p, IF Current /\ Up THEN "ok" ELSE "acquire")
    /\ UNCHANGED <<lock, cluster, server, history, faults>>

(* A lock is stale when its owner is dead, and when no pid is in it.       *)
MutStale(p) == lock # Free
Stale(p) == lock # Free /\ lock.state \in {"blank", "dead"}

CreateLock(p) ==
    /\ Place(p) = "acquire"
    /\ lock = Free
    /\ lock' = [state |-> "blank", by |-> p]
    /\ Move(p, "sign")
    /\ misjudged' = misjudged \cup {q \in Procs : Place(q) = "remove"}
    /\ UNCHANGED <<cluster, server, robbed, faults>>

(* The pid goes into the file that was created, wherever that is now.      *)
SignLock(p) ==
    /\ Place(p) = "sign"
    /\ lock' = IF lock = [state |-> "blank", by |-> p]
               THEN [lock EXCEPT !.state = "owned"] ELSE lock
    /\ Move(p, "check")
    /\ UNCHANGED <<cluster, server, history, faults>>

(* Read, judged and then removed by its path.                              *)
JudgeLock(p) ==
    /\ Place(p) = "acquire"
    /\ Stale(p)
    /\ Move(p, "remove")
    /\ misjudged' = IF lock.state = "blank" /\ Place(lock.by) = "sign"
                    THEN misjudged \cup {p} ELSE misjudged
    /\ UNCHANGED <<lock, cluster, server, robbed, faults>>

RemoveLock(p) ==
    /\ Place(p) = "remove"
    /\ lock # Free
    /\ lock' = Free
    /\ Move(p, "acquire")
    /\ robbed' = (robbed \/ (p \in misjudged /\ Place(lock.by) \in Locked))
    /\ misjudged' = misjudged \ {p}
    /\ UNCHANGED <<cluster, server, faults>>

-----------------------------------------------------------------------------
(* Under the lock.                                                         *)
CheckAgain(p) ==
    /\ Place(p) = "check"
    /\ proc' = [proc EXCEPT ![p] = [at |-> IF Current /\ Up THEN "release" ELSE "init",
                                   changed |-> cluster.print # "current",
                                   step |-> @.step]]
    /\ UNCHANGED <<lock, cluster, server, history, faults>>

(* Without PG_VERSION what is in the directory is moved away; initdb.      *)
InitializeCluster(p) ==
    /\ Place(p) = "init"
    /\ cluster' = IF cluster.version THEN cluster
                  ELSE [NoCluster EXCEPT !.version = TRUE]
    /\ Move(p, "configure")
    /\ UNCHANGED <<lock, server, history, faults>>

WriteConfig(p) ==
    /\ Place(p) = "configure"
    /\ cluster' = [cluster EXCEPT !.conf = "current"]
    /\ Move(p, "start")
    /\ UNCHANGED <<lock, server, history, faults>>

MutStartServer(p) ==
    /\ Place(p) = "start"
    /\ cluster.conf # "none"
    /\ server' = IF Up THEN server ELSE cluster.conf
    /\ Move(p, "await")
    /\ UNCHANGED <<lock, cluster, history, faults>>
StartServer(p) ==
    /\ Place(p) = "start"
    /\ cluster.conf # "none"
    /\ server' = IF Up /\ ~proc[p].changed THEN server ELSE cluster.conf
    /\ Move(p, "await")
    /\ UNCHANGED <<lock, cluster, history, faults>>

(* A server that does not answer although it was started: a cluster that   *)
(* was never marked as initialized is given up, once; else it is an error. *)
MutAwaitReady(p) ==
    /\ Place(p) = "await"
    /\ Up \/ proc[p].step = 0
    /\ proc' = [proc EXCEPT ![p].at = IF Up THEN "make" ELSE "quarantine",
                            ![p].step = 1]
    /\ UNCHANGED <<lock, cluster, server, history, faults>>
AwaitReady(p) ==
    /\ Place(p) = "await"
    /\ Up \/ (proc[p].step = 0 /\ ~cluster.marker)
    /\ proc' = [proc EXCEPT ![p] = [at |-> IF Up THEN "make" ELSE "quarantine",
                                   changed |-> @.changed, step |-> 1]]
    /\ UNCHANGED <<lock, cluster, server, history, faults>>

QuarantineCluster(p) ==
    /\ Place(p) = "quarantine"
    /\ cluster' = NoCluster
    /\ Move(p, "init")
    /\ UNCHANGED <<lock, server, history, faults>>

MakePart(p) ==
    LET k == proc[p].step
    IN  /\ Place(p) = "make"
        /\ Up /\ cluster.made >= k - 1
        /\ cluster' = [cluster EXCEPT !.made = IF @ < k THEN k ELSE @]
        /\ proc' = [proc EXCEPT ![p] = [at |-> IF k = Parts THEN "print" ELSE "make",
                                       changed |-> @.changed, step |-> k + 1]]
        /\ UNCHANGED <<lock, server, history, faults>>

WriteConfigFingerprint(p) ==
    /\ Place(p) = "print"
    /\ cluster' = [cluster EXCEPT !.print = "current"]
    /\ Move(p, "mark")
    /\ UNCHANGED <<lock, server, history, faults>>

WriteInitializedMarker(p) ==
    /\ Place(p) = "mark"
    /\ cluster' = [cluster EXCEPT !.marker = TRUE]
    /\ Move(p, "probe")
    /\ UNCHANGED <<lock, server, history, faults>>

Probe(p) ==
    /\ Place(p) = "probe"
    /\ Up
    /\ Move(p, "release")
    /\ UNCHANGED <<lock, cluster, server, history, faults>>

(* Dropping the lock removes the file, whoever's it is.                    *)
ReleaseLock(p) ==
    /\ Place(p) = "release"
    /\ lock' = Free
    /\ Move(p, "ok")
    /\ UNCHANGED <<cluster, server, history, faults>>

(* A command fails, the server does not answer, or the lock is taken for   *)
(* too long or gone when it is to be removed: the error drops the lock.    *)
Trouble(p) ==
    \/ Place(p) = "acquire" /\ lock # Free /\ ~Stale(p)
    \/ Place(p) = "remove" /\ lock = Free
    \/ Place(p) = "start" /\ cluster.conf = "none"
    \/ Place(p) \in {"await", "make", "probe"} /\ ~Up
    \/ Place(p) = "make" /\ cluster.made < proc[p].step - 1

Fail(p) ==
    /\ Place(p) \notin {"idle", "ok"}
    /\ Rest(p)
    /\ lock' = IF Place(p) \in Locked \ {"sign"} THEN Free ELSE lock
    /\ \/ Trouble(p) /\ UNCHANGED faults
       \/ Fault
    /\ UNCHANGED <<cluster, server>>

-----------------------------------------------------------------------------
(* The process got its answer and works with the database.                 *)
Store(p, rows) ==
    /\ Place(p) = "ok"
    /\ Up /\ cluster.made = Parts
    /\ cluster' = [cluster EXCEPT !.rows = @ \cup rows]
    /\ UNCHANGED <<proc, lock, server, history, faults>>

Leave(p) ==
    /\ Place(p) = "ok"
    /\ Rest(p)
    /\ UNCHANGED <<lock, cluster, server, faults>>

Kill(p) ==
    /\ Fault
    /\ Place(p) # "idle"
    /\ Rest(p)
    /\ lock' = IF lock # Free /\ lock.by = p THEN [lock EXCEPT !.state = "dead"]
               ELSE lock
    /\ UNCHANGED <<cluster, server>>

(* The server dies, or a process stops it without asking for the lock.     *)
StopServer ==
    /\ Fault
    /\ Up
    /\ server' = "down"
    /\ UNCHANGED <<proc, lock, cluster, history>>

(* The app is replaced by another version while no memoryd is at work.     *)
UpdateApp ==
    /\ Fault
    /\ \A p \in Procs : Place(p) = "idle"
    /\ cluster' = [cluster EXCEPT !.print = IF @ = "none" THEN @ ELSE "stale",
                                  !.conf = IF @ = "none" THEN @ ELSE "stale"]
    /\ server' = IF Up THEN "stale" ELSE server
    /\ UNCHANGED <<proc, lock, history>>

Bootstrap(p) ==
    \/ Ensure(p) \/ CreateLock(p) \/ SignLock(p) \/ JudgeLock(p) \/ RemoveLock(p)
    \/ CheckAgain(p) \/ InitializeCluster(p) \/ WriteConfig(p) \/ StartServer(p)
    \/ AwaitReady(p) \/ QuarantineCluster(p) \/ MakePart(p)
    \/ WriteConfigFingerprint(p) \/ WriteInitializedMarker(p) \/ Probe(p)
    \/ ReleaseLock(p) \/ Fail(p)

PgNext ==
    \/ \E p \in Procs : \/ Bootstrap(p) \/ Leave(p) \/ Kill(p)
                        \/ \E rows \in SUBSET Rows : Store(p, rows)
    \/ StopServer \/ UpdateApp

PgSpec == PgInit /\ [][PgNext]_pgVars

-----------------------------------------------------------------------------
Configs == {"none", "stale", "current"}
Clusters == [version : BOOLEAN, made : 0..Parts, rows : SUBSET Rows,
             conf : Configs, print : Configs, marker : BOOLEAN]

PgTypeOK ==
    /\ proc \in [Procs -> [at : Locked \cup {"idle", "acquire", "remove", "ok"},
                           changed : BOOLEAN, step : 0..Parts + 1]]
    /\ lock \in Locks
    /\ cluster \in Clusters
    /\ server \in {"down", "stale", "current"}
    /\ misjudged \subseteq Procs
    /\ robbed \in BOOLEAN
    /\ faults \in 0..MaxFaults

(* From the lock to its release one process is at work, until one removes  *)
(* the file of a process at work because it had judged it blank, or had    *)
(* judged another that was there before (supervisor.rs, BootstrapLock and  *)
(* remove_stale_bootstrap_lock): kills, leftover, dead and half-signed     *)
(* files, failed commands and judgements in time never let a second one    *)
(* in.  Of what follows such a removal nothing is said.  (SPEC.md,         *)
(* bootstrap order: "1. Acquire bootstrap.lock. ... 15. Release lock.")    *)
BootstrapIsExclusive ==
    ~robbed =>
      \A p, q \in Procs : Place(p) \in Locked /\ Place(q) \in Locked => p = q

(* The marker vouches for a cluster with all its parts, and the config     *)
(* fingerprint for a server that runs with the configuration on disk,      *)
(* whoever was killed where, whenever the server was stopped, and however  *)
(* two processes met at the lock, short of such a removal.                 *)
MarkerMeansReady ==
    ~robbed =>
      /\ cluster.marker => cluster.version /\ cluster.made = Parts
      /\ cluster.print = "current" => server \in {"down", "current"}

(* The cluster that is quarantined because it does not start never holds   *)
(* anything, and what was stored stays, as long as no process at work was  *)
(* robbed of the lock: after that another may quarantine what it made.     *)
(* (supervisor.rs, quarantine_uninitialized_pgdata.)                       *)
RowsSurvive == [][~robbed => cluster.rows \subseteq cluster'.rows]_pgVars
===============================================================================
