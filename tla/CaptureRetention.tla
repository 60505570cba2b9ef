--------------------------- MODULE CaptureRetention ---------------------------
(***************************************************************************)
(* Capture bundles (bundle/writer.rs, exporter.rs, validate.rs) and their  *)
(* retention (retention.rs).  An exporter builds a bundle in processing,   *)
(* file by file, validates it, marks it READY and renames it into live.    *)
(* Sweepers list the directories, plan, and apply the plan by path: what   *)
(* they do was decided on what they saw, and nothing locks.                *)
(* A bundle id has the pid and a counter in it: one export per bundle.     *)
(***************************************************************************)
EXTENDS Naturals, FiniteSets

CONSTANTS
    Bundles, Sweepers,
    KeepLast,     \* keep_last_ready
    None,         \* no such directory
    MaxFaults     \* bound: deaths and failed writes of exporters and sweepers

ASSUME RetentionAssumption ==
    /\ IsFiniteSet(Bundles)
    /\ {KeepLast, MaxFaults} \subseteq Nat

VARIABLES
    dirs,         \* per bundle and place, the directory or None
    export,       \* per bundle, its exporter's next step, its pin and ready_at
    sweep,        \* per sweeper, what it has listed, what it has to do, and the
                  \*   directory it is deleting, if any
    faults,
    promoted,     \* history: bundles that were renamed into live
    cut           \* history: bundles whose deletion from live was given up

history == <<promoted, cut>>
vars == <<dirs, export, sweep, faults, history>>

(* "swept" is failed/<id>.partial, where a sweep puts what it moves.       *)
Places == {"processing", "live", "failed", "swept"}
Listed(class) == IF class = "failed" THEN {"failed", "swept"} ELSE {class}
Empty == [manifest |-> "none", files |-> FALSE, ready |-> FALSE]
NotBegun == [step |-> "create", pinned |-> FALSE, ready |-> 0]
Idle == [at |-> "processing", seen |-> {}, todo |-> {}, deleting |-> {}]

RetentionInit ==
    /\ dirs = [b \in Bundles |-> [p \in Places |-> None]]
    /\ export = [b \in Bundles |-> NotBegun]
    /\ sweep = [s \in Sweepers |-> Idle]
    /\ faults = 0
    /\ promoted = {}
    /\ cut = {}

Fault == faults < MaxFaults /\ faults' = faults + 1

-----------------------------------------------------------------------------
(* The exporter.                                                           *)
Partial(b) == dirs[b]["processing"]
At(b, step) == export[b].step = step
Go(b, step) == export' = [export EXCEPT ![b].step = step]

(* Writing a file makes the directories above it: a partial bundle that    *)
(* was moved away begins again with the file that is written next.         *)
Touched(b) == IF Partial(b) = None THEN Empty ELSE Partial(b)
Put(b, directory) == dirs' = [dirs EXCEPT ![b]["processing"] = directory]

Create(b) ==
    /\ At(b, "create")
    /\ Put(b, Empty)
    /\ \E debug_pin \in BOOLEAN :
         export' = [export EXCEPT ![b].step = "manifest", ![b].pinned = debug_pin]
    /\ UNCHANGED <<sweep, faults, history>>

WriteManifest(b) ==
    /\ At(b, "manifest")
    /\ Put(b, [Touched(b) EXCEPT !.manifest = "partial"])
    /\ Go(b, "files")
    /\ UNCHANGED <<sweep, faults, history>>

(* All the required files but the manifest.                                *)
WriteFiles(b) ==
    /\ At(b, "files")
    /\ Put(b, [Touched(b) EXCEPT !.files = TRUE])
    /\ Go(b, "candidate")
    /\ UNCHANGED <<sweep, faults, history>>

(* A bundle that has its files may still fail on what is in them.          *)
ValidateCandidate(b) ==
    /\ At(b, "candidate")
    /\ \/ /\ Touched(b).manifest # "none" /\ Touched(b).files
          /\ Go(b, "stamp")
       \/ Go(b, "spoil")
    /\ UNCHANGED <<dirs, sweep, faults, history>>

(* Of the times only the order of the ready_at counts: see Plan.           *)
Stamps == {export[c].ready : c \in Bundles}
WriteReadyManifest(b) ==
    /\ At(b, "stamp")
    /\ Put(b, [Touched(b) EXCEPT !.manifest = "ready"])
    /\ export' = [export EXCEPT ![b].step = "sentinel", ![b].ready = Cardinality(Stamps)]
    /\ UNCHANGED <<sweep, faults, history>>

WriteReadySentinel(b) ==
    /\ At(b, "sentinel")
    /\ Put(b, [Touched(b) EXCEPT !.ready = TRUE])
    /\ Go(b, "validate")
    /\ UNCHANGED <<sweep, faults, history>>

MutValidateReady(b) ==
    /\ At(b, "validate")
    /\ Go(b, "promote")
    /\ UNCHANGED <<dirs, sweep, faults, history>>
ValidateReady(b) ==
    /\ At(b, "validate")
    /\ \/ /\ Touched(b).manifest = "ready" /\ Touched(b).ready
          /\ Touched(b).files
          /\ Go(b, "promote")
       \/ Go(b, "spoil")
    /\ UNCHANGED <<dirs, sweep, faults, history>>

(* Renames, of a directory that may have been moved away.                  *)
Rename(b, from, to) ==
    dirs' = [dirs EXCEPT ![b][to] = dirs[b][from], ![b][from] = None]

Promote(b) ==
    /\ At(b, "promote")
    /\ Go(b, "ended")
    /\ IF Partial(b) # None
       THEN Rename(b, "processing", "live") /\ promoted' = promoted \cup {b}
       ELSE UNCHANGED <<dirs, promoted>>
    /\ UNCHANGED <<sweep, faults, cut>>

FinishFailedExport(b) ==
    /\ At(b, "spoil")
    /\ Put(b, [Touched(b) EXCEPT !.manifest = "failed", !.ready = FALSE])
    /\ Go(b, "fail")
    /\ UNCHANGED <<sweep, faults, history>>

MoveToFailed(b) ==
    /\ At(b, "fail")
    /\ Go(b, "ended")
    /\ IF Partial(b) # None THEN Rename(b, "processing", "failed") ELSE UNCHANGED dirs
    /\ UNCHANGED <<sweep, faults, history>>

(* It dies, or a write fails; the manifest it was writing may be torn.     *)
StopExport(b) ==
    /\ export[b].step \notin {"create", "ended"}
    /\ Fault
    /\ Go(b, "ended")
    /\ \/ UNCHANGED dirs
       \/ /\ export[b].step \in {"manifest", "stamp", "spoil"}
          /\ Put(b, [Touched(b) EXCEPT !.manifest = "none"])
    /\ UNCHANGED <<sweep, history>>

Export(b) ==
    \/ Create(b) \/ WriteManifest(b) \/ WriteFiles(b)
    \/ ValidateCandidate(b) \/ WriteReadyManifest(b) \/ WriteReadySentinel(b)
    \/ ValidateReady(b) \/ Promote(b) \/ FinishFailedExport(b) \/ MoveToFailed(b)
    \/ StopExport(b)

-----------------------------------------------------------------------------
(* The sweepers.  What is listed of a directory without a manifest says    *)
(* neither its age nor that it is pinned, and no plan touches it.          *)
Manifests == {"none", "partial", "ready", "failed"}
SweepEntries == [bundle : Bundles, place : Places, manifest : Manifests, ready : BOOLEAN]
Entries(places) ==
    {e \in SweepEntries :
       LET directory == dirs[e.bundle][e.place]
       IN  /\ e.place \in places /\ directory # None
           /\ e.manifest = directory.manifest /\ e.ready = directory.ready}

ListPlace(s, class, next) ==
    /\ sweep[s].at = class
    /\ sweep' = [sweep EXCEPT ![s].at = next,
                              ![s].seen = @ \cup Entries(Listed(class))]
    /\ UNCHANGED <<dirs, export, faults, history>>

ListBundles(s) ==
    \/ ListPlace(s, "processing", "live") \/ ListPlace(s, "live", "failed")
    \/ ListPlace(s, "failed", "plan")

(* The rank of a live bundle among those listed that may be swept.         *)
Rank(s, b) ==
    Cardinality({c \in Bundles :
                   /\ ~export[c].pinned /\ export[c].ready > export[b].ready
                   /\ \E e \in sweep[s].seen :
                        /\ e.bundle = c /\ e.place = "live" /\ e.ready /\ e.manifest # "none"})

MutKept(s, e) == e.ready /\ Rank(s, e.bundle) + 1 < KeepLast
Kept(s, e) == e.ready /\ Rank(s, e.bundle) < KeepLast

(* What of it is done, whichever of the directories are found old enough.  *)
Plan(s, old) ==
    {e \in old : /\ e.manifest # "none" /\ ~export[e.bundle].pinned
                 /\ e.place = "live" => ~Kept(s, e)}

PlanSweep(s) ==
    /\ sweep[s].at = "plan"
    /\ \E old \in SUBSET sweep[s].seen :
         sweep' = [sweep EXCEPT ![s] = [Idle EXCEPT !.at = "apply", !.todo = Plan(s, old)]]
    /\ UNCHANGED <<dirs, export, faults, history>>

(* One action of the plan after the other.                                 *)
Applying(s, e) ==
    sweep[s].at = "apply" /\ e \in sweep[s].todo /\ sweep[s].deleting = {}
Done(s, e) ==
    sweep' = [sweep EXCEPT ![s] = [Idle EXCEPT !.at = "apply", !.todo = sweep[s].todo \ {e}]]

(* By path: a directory that is gone by now is an error of the report, and *)
(* so is one whose place in failed is taken.                               *)
MoveStale(s, e) ==
    /\ Applying(s, e)
    /\ e.place = "processing"
    /\ Done(s, e)
    /\ IF Partial(e.bundle) # None /\ dirs[e.bundle]["swept"] = None
       THEN Rename(e.bundle, "processing", "swept") ELSE UNCHANGED dirs
    /\ UNCHANGED <<export, faults, history>>

(* A directory is not deleted at once: its manifest or its READY file may  *)
(* be the last to go.                                                      *)
BeginDelete(s, e) ==
    /\ Applying(s, e)
    /\ e.place # "processing"
    /\ \/ /\ dirs[e.bundle][e.place] = None
          /\ Done(s, e) /\ UNCHANGED dirs
       \/ /\ dirs[e.bundle][e.place] # None
          /\ sweep' = [sweep EXCEPT ![s].deleting = {e}]
          /\ \E left \in SUBSET {"manifest", "ready"} :
               dirs' = [dirs EXCEPT ![e.bundle][e.place] =
                          [manifest |-> IF "manifest" \in left THEN @.manifest ELSE "none",
                           files |-> FALSE, ready |-> @.ready /\ "ready" \in left]]
    /\ UNCHANGED <<export, faults, history>>

EndDelete(s, e) ==
    /\ sweep[s].deleting = {e}
    /\ dirs' = [dirs EXCEPT ![e.bundle][e.place] = None]
    /\ Done(s, e)
    /\ UNCHANGED <<export, faults, history>>

EndSweep(s) ==
    /\ sweep[s].at = "apply"
    /\ sweep[s].todo = {}
    /\ sweep' = [sweep EXCEPT ![s] = Idle]
    /\ UNCHANGED <<dirs, export, faults, history>>

(* What is left of the directory it was deleting stays.                    *)
GiveUp(s) == cut' = cut \cup {e.bundle : e \in {d \in sweep[s].deleting : d.place = "live"}}

(* The deletion fails half way: an error of the report.                    *)
FailDelete(s, e) ==
    /\ sweep[s].deleting = {e}
    /\ Fault
    /\ Done(s, e)
    /\ GiveUp(s)
    /\ UNCHANGED <<dirs, export, promoted>>

(* It dies, or a directory it lists is moved away under it.                *)
StopSweep(s) ==
    /\ sweep[s].at # "processing"
    /\ Fault
    /\ sweep' = [sweep EXCEPT ![s] = Idle]
    /\ GiveUp(s)
    /\ UNCHANGED <<dirs, export, promoted>>

Sweep(s) ==
    \/ ListBundles(s) \/ PlanSweep(s)
    \/ \E e \in sweep[s].todo :
         MoveStale(s, e) \/ BeginDelete(s, e) \/ EndDelete(s, e) \/ FailDelete(s, e)
    \/ EndSweep(s) \/ StopSweep(s)

RetentionNext ==
    \/ \E b \in Bundles : Export(b)
    \/ \E s \in Sweepers : Sweep(s)

RetentionSpec == RetentionInit /\ [][RetentionNext]_vars

-----------------------------------------------------------------------------
(* The type invariant; a sweep starts from an empty inventory and has an   *)
(* action only after its plan.                                             *)
Directories == [manifest : Manifests, files : BOOLEAN, ready : BOOLEAN]
RetentionTypeOK ==
    /\ dirs \in [Bundles -> [Places -> Directories \cup {None}]]
    /\ export \in [Bundles -> [step : {"create", "manifest", "files", "candidate",
                                       "stamp", "sentinel", "validate", "promote", "spoil",
                                       "fail", "ended"},
                               pinned : BOOLEAN, ready : Nat]]
    /\ sweep \in [Sweepers -> [at : {"processing", "live", "failed", "plan", "apply"},
                               seen : SUBSET SweepEntries, todo : SUBSET SweepEntries,
                               deleting : SUBSET SweepEntries]]
    /\ \A s \in Sweepers :
         /\ (sweep[s].at \in {"processing", "apply"} => sweep[s].seen = {})
         /\ (sweep[s].todo # {} => sweep[s].at = "apply")
    /\ faults \in Nat /\ promoted \subseteq Bundles /\ cut \subseteq Bundles

Whole(b) == dirs[b]["live"] = [manifest |-> "ready", files |-> TRUE, ready |-> TRUE]
BeingDeleted(b) ==
    \E s \in Sweepers : \E e \in sweep[s].deleting : e.bundle = b /\ e.place = "live"

(* What is READY in live has every required file and a ready manifest      *)
(* (validate_ready_bundle), although a sweep may move a partial bundle     *)
(* away between any two writes of its exporter, and the next write starts  *)
(* it again without the files before.  Only a deletion makes it less: while *)
(* a sweep is at it, and for as long as it lies there after the sweep gave *)
(* it up, when its READY file and its manifest may be what is left.        *)
ReadyMeansComplete ==
    \A b \in Bundles :
        dirs[b]["live"] # None /\ dirs[b]["live"].ready /\ ~BeingDeleted(b) /\ b \notin cut
        => Whole(b)

(* A promoted bundle that is pinned, or that has fewer than keep_last_ready *)
(* later ones that may be swept, stays whole in live, however old the listing *)
(* is that a sweep still applies (plan_retention_sweep).                    *)
Later(b) == {c \in promoted : ~export[c].pinned /\ export[c].ready > export[b].ready}
NewestAndPinnedStay ==
    \A b \in promoted : export[b].pinned \/ Cardinality(Later(b)) < KeepLast => Whole(b)

=============================================================================
