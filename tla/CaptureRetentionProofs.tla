------------------------ MODULE CaptureRetentionProofs ------------------------
(***************************************************************************)
(* For any bundles, sweepers, faults and keep_last_ready: the types, that  *)
(* what is READY in live is complete until a sweep begins to delete it,    *)
(* and that no stale plan takes away a bundle that is pinned or among the  *)
(* newest.                                                                 *)
(***************************************************************************)
EXTENDS CaptureRetention, FiniteSetTheorems, TLAPS

WholeDir == [manifest |-> "ready", files |-> TRUE, ready |-> TRUE]

(* It is known for good that b may be swept: enough later ones exist.      *)
Expendable(b) == ~export[b].pinned /\ KeepLast <= Cardinality(Later(b))

(* The partial bundle to be promoted passed validation, unless it is gone. *)
PromoteInv == \A b \in Bundles : At(b, "promote") => Partial(b) \in {None, WholeDir}

(* What is in live was whole, and is so still, is being deleted or was     *)
(* given up by the sweep that deleted it.                                  *)
LiveInv ==
    \A b \in Bundles : dirs[b]["live"] # None =>
        /\ b \in promoted
        /\ dirs[b]["live"] = WholeDir \/ BeingDeleted(b) \/ b \in cut

(* What is being deleted is an action of the plan.                         *)
DeletingInv ==
    \A s \in Sweepers : \A e \in sweep[s].deleting :
        sweep[s].at = "apply" /\ e \in sweep[s].todo /\ e.place # "processing"

(* Once a bundle is promoted, its pin and its ready_at stand.              *)
EndedInv == \A b \in promoted : At(b, "ended")

(* What a sweep lists of live was promoted, and it has its READY file      *)
(* unless another sweep was deleting it; what it plans to delete there is  *)
(* expendable.                                                             *)
SeenInv ==
    \A s \in Sweepers : \A e \in sweep[s].seen :
        e.place = "live" => e.bundle \in promoted /\ (e.ready \/ Expendable(e.bundle))
TodoInv ==
    \A s \in Sweepers : \A e \in sweep[s].todo :
        e.place = "live" => e.bundle \in promoted /\ Expendable(e.bundle)
KeptInv == \A b \in promoted : Expendable(b) \/ Whole(b)

-----------------------------------------------------------------------------
(* Types.                                                                  *)
DirsType == dirs \in [Bundles -> [Places -> Directories \cup {None}]]
ExportType ==
    export \in [Bundles -> [step : {"create", "manifest", "files", "candidate", "stamp",
                                   "sentinel", "validate", "promote", "spoil", "fail", "ended"},
                           pinned : BOOLEAN, ready : Nat]]

LEMMA StampsAreFinite == ExportType => Cardinality(Stamps) \in Nat
<1> SUFFICES ASSUME ExportType PROVE IsFiniteSet(Stamps)
  BY FS_CardinalityType
<1> DEFINE F == [c \in Bundles |-> export[c].ready]
<1>1. IsFiniteSet(Bundles)
  BY RetentionAssumption
<1>2. F \in Surjection(Bundles, Stamps)
  BY DEF Surjection, Stamps
<1> QED
  BY <1>1, <1>2, FS_Surjection DEF ExistsSurjection

LEMMA TouchedType ==
    ASSUME DirsType, NEW b \in Bundles PROVE Touched(b) \in Directories
BY DEF DirsType, Touched, Partial, Empty, Directories, Manifests, Places

LEMMA PutType ==
    ASSUME DirsType, NEW b \in Bundles, NEW d \in Directories, Put(b, d) PROVE DirsType'
BY DEF DirsType, Put, Places

LEMMA RenameType ==
    ASSUME DirsType, NEW b \in Bundles, NEW from \in Places, NEW to \in Places,
           Rename(b, from, to)
    PROVE  DirsType'
BY DEF DirsType, Rename

LEMMA ExportDirsType ==
    ASSUME DirsType, NEW b \in Bundles, Export(b) PROVE DirsType'
<1> DEFINE t == Touched(b)
<1>0. t \in Directories
  BY TouchedType
<1> HIDE DEF t
<1>1. CASE Create(b)
  <2>1. Empty \in Directories
    BY DEF Empty, Directories, Manifests
  <2> QED BY <1>1, <2>1, PutType DEF Create
<1>2. CASE WriteManifest(b)
  <2>1. [t EXCEPT !.manifest = "partial"] \in Directories
    BY <1>0 DEF Directories, Manifests
  <2> QED BY <1>2, <2>1, PutType DEF WriteManifest, t
<1>3. CASE WriteFiles(b)
  <2>1. [t EXCEPT !.files = TRUE] \in Directories
    BY <1>0 DEF Directories, Manifests
  <2> QED BY <1>3, <2>1, PutType DEF WriteFiles, t
<1>4. CASE ValidateCandidate(b)
  BY <1>4 DEF ValidateCandidate, DirsType
<1>5. CASE WriteReadyManifest(b)
  <2>1. [t EXCEPT !.manifest = "ready"] \in Directories
    BY <1>0 DEF Directories, Manifests
  <2> QED BY <1>5, <2>1, PutType DEF WriteReadyManifest, t
<1>6. CASE WriteReadySentinel(b)
  <2>1. [t EXCEPT !.ready = TRUE] \in Directories
    BY <1>0 DEF Directories, Manifests
  <2> QED BY <1>6, <2>1, PutType DEF WriteReadySentinel, t
<1>7. CASE ValidateReady(b)
  BY <1>7 DEF ValidateReady, DirsType
<1>8. CASE Promote(b)
  BY <1>8, RenameType DEF Promote, DirsType, Places
<1>9. CASE FinishFailedExport(b)
  <2>1. [t EXCEPT !.manifest = "failed", !.ready = FALSE] \in Directories
    BY <1>0 DEF Directories, Manifests
  <2> QED BY <1>9, <2>1, PutType DEF FinishFailedExport, t
<1>10. CASE MoveToFailed(b)
  BY <1>10, RenameType DEF MoveToFailed, DirsType, Places
<1>11. CASE StopExport(b)
  <2>1. [t EXCEPT !.manifest = "none"] \in Directories
    BY <1>0 DEF Directories, Manifests
  <2> QED BY <1>11, <2>1, PutType DEF StopExport, DirsType, t
<1> QED
  BY <1>1, <1>2, <1>3, <1>4, <1>5, <1>6, <1>7, <1>8, <1>9, <1>10, <1>11 DEF Export

LEMMA ExportStampType ==
    ASSUME ExportType, NEW b \in Bundles, Export(b) PROVE ExportType'
<1>1. Cardinality(Stamps) \in Nat
  BY StampsAreFinite
<1> QED
  BY <1>1 DEF ExportType, Export, At, Go, Create, WriteManifest, WriteFiles,
     ValidateCandidate, WriteReadyManifest, WriteReadySentinel, ValidateReady, Promote,
     FinishFailedExport, MoveToFailed, StopExport

SweepType ==
    sweep \in [Sweepers -> [at : {"processing", "live", "failed", "plan", "apply"},
                           seen : SUBSET SweepEntries, todo : SUBSET SweepEntries,
                           deleting : SUBSET SweepEntries]]
SweepPhase ==
    \A s \in Sweepers :
        /\ (sweep[s].at \in {"processing", "apply"} => sweep[s].seen = {})
        /\ (sweep[s].todo # {} => sweep[s].at = "apply")

LEMMA SweepStateType ==
    ASSUME SweepType, SweepPhase, NEW s \in Sweepers, Sweep(s)
    PROVE  SweepType' /\ SweepPhase'
<1> USE DEF SweepType, SweepPhase
<1>1. CASE ListBundles(s)
  <2>1. ASSUME NEW class \in {"processing", "live", "failed"},
               NEW next \in {"live", "failed", "plan"}, ListPlace(s, class, next)
        PROVE  SweepType' /\ SweepPhase'
    <3>1. Entries(Listed(class)) \subseteq SweepEntries
      BY DEF Entries
    <3>2. sweep' = [sweep EXCEPT ![s] = [sweep[s] EXCEPT !.at = next,
                                           !.seen = @ \cup Entries(Listed(class))]]
      BY <2>1 DEF ListPlace
    <3>3. sweep[s].todo = {} /\ next # "apply" /\ next # "processing"
      BY <2>1 DEF ListPlace
    <3> QED
      BY <3>1, <3>2, <3>3
  <2> QED
    BY <1>1, <2>1 DEF ListBundles
<1>2. CASE PlanSweep(s)
  <2>1. \A old \in SUBSET sweep[s].seen : Plan(s, old) \subseteq SweepEntries
    BY DEF Plan
  <2>2. PICK old \in SUBSET sweep[s].seen :
          sweep' = [sweep EXCEPT ![s] = [Idle EXCEPT !.at = "apply", !.todo = Plan(s, old)]]
    BY <1>2 DEF PlanSweep
  <2> DEFINE plan == Plan(s, old)
  <2>3. plan \subseteq SweepEntries
    BY <2>1
  <2>4. sweep' = [sweep EXCEPT ![s] = [Idle EXCEPT !.at = "apply", !.todo = plan]]
    BY <2>2
  <2> HIDE DEF plan
  <2> QED
    BY <2>3, <2>4 DEF Idle
<1>3. ASSUME NEW e \in sweep[s].todo, Done(s, e) PROVE SweepType' /\ SweepPhase'
  BY <1>3 DEF Done, Idle
<1>5. ASSUME NEW e \in sweep[s].todo, sweep' = [sweep EXCEPT ![s].deleting = {e}]
      PROVE  SweepType' /\ SweepPhase'
  BY <1>5
<1>6. ASSUME NEW e \in sweep[s].todo,
             MoveStale(s, e) \/ BeginDelete(s, e) \/ EndDelete(s, e) \/ FailDelete(s, e)
      PROVE  SweepType' /\ SweepPhase'
  <2>1. Done(s, e) \/ sweep' = [sweep EXCEPT ![s].deleting = {e}]
    BY <1>6 DEF MoveStale, BeginDelete, EndDelete, FailDelete
  <2> QED
    BY <1>3, <1>5, <2>1
<1>4. CASE EndSweep(s) \/ StopSweep(s)
  BY <1>4 DEF EndSweep, StopSweep, Idle
<1> QED
  BY <1>1, <1>2, <1>4, <1>6 DEF Sweep

LEMMA SweepDirsType ==
    ASSUME DirsType, SweepType, NEW s \in Sweepers, Sweep(s) PROVE DirsType'
<1>1. ASSUME NEW e \in sweep[s].todo, MoveStale(s, e) PROVE DirsType'
  <2>1. e.bundle \in Bundles
    BY DEF SweepType, SweepEntries
  <2> QED
    BY <1>1, <2>1, RenameType DEF MoveStale, DirsType, Places
<1>2. ASSUME NEW e \in sweep[s].todo, BeginDelete(s, e) PROVE DirsType'
  <2>1. e.bundle \in Bundles /\ e.place \in Places
    BY DEF SweepType, SweepEntries
  <2> DEFINE d == dirs[e.bundle][e.place]
  <2>2. d = None \/ d \in Directories
    BY <1>2, <2>1 DEF DirsType
  <2>3. ASSUME NEW left \in SUBSET {"manifest", "ready"}, d # None
        PROVE  [manifest |-> IF "manifest" \in left THEN d.manifest ELSE "none",
                files |-> FALSE, ready |-> d.ready /\ "ready" \in left] \in Directories
    <3>1. d.manifest \in Manifests
      BY <2>2, <2>3 DEF Directories
    <3>2. (IF "manifest" \in left THEN d.manifest ELSE "none") \in Manifests
      BY <3>1 DEF Manifests
    <3>3. (d.ready /\ "ready" \in left) \in BOOLEAN
      OBVIOUS
    <3> QED
      BY <3>2, <3>3 DEF Directories
  <2>4. CASE d # None /\ ~UNCHANGED dirs
    <3>1. PICK left \in SUBSET {"manifest", "ready"} :
            dirs' = [dirs EXCEPT ![e.bundle][e.place] =
                       [manifest |-> IF "manifest" \in left THEN d.manifest ELSE "none",
                        files |-> FALSE, ready |-> d.ready /\ "ready" \in left]]
      BY <1>2, <2>1, <2>4 DEF BeginDelete, DirsType
    <3> DEFINE new == [manifest |-> IF "manifest" \in left THEN d.manifest ELSE "none",
                       files |-> FALSE, ready |-> d.ready /\ "ready" \in left]
    <3>2. new \in Directories
      BY <2>3, <2>4
    <3>3. dirs' = [dirs EXCEPT ![e.bundle][e.place] = new]
      BY <3>1
    <3> HIDE DEF new
    <3> QED
      BY <2>1, <3>2, <3>3 DEF DirsType
  <2>5. CASE UNCHANGED dirs
    BY <2>5 DEF DirsType
  <2> QED
    BY <1>2, <2>4, <2>5 DEF BeginDelete
<1>3. ASSUME NEW e \in sweep[s].todo, EndDelete(s, e) PROVE DirsType'
  <2>1. e.bundle \in Bundles /\ e.place \in Places
    BY DEF SweepType, SweepEntries
  <2> QED
    BY <1>3, <2>1 DEF EndDelete, DirsType
<1> QED
  BY <1>1, <1>2, <1>3
  DEF Sweep, ListBundles, ListPlace, PlanSweep, FailDelete, EndSweep, StopSweep, DirsType

Types ==
    /\ DirsType /\ ExportType /\ SweepType /\ SweepPhase
    /\ faults \in Nat /\ promoted \subseteq Bundles /\ cut \subseteq Bundles

LEMMA TypesAreTypeOK == Types <=> RetentionTypeOK
BY DEF Types, RetentionTypeOK, DirsType, ExportType, SweepType, SweepPhase

LEMMA TypesInit == RetentionInit => Types
BY DEF RetentionInit, Types, DirsType, ExportType, SweepType, SweepPhase, NotBegun, Idle

LEMMA SweepKeeps ==
    ASSUME faults \in Nat, SweepType, cut \subseteq Bundles, NEW s \in Sweepers, Sweep(s)
    PROVE  UNCHANGED <<export, promoted>> /\ faults' \in Nat /\ cut' \subseteq Bundles
<1> USE DEF history
<1>1. ASSUME NEW e, BeginDelete(s, e) PROVE UNCHANGED <<export, promoted, faults, cut>>
  BY <1>1 DEF BeginDelete
<1>2. ASSUME NEW e, MoveStale(s, e) \/ EndDelete(s, e) PROVE UNCHANGED <<export, promoted, faults, cut>>
  BY <1>2 DEF MoveStale, EndDelete
<1>3. ListBundles(s) \/ PlanSweep(s) \/ EndSweep(s) => UNCHANGED <<export, promoted, faults, cut>>
  BY DEF ListBundles, ListPlace, PlanSweep, EndSweep
<1>4. GiveUp(s) => cut' \subseteq Bundles
  BY DEF GiveUp, SweepType, SweepEntries
<1>5. ASSUME NEW e, StopSweep(s) \/ FailDelete(s, e)
      PROVE  UNCHANGED <<export, promoted>> /\ faults' \in Nat /\ cut' \subseteq Bundles
  BY <1>4, <1>5 DEF StopSweep, FailDelete, Fault
<1> QED
  BY <1>1, <1>2, <1>3, <1>5 DEF Sweep

LEMMA TypesStep == Types /\ [RetentionNext]_vars => Types'
<1> SUFFICES ASSUME Types, [RetentionNext]_vars PROVE Types'
  OBVIOUS
<1> USE DEF Types
<1>1. ASSUME NEW b \in Bundles, Export(b) PROVE Types'
  <2>1. DirsType' /\ ExportType'
    BY <1>1, ExportDirsType, ExportStampType
  <2>2. UNCHANGED <<sweep, cut>> /\ faults' \in Nat /\ promoted' \subseteq Bundles
    BY <1>1 DEF history, Export, Create, WriteManifest, WriteFiles, ValidateCandidate,
       WriteReadyManifest, WriteReadySentinel, ValidateReady, Promote, FinishFailedExport,
       MoveToFailed, StopExport, Fault
  <2> QED
    BY <2>1, <2>2 DEF SweepType, SweepPhase
<1>2. ASSUME NEW s \in Sweepers, Sweep(s) PROVE Types'
  <2>1. DirsType' /\ SweepType' /\ SweepPhase'
    BY <1>2, SweepDirsType, SweepStateType
  <2>2. UNCHANGED <<export, promoted>> /\ faults' \in Nat /\ cut' \subseteq Bundles
    BY <1>2, SweepKeeps
  <2> QED
    BY <2>1, <2>2 DEF ExportType
<1>3. CASE UNCHANGED vars
  BY <1>3 DEF vars, history, DirsType, ExportType, SweepType, SweepPhase
<1> QED
  BY <1>1, <1>2, <1>3 DEF RetentionNext

(* Every directory, export and sweep has its type, a sweep starts from an  *)
(* empty inventory, and it acts only on a plan.                            *)
THEOREM RetentionTypeInvariant == RetentionSpec => []RetentionTypeOK
<1>1. RetentionSpec => []Types
  BY TypesInit, TypesStep, PTL DEF RetentionSpec
<1> QED
  BY <1>1, TypesAreTypeOK, PTL

-----------------------------------------------------------------------------
(* What is READY is complete.                                              *)
LEMMA PromoteInvStep ==
    ASSUME Types, PromoteInv, DeletingInv, [RetentionNext]_vars PROVE PromoteInv'
<1> USE DEF Partial, At
<1>1. ASSUME NEW b \in Bundles, Export(b) PROVE PromoteInv'
  <2> SUFFICES ASSUME NEW c \in Bundles, export'[c].step = "promote"
               PROVE  Partial(c)' \in {None, WholeDir}
    BY DEF PromoteInv
  <2>1. CASE c # b
    <3>1. export'[c] = export[c] /\ Partial(c)' = Partial(c)
      BY <1>1, <2>1 DEF Types, DirsType, ExportType, Export, Go, Put, Rename, Create, WriteManifest,
         WriteFiles, ValidateCandidate, WriteReadyManifest, WriteReadySentinel, ValidateReady,
         Promote, FinishFailedExport, MoveToFailed, StopExport, Places
    <3> QED
      BY <3>1 DEF PromoteInv
  <2>2. CASE c = b
    <3>1. ValidateReady(b)
      BY <1>1, <2>2 DEF Types, ExportType, Export, Go, Create, WriteManifest, WriteFiles,
         ValidateCandidate, WriteReadyManifest, WriteReadySentinel, Promote, FinishFailedExport,
         MoveToFailed, StopExport
    <3>2. Touched(b).manifest = "ready" /\ Touched(b).ready /\ Touched(b).files /\ UNCHANGED dirs
      BY <2>2, <3>1 DEF ValidateReady, Go, Types, ExportType
    <3>3. Touched(b) \in Directories
      BY TouchedType DEF Types
    <3>4. Touched(b) = WholeDir
      BY <3>2, <3>3 DEF Directories, WholeDir
    <3> QED
      BY <2>2, <3>2, <3>4 DEF Touched
  <2> QED
    BY <2>1, <2>2
<1>2. ASSUME NEW s \in Sweepers, Sweep(s) PROVE PromoteInv'
  <2>1. UNCHANGED export
    BY <1>2, SweepKeeps DEF Types
  <2>2. \A b \in Bundles : Partial(b)' \in {None, Partial(b)}
    <3>1. ASSUME NEW e \in sweep[s].todo, MoveStale(s, e)
          PROVE  \A b \in Bundles : Partial(b)' \in {None, Partial(b)}
      BY <3>1 DEF MoveStale, Rename, Types, DirsType, Places
    <3>2. ASSUME NEW e \in sweep[s].todo, BeginDelete(s, e) \/ EndDelete(s, e)
          PROVE  \A b \in Bundles : Partial(b)' \in {None, Partial(b)}
      <4>1. e.bundle \in Bundles /\ e.place \in Places /\ e.place # "processing"
        BY <3>2 DEF Types, SweepType, SweepEntries, DeletingInv, BeginDelete, EndDelete
      <4>2. CASE UNCHANGED dirs
        BY <4>2
      <4>3. ASSUME NEW d, dirs' = [dirs EXCEPT ![e.bundle][e.place] = d]
            PROVE  \A b \in Bundles : Partial(b)' \in {None, Partial(b)}
        BY <4>1, <4>3 DEF Types, DirsType, Places
      <4> QED
        BY <3>2, <4>2, <4>3 DEF BeginDelete, EndDelete
    <3> QED
      BY <1>2, <3>1, <3>2 DEF Sweep, ListBundles, ListPlace, PlanSweep, FailDelete, EndSweep, StopSweep
  <2> QED
    BY <2>1, <2>2 DEF PromoteInv
<1>3. CASE UNCHANGED vars
  BY <1>3 DEF vars, PromoteInv
<1> QED
  BY <1>1, <1>2, <1>3 DEF RetentionNext

(* What an exporter may change of the promoted bundles: nothing.           *)
LEMMA PromotedStand ==
    ASSUME Types, EndedInv, [RetentionNext]_vars
    PROVE  /\ promoted \subseteq promoted'
           /\ \A b \in promoted : export'[b] = export[b]
<1>1. ASSUME NEW c \in Bundles, Export(c)
      PROVE  /\ promoted \subseteq promoted'
             /\ c \notin promoted
             /\ \A b \in Bundles \ {c} : export'[b] = export[b]
  <2>1. c \notin promoted
    BY <1>1 DEF EndedInv, At, Export, Create, WriteManifest, WriteFiles, ValidateCandidate,
       WriteReadyManifest, WriteReadySentinel, ValidateReady, Promote, FinishFailedExport,
       MoveToFailed, StopExport
  <2>2. promoted \subseteq promoted'
    BY <1>1 DEF history, Export, Create, WriteManifest, WriteFiles, ValidateCandidate,
       WriteReadyManifest, WriteReadySentinel, ValidateReady, Promote, FinishFailedExport,
       MoveToFailed, StopExport
  <2>3. \A b \in Bundles \ {c} : export'[b] = export[b]
    BY <1>1 DEF Types, ExportType, Go, Export, Create, WriteManifest, WriteFiles,
       ValidateCandidate, WriteReadyManifest, WriteReadySentinel, ValidateReady, Promote,
       FinishFailedExport, MoveToFailed, StopExport
  <2> QED
    BY <2>1, <2>2, <2>3
<1>2. ASSUME NEW s \in Sweepers, Sweep(s) PROVE UNCHANGED <<export, promoted>>
  BY <1>2, SweepKeeps DEF Types
<1>3. CASE UNCHANGED vars
  BY <1>3 DEF vars, history
<1> QED
  BY <1>1, <1>2, <1>3 DEF RetentionNext, Types

LEMMA EndedStep ==
    ASSUME Types, EndedInv, [RetentionNext]_vars PROVE EndedInv'
<1> SUFFICES ASSUME NEW b \in promoted' PROVE export'[b].step = "ended"
  BY DEF EndedInv, At
<1>1. CASE b \in promoted
  BY <1>1, PromotedStand DEF EndedInv, At
<1>2. CASE b \notin promoted
  <2>1. PICK c \in Bundles : Export(c)
    BY <1>2, SweepKeeps DEF RetentionNext, vars, history, Types
  <2>2. Promote(c) /\ b = c
    BY <1>2, <2>1 DEF history, Export, Create, WriteManifest, WriteFiles, ValidateCandidate,
       WriteReadyManifest, WriteReadySentinel, ValidateReady, Promote, FinishFailedExport,
       MoveToFailed, StopExport
  <2> QED
    BY <2>2 DEF Promote, Go, Types, ExportType
<1> QED
  BY <1>1, <1>2

LEMMA ExpendableStays ==
    ASSUME Types, Types', EndedInv, [RetentionNext]_vars, NEW b \in promoted, Expendable(b)
    PROVE  Expendable(b)'
<1>1. promoted \subseteq promoted' /\ \A c \in promoted : export'[c] = export[c]
  BY PromotedStand
<1>2. Later(b) \subseteq Later(b)'
  BY <1>1 DEF Later
<1>3. IsFiniteSet(Later(b)')
  <2>1. Later(b)' \subseteq Bundles
    BY DEF Later, Types
  <2> QED
    BY <2>1, RetentionAssumption, FS_Subset
<1>4. /\ IsFiniteSet(Later(b)) /\ Cardinality(Later(b)) <= Cardinality(Later(b)')
      /\ Cardinality(Later(b)) \in Nat /\ Cardinality(Later(b)') \in Nat
  BY <1>2, <1>3, FS_Subset, FS_CardinalityType
<1>5. KeepLast <= Cardinality(Later(b)')
  BY <1>4, RetentionAssumption DEF Expendable
<1> QED
  BY <1>1, <1>5 DEF Expendable

LEMMA SweepersApart ==
    ASSUME Types, NEW s \in Sweepers, NEW r \in Sweepers, r # s, Sweep(r)
    PROVE  sweep'[s] = sweep[s]
BY DEF Sweep, ListBundles, ListPlace, PlanSweep, MoveStale, BeginDelete, EndDelete, FailDelete,
   Done, EndSweep, StopSweep, Types, SweepType

LEMMA ExportsSweepNot == ASSUME NEW b \in Bundles, Export(b) PROVE UNCHANGED <<sweep, cut>>
BY DEF history, Export, Create, WriteManifest, WriteFiles, ValidateCandidate,
   WriteReadyManifest, WriteReadySentinel, ValidateReady, Promote, FinishFailedExport,
   MoveToFailed, StopExport

LEMMA DoneEffect ==
    ASSUME Types, NEW s \in Sweepers, NEW e, Done(s, e)
    PROVE  sweep'[s].seen = {} /\ sweep'[s].todo = sweep[s].todo \ {e} /\ sweep'[s].deleting = {}
BY DEF Done, Idle, Types, SweepType

(* How the deletion a sweep is at begins and ends.                         *)
LEMMA DeletingChanges ==
    ASSUME Types, DeletingInv, NEW s \in Sweepers, Sweep(s)
    PROVE  \/ sweep[s].deleting = {} /\ sweep'[s].deleting = {}
           \/ \E e \in sweep[s].todo : /\ BeginDelete(s, e) /\ sweep[s].deleting = {}
                                       /\ sweep'[s] = [sweep[s] EXCEPT !.deleting = {e}]
           \/ \E e \in sweep[s].todo : EndDelete(s, e) /\ sweep'[s].deleting = {}
           \/ GiveUp(s) /\ sweep'[s].deleting = {}
<1>1. sweep[s].at # "apply" => sweep[s].deleting = {}
  BY DEF DeletingInv
<1>2. sweep[s].todo = {} => sweep[s].deleting = {}
  BY DEF DeletingInv
<1>3. ASSUME NEW class, NEW next, ListPlace(s, class, next), class # "apply"
      PROVE  sweep[s].deleting = {} /\ sweep'[s].deleting = {}
  BY <1>1, <1>3 DEF ListPlace, Types, SweepType
<1>4. CASE ListBundles(s)
  BY <1>3, <1>4 DEF ListBundles
<1>5. CASE PlanSweep(s)
  BY <1>1, <1>5 DEF PlanSweep, Idle, Types, SweepType
<1>6. CASE EndSweep(s)
  BY <1>2, <1>6 DEF EndSweep, Idle, Types, SweepType
<1>7. CASE StopSweep(s)
  BY <1>7 DEF StopSweep, Idle, Types, SweepType
<1>8. ASSUME NEW e \in sweep[s].todo, MoveStale(s, e)
      PROVE  sweep[s].deleting = {} /\ sweep'[s].deleting = {}
  BY <1>8, DoneEffect DEF MoveStale, Applying
<1>9. ASSUME NEW e \in sweep[s].todo, BeginDelete(s, e)
      PROVE  /\ sweep[s].deleting = {}
             /\ sweep'[s].deleting = {} \/ sweep'[s] = [sweep[s] EXCEPT !.deleting = {e}]
  <2>1. sweep[s].deleting = {}
    BY <1>9 DEF BeginDelete, Applying
  <2>2. CASE Done(s, e)
    BY <2>1, <2>2, DoneEffect
  <2>3. CASE sweep' = [sweep EXCEPT ![s].deleting = {e}]
    BY <2>1, <2>3 DEF Types, SweepType
  <2> QED
    BY <1>9, <2>2, <2>3 DEF BeginDelete
<1>10. ASSUME NEW e \in sweep[s].todo, EndDelete(s, e) PROVE sweep'[s].deleting = {}
  BY <1>10, DoneEffect DEF EndDelete
<1>11. ASSUME NEW e \in sweep[s].todo, FailDelete(s, e) PROVE GiveUp(s) /\ sweep'[s].deleting = {}
  BY <1>11, DoneEffect DEF FailDelete
<1>12. StopSweep(s) => GiveUp(s)
  BY DEF StopSweep
<1> QED
  BY <1>4, <1>5, <1>6, <1>7, <1>8, <1>9, <1>10, <1>11, <1>12 DEF Sweep

LEMMA DeletingStep ==
    ASSUME Types, DeletingInv, [RetentionNext]_vars PROVE DeletingInv'
<1> SUFFICES ASSUME NEW s \in Sweepers, NEW e \in sweep'[s].deleting
             PROVE  sweep'[s].at = "apply" /\ e \in sweep'[s].todo /\ e.place # "processing"
  BY DEF DeletingInv
<1>1. CASE sweep'[s] = sweep[s]
  BY <1>1 DEF DeletingInv
<1>2. CASE Sweep(s)
  <2>1. PICK d \in sweep[s].todo : BeginDelete(s, d) /\ sweep'[s] = [sweep[s] EXCEPT !.deleting = {d}]
    BY <1>2, DeletingChanges
  <2>2. sweep[s].at = "apply" /\ d.place # "processing"
    BY <2>1 DEF BeginDelete, Applying
  <2> QED
    BY <2>1, <2>2 DEF Types, SweepType
<1> QED
  BY <1>1, <1>2, SweepersApart, ExportsSweepNot DEF RetentionNext, vars

(* The live directories only Promote and a sweep's deletions touch.        *)
LEMMA LiveChanges ==
    ASSUME Types, PromoteInv, DeletingInv, [RetentionNext]_vars, NEW b \in Bundles,
           dirs'[b]["live"] # dirs[b]["live"]
    PROVE  \/ /\ Promote(b)
              /\ dirs'[b]["live"] = WholeDir
              /\ b \in promoted'
           \/ \E s \in Sweepers : \E e \in sweep[s].todo :
                /\ e.bundle = b /\ e.place = "live"
                /\ \/ dirs'[b]["live"] = None
                   \/ dirs[b]["live"] # None /\ e \in sweep'[s].deleting
<1> USE DEF Types, DirsType, Places
<1>1. ASSUME NEW c \in Bundles, Export(c)
      PROVE  Promote(b) /\ dirs'[b]["live"] = WholeDir /\ b \in promoted'
  <2>1. CASE Promote(c)
    <3>1. Partial(c) # None /\ Rename(c, "processing", "live") /\ promoted' = promoted \cup {c}
      BY <2>1 DEF Promote
    <3>2. b = c /\ dirs'[b]["live"] = Partial(c)
      BY <3>1 DEF Rename, Partial
    <3>3. Partial(c) = WholeDir
      BY <2>1, <3>1 DEF PromoteInv, Promote
    <3> QED
      BY <2>1, <3>1, <3>2, <3>3
  <2>2. CASE ~Promote(c)
    BY <1>1, <2>2 DEF Export, Put, Rename, Create, WriteManifest, WriteFiles,
       ValidateCandidate, WriteReadyManifest, WriteReadySentinel, ValidateReady,
       FinishFailedExport, MoveToFailed, StopExport
  <2> QED
    BY <2>1, <2>2
<1>2. ASSUME NEW s \in Sweepers, Sweep(s)
      PROVE  \E e \in sweep[s].todo :
                /\ e.bundle = b /\ e.place = "live"
                /\ \/ dirs'[b]["live"] = None
                   \/ dirs[b]["live"] # None /\ e \in sweep'[s].deleting
  <2>1. PICK e \in sweep[s].todo : MoveStale(s, e) \/ BeginDelete(s, e) \/ EndDelete(s, e)
    BY <1>2 DEF Sweep, ListBundles, ListPlace, PlanSweep, FailDelete, EndSweep, StopSweep
  <2>2. e.bundle \in Bundles /\ e.place \in Places
    BY DEF SweepType, SweepEntries
  <2>3. CASE MoveStale(s, e)
    BY <2>2, <2>3 DEF MoveStale, Rename
  <2>4. CASE BeginDelete(s, e)
    <3>1. /\ dirs[e.bundle][e.place] # None /\ sweep' = [sweep EXCEPT ![s].deleting = {e}]
          /\ \E d : dirs' = [dirs EXCEPT ![e.bundle][e.place] = d]
      BY <2>4 DEF BeginDelete
    <3>2. e.bundle = b /\ e.place = "live"
      BY <2>2, <3>1
    <3>3. e \in sweep'[s].deleting
      BY <3>1 DEF SweepType
    <3> QED
      BY <3>1, <3>2, <3>3
  <2>5. CASE EndDelete(s, e)
    BY <2>2, <2>5 DEF EndDelete
  <2> QED
    BY <2>1, <2>3, <2>4, <2>5
<1>3. CASE UNCHANGED vars
  BY <1>3 DEF vars
<1> QED
  BY <1>1, <1>2, <1>3 DEF RetentionNext

(* A deletion under way goes on, removes the directory or is given up.     *)
LEMMA DeletionsEnd ==
    ASSUME Types, DeletingInv, [RetentionNext]_vars, NEW b \in Bundles
    PROVE  /\ BeingDeleted(b) => BeingDeleted(b)' \/ b \in cut' \/ dirs'[b]["live"] = None
           /\ b \in cut => b \in cut'
<1>1. ASSUME NEW s \in Sweepers, NEW e \in sweep[s].deleting, e.bundle = b, e.place = "live"
      PROVE  BeingDeleted(b)' \/ b \in cut' \/ dirs'[b]["live"] = None
  <2>1. CASE sweep'[s] = sweep[s]
    BY <1>1, <2>1 DEF BeingDeleted
  <2>2. CASE Sweep(s)
    <3>1. CASE GiveUp(s)
      BY <1>1, <3>1 DEF GiveUp
    <3>2. ASSUME NEW d \in sweep[s].todo, EndDelete(s, d) PROVE dirs'[b]["live"] = None
      BY <1>1, <3>2 DEF EndDelete, Types, DirsType, Places
    <3> QED
      BY <1>1, <2>2, <3>1, <3>2, DeletingChanges
  <2> QED
    BY <2>1, <2>2, SweepersApart, ExportsSweepNot DEF RetentionNext, vars
<1>2. cut \subseteq cut'
  <2>1. ASSUME NEW s \in Sweepers, Sweep(s) PROVE cut \subseteq cut'
    BY <2>1 DEF history, GiveUp, Sweep, ListBundles, ListPlace, PlanSweep, MoveStale, BeginDelete,
       EndDelete, FailDelete, EndSweep, StopSweep
  <2> QED
    BY <2>1, ExportsSweepNot DEF RetentionNext, vars, history
<1> QED
  BY <1>1, <1>2 DEF BeingDeleted

LEMMA LiveStep ==
    ASSUME Types, PromoteInv, DeletingInv, LiveInv, EndedInv, [RetentionNext]_vars PROVE LiveInv'
<1> SUFFICES ASSUME NEW b \in Bundles, dirs'[b]["live"] # None
             PROVE  /\ b \in promoted'
                    /\ dirs'[b]["live"] = WholeDir \/ BeingDeleted(b)' \/ b \in cut'
  BY DEF LiveInv
<1>1. CASE dirs'[b]["live"] = dirs[b]["live"]
  BY <1>1, PromotedStand, DeletionsEnd DEF LiveInv
<1>2. CASE dirs'[b]["live"] # dirs[b]["live"]
  <2>1. CASE Promote(b) /\ dirs'[b]["live"] = WholeDir /\ b \in promoted'
    BY <2>1
  <2>2. CASE \E s \in Sweepers : \E e \in sweep[s].todo :
               /\ e.bundle = b /\ e.place = "live"
               /\ dirs[b]["live"] # None /\ e \in sweep'[s].deleting
    BY <2>2, PromotedStand DEF LiveInv, BeingDeleted
  <2> QED
    BY <1>2, <2>1, <2>2, LiveChanges
<1> QED
  BY <1>1, <1>2

LEMMA KeptStep ==
    ASSUME Types, Types', PromoteInv, DeletingInv, EndedInv, TodoInv, KeptInv, [RetentionNext]_vars
    PROVE  KeptInv'
<1> SUFFICES ASSUME NEW b \in promoted', ~Expendable(b)' PROVE Whole(b)'
  BY DEF KeptInv
<1>1. b \in Bundles
  BY DEF Types
<1>2. CASE Promote(b) /\ dirs'[b]["live"] = WholeDir
  BY <1>2 DEF Whole, WholeDir
<1>3. CASE b \in promoted
  <2>1. ~Expendable(b)
    BY <1>3, ExpendableStays
  <2>2. dirs'[b]["live"] = dirs[b]["live"] \/ Promote(b)
    BY <1>1, <2>1, LiveChanges DEF TodoInv
  <2>3. ~Promote(b)
    BY <1>3 DEF EndedInv, Promote, At
  <2> QED
    BY <1>3, <2>1, <2>2, <2>3 DEF KeptInv, Whole
<1>4. CASE b \notin promoted
  <2>1. PICK c \in Bundles : Export(c)
    BY <1>4, SweepKeeps DEF RetentionNext, vars, history, Types
  <2>2. Promote(b) /\ Partial(b) # None /\ Rename(b, "processing", "live")
    BY <1>4, <2>1 DEF history, Export, Create, WriteManifest, WriteFiles, ValidateCandidate,
       WriteReadyManifest, WriteReadySentinel, ValidateReady, Promote, FinishFailedExport,
       MoveToFailed, StopExport
  <2>3. dirs'[b]["live"] = Partial(b)
    BY <1>1, <2>2 DEF Rename, Partial, Types, DirsType, Places
  <2>4. Partial(b) = WholeDir
    BY <1>1, <2>2 DEF PromoteInv, Promote
  <2> QED
    BY <1>2, <2>2, <2>3, <2>4
<1> QED
  BY <1>3, <1>4

(* Listings and plans.                                                     *)
LEMMA ListedIsPromoted ==
    ASSUME Types, LiveInv, KeptInv, NEW class, NEW e \in Entries(Listed(class)), e.place = "live"
    PROVE  e.bundle \in promoted /\ (e.ready \/ Expendable(e.bundle))
<1>1. e.bundle \in Bundles /\ dirs[e.bundle]["live"] # None /\ e.ready = dirs[e.bundle]["live"].ready
  BY DEF Entries, SweepEntries
<1>2. e.bundle \in promoted
  BY <1>1 DEF LiveInv
<1> QED
  BY <1>1, <1>2 DEF KeptInv, Whole

LEMMA PlanIsExpendable ==
    ASSUME Types, SeenInv, NEW s \in Sweepers, NEW old \in SUBSET sweep[s].seen,
           NEW e \in Plan(s, old), e.place = "live"
    PROVE  e.bundle \in promoted /\ Expendable(e.bundle)
<1> DEFINE b == e.bundle
           Ahead == {c \in Bundles :
                       /\ ~export[c].pinned /\ export[c].ready > export[b].ready
                       /\ \E x \in sweep[s].seen :
                            /\ x.bundle = c /\ x.place = "live" /\ x.ready /\ x.manifest # "none"}
<1>1. e \in sweep[s].seen /\ ~export[b].pinned /\ ~Kept(s, e)
  BY DEF Plan
<1>2. b \in promoted /\ (e.ready \/ Expendable(b))
  BY <1>1 DEF SeenInv
<1>3. CASE e.ready
  <2>1. ~(Cardinality(Ahead) < KeepLast)
    BY <1>1, <1>3 DEF Kept, Rank
  <2>2. Ahead \subseteq Later(b)
    BY DEF SeenInv, Later
  <2>3. IsFiniteSet(Later(b))
    <3>1. Later(b) \subseteq Bundles
      BY DEF Later, Types
    <3> QED
      BY <3>1, RetentionAssumption, FS_Subset
  <2>4. /\ Cardinality(Ahead) <= Cardinality(Later(b))
        /\ Cardinality(Ahead) \in Nat /\ Cardinality(Later(b)) \in Nat
    <3> HIDE DEF Ahead
    <3> QED
      BY <2>2, <2>3, FS_Subset, FS_CardinalityType
  <2>5. KeepLast <= Cardinality(Later(b))
    BY <2>1, <2>4, RetentionAssumption
  <2> QED
    BY <1>1, <1>2, <2>5 DEF Expendable
<1> QED
  BY <1>2, <1>3

LEMMA SweepListsStep ==
    ASSUME Types, Types', LiveInv, EndedInv, KeptInv, SeenInv, TodoInv, [RetentionNext]_vars
    PROVE  SeenInv' /\ TodoInv'
<1>1. \A b \in promoted : b \in promoted' /\ (Expendable(b) => Expendable(b)')
  BY PromotedStand, ExpendableStays
<1> SUFFICES ASSUME NEW s \in Sweepers
             PROVE  /\ \A e \in sweep'[s].seen : e.place = "live" =>
                         e.bundle \in promoted /\ (e.ready \/ Expendable(e.bundle))
                    /\ \A e \in sweep'[s].todo : e.place = "live" =>
                         e.bundle \in promoted /\ Expendable(e.bundle)
  BY <1>1 DEF SeenInv, TodoInv
<1>2. CASE sweep'[s] = sweep[s]
  BY <1>2 DEF SeenInv, TodoInv
<1>3. ASSUME NEW class, NEW next, ListPlace(s, class, next), class # "apply"
      PROVE  sweep'[s].seen = sweep[s].seen \cup Entries(Listed(class)) /\ sweep'[s].todo = {}
  <2>1. sweep[s].todo = {}
    BY <1>3 DEF ListPlace, Types, SweepPhase
  <2> QED
    BY <1>3, <2>1 DEF ListPlace, Types, SweepType
<1>4. CASE ListBundles(s)
  BY <1>3, <1>4, ListedIsPromoted DEF ListBundles, SeenInv
<1>5. CASE PlanSweep(s)
  <2>1. PICK old \in SUBSET sweep[s].seen :
          sweep'[s] = [at |-> "apply", seen |-> {}, todo |-> Plan(s, old), deleting |-> {}]
    BY <1>5 DEF PlanSweep, Idle, Types, SweepType
  <2> QED
    BY <2>1, PlanIsExpendable
<1>6. ASSUME NEW e \in sweep[s].todo,
             MoveStale(s, e) \/ BeginDelete(s, e) \/ EndDelete(s, e) \/ FailDelete(s, e)
      PROVE  sweep'[s].seen \subseteq sweep[s].seen /\ sweep'[s].todo \subseteq sweep[s].todo
  <2>1. CASE Done(s, e)
    BY <2>1, DoneEffect
  <2>2. CASE sweep' = [sweep EXCEPT ![s].deleting = {e}]
    BY <2>2 DEF Types, SweepType
  <2> QED
    BY <1>6, <2>1, <2>2 DEF MoveStale, BeginDelete, EndDelete, FailDelete
<1>8. CASE EndSweep(s) \/ StopSweep(s)
  <2>1. sweep'[s] = Idle
    BY <1>8 DEF EndSweep, StopSweep, Types, SweepType
  <2> QED
    BY <2>1 DEF Idle
<1>9. CASE Sweep(s)
  <2>1. CASE \E e \in sweep[s].todo :
               MoveStale(s, e) \/ BeginDelete(s, e) \/ EndDelete(s, e) \/ FailDelete(s, e)
    <3>1. sweep'[s].seen \subseteq sweep[s].seen /\ sweep'[s].todo \subseteq sweep[s].todo
      BY <1>6, <2>1
    <3> QED
      BY <3>1 DEF SeenInv, TodoInv
  <2> QED
    BY <1>4, <1>5, <1>8, <1>9, <2>1 DEF Sweep
<1> QED
  BY <1>2, <1>9, SweepersApart, ExportsSweepNot DEF RetentionNext, vars

-----------------------------------------------------------------------------
RetentionInv ==
    Types /\ PromoteInv /\ DeletingInv /\ LiveInv /\ EndedInv /\ SeenInv /\ TodoInv /\ KeptInv

LEMMA RetentionInvariant == RetentionSpec => []RetentionInv
<1>1. RetentionInit => RetentionInv
  <2> SUFFICES ASSUME RetentionInit PROVE RetentionInv
    OBVIOUS
  <2>1. Types
    BY TypesInit
  <2>2. PromoteInv
    BY DEF RetentionInit, PromoteInv, NotBegun, At, Partial, Places
  <2>3. LiveInv /\ EndedInv /\ KeptInv
    BY DEF RetentionInit, LiveInv, EndedInv, KeptInv, Places
  <2>4. SeenInv /\ TodoInv /\ DeletingInv
    BY DEF RetentionInit, SeenInv, TodoInv, DeletingInv, Idle
  <2> QED
    BY <2>1, <2>2, <2>3, <2>4 DEF RetentionInv
<1>2. RetentionInv /\ [RetentionNext]_vars => RetentionInv'
  <2> SUFFICES ASSUME RetentionInv, [RetentionNext]_vars PROVE RetentionInv'
    OBVIOUS
  <2>1. Types /\ Types'
    BY TypesStep DEF RetentionInv
  <2>2. PromoteInv' /\ DeletingInv' /\ LiveInv' /\ EndedInv'
    BY <2>1, PromoteInvStep, DeletingStep, LiveStep, EndedStep DEF RetentionInv
  <2>3. SeenInv' /\ TodoInv' /\ KeptInv'
    BY <2>1, SweepListsStep, KeptStep DEF RetentionInv
  <2> QED
    BY <2>1, <2>2, <2>3 DEF RetentionInv
<1> QED
  BY <1>1, <1>2, PTL DEF RetentionSpec

(* Whatever sweeps do to the partial bundles, and however many there are,  *)
(* a READY bundle in live has all its files, until a sweep deletes it or   *)
(* gives its deletion up.                                                  *)
THEOREM ReadyBundlesAreComplete == RetentionSpec => []ReadyMeansComplete
<1>1. RetentionInv => ReadyMeansComplete
  BY DEF RetentionInv, LiveInv, ReadyMeansComplete, Whole, WholeDir
<1> QED
  BY <1>1, RetentionInvariant, PTL

(* For any number of bundles and of sweeps with plans of any age, what is  *)
(* pinned or among the KeepLast newest stays whole.                        *)
THEOREM NewestAndPinnedBundlesStay == RetentionSpec => []NewestAndPinnedStay
<1>1. RetentionInv => NewestAndPinnedStay
  <2> SUFFICES ASSUME RetentionInv, NEW b \in promoted,
                      export[b].pinned \/ Cardinality(Later(b)) < KeepLast
               PROVE  Whole(b)
    BY DEF NewestAndPinnedStay
  <2>1. Cardinality(Later(b)) \in Nat
    <3>1. Later(b) \subseteq Bundles
      BY DEF Later, RetentionInv, Types
    <3> QED
      BY <3>1, RetentionAssumption, FS_Subset, FS_CardinalityType
  <2>2. ~Expendable(b)
    BY <2>1, RetentionAssumption DEF Expendable
  <2> QED
    BY <2>2 DEF RetentionInv, KeptInv
<1> QED
  BY <1>1, RetentionInvariant, PTL
=============================================================================
