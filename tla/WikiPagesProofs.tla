---------------------------- MODULE WikiPagesProofs ----------------------------
(***************************************************************************)
(* Theorems about WikiPages, for any pages, places, callers, texts, direct *)
(* edits and kills.  page-lifecycle.lock makes one caller at most work on  *)
(* the files; the rest follows what that one has done so far, and what is  *)
(* left when it is killed there.                                           *)
(***************************************************************************)
EXTENDS WikiPages, TLAPS

LEMMA TextTypes ==
    /\ Missing \in Sources /\ Torn \in Sources /\ FirstText \in Texts /\ 0 \in Texts /\ 1 \in Texts
    /\ Idle \in CallerStates /\ Idle.at = "idle" /\ ~Idle.changed
<1>1. FirstText \in Texts /\ 0 \in Texts /\ 1 \in Texts
  BY PagesAssumption DEF FirstText, Texts
<1>2. Missing \in Sources /\ Torn \in Sources
  BY <1>1 DEF Missing, Torn, Source, Sources, Authors
<1>3. [p \in Pages |-> Unlisted] \in Registries
  BY DEF Unlisted, Registries
<1>4. (CHOOSE p \in Pages : TRUE) \in Pages
  BY PagesAssumption
<1>5. Idle \in CallerStates /\ Idle.at = "idle" /\ ~Idle.changed
  BY <1>1, <1>2, <1>3, <1>4 DEF Idle, CallerStates, Steps
<1> QED
  BY <1>1, <1>2, <1>5

LEMMA NewText ==
    ASSUME PagesTypeOK, MayWrite
    PROVE  Fresh \in Texts /\ texts \in Nat /\ Fresh = texts + 1
BY PagesAssumption DEF PagesTypeOK, MayWrite, Fresh, Texts, FirstText

LEMMA StepNames ==
    {"idle", "opened", "prepare", "write", "register", "source", "talk", "baseline",
     "bury", "retire", "tombstoned", "dig", "relist", "restored"} \subseteq Steps
BY DEF Steps

(* What a step writes into a caller's memory leaves the rest of it alone.  *)
LEMMA StateType ==
    ASSUME NEW old \in CallerStates, NEW to \in Steps, NEW p \in Pages, NEW text \in Texts,
           NEW next \in Sources, NEW copy \in Registries, NEW flag \in BOOLEAN
    PROVE  /\ [old EXCEPT !.at = to] \in CallerStates
           /\ [old EXCEPT !.at = to, !.page = p] \in CallerStates
           /\ [old EXCEPT !.at = to, !.page = p, !.seen = text] \in CallerStates
           /\ [old EXCEPT !.at = to, !.base = text] \in CallerStates
           /\ [old EXCEPT !.at = to, !.next = next] \in CallerStates
           /\ [old EXCEPT !.at = to, !.page = p, !.copy = copy] \in CallerStates
           /\ [old EXCEPT !.at = to, !.fresh = flag] \in CallerStates
           /\ [old EXCEPT !.at = to, !.changed = flag] \in CallerStates
<1> USE DEF CallerStates
<1>1. [old EXCEPT !.at = to] \in CallerStates
  OBVIOUS
<1>2. [old EXCEPT !.at = to, !.page = p] \in CallerStates
  OBVIOUS
<1>3. [old EXCEPT !.at = to, !.page = p, !.seen = text] \in CallerStates
  OBVIOUS
<1>4. [old EXCEPT !.at = to, !.base = text] \in CallerStates
  OBVIOUS
<1>5. [old EXCEPT !.at = to, !.next = next] \in CallerStates
  OBVIOUS
<1>6. [old EXCEPT !.at = to, !.page = p, !.copy = copy] \in CallerStates
  OBVIOUS
<1>7. [old EXCEPT !.at = to, !.fresh = flag] \in CallerStates
  OBVIOUS
<1>8. [old EXCEPT !.at = to, !.changed = flag] \in CallerStates
  OBVIOUS
<1> QED
  BY <1>1, <1>2, <1>3, <1>4, <1>5, <1>6, <1>7, <1>8

(* A step of one caller: what the others have in memory stays.             *)
LEMMA CallerType ==
    ASSUME PagesTypeOK, NEW c \in Callers, NEW state \in CallerStates,
           caller' = [caller EXCEPT ![c] = state]
    PROVE  /\ caller' \in [Callers -> CallerStates] /\ caller'[c] = state
           /\ \A d \in Callers : d # c => caller'[d] = caller[d]
BY DEF PagesTypeOK

LEMMA PagesTypeInit == PagesInit => PagesTypeOK
<1> SUFFICES ASSUME PagesInit PROVE PagesTypeOK
  OBVIOUS
<1>1. registry \in Registries
  <2>1. \A p \in DOMAIN Configured : Configured[p].place \in Places /\ Configured[p].shown \in BOOLEAN
    BY PagesAssumption DEF Places
  <2> QED
    BY <2>1 DEF PagesInit, Registries, Entry, Unlisted
<1>2. source \in [Pages -> Sources]
  <2>1. Source(FirstText, 0, "operator") \in Sources
    BY TextTypes DEF Source, Sources, Authors
  <2> QED
    BY <2>1, TextTypes DEF PagesInit
<1>3. ledger \in [Pages -> [baseline : Texts, life : {"none", "tombstoned", "restored"}]]
  BY TextTypes DEF PagesInit
<1>4. caller \in [Callers -> CallerStates] /\ \A c \in Callers : lock # c /\ caller[c].at = "idle"
  BY TextTypes, PagesAssumption DEF PagesInit
<1> QED
  BY <1>1, <1>2, <1>3, <1>4, TextTypes, PagesAssumption DEF PagesInit, PagesTypeOK

(* The lock passes from nobody to who begins and from who ends to nobody.  *)
Resting == {"idle", "opened"}
LockInv == \A c \in Callers : lock = c <=> caller[c].at \notin Resting

LEMMA LockStep ==
    ASSUME PagesTypeOK, NEW c \in Callers, NEW state \in CallerStates,
           caller' = [caller EXCEPT ![c] = state],
           \/ lock' = lock /\ (state.at \in Resting <=> caller[c].at \in Resting)
           \/ lock' = c /\ lock = Nobody /\ state.at \notin Resting
           \/ lock' = Nobody /\ lock \in {c, Nobody} /\ state.at \in Resting
    PROVE  LockInv'
<1>1. \A d \in Callers : caller'[d] = IF d = c THEN state ELSE caller[d]
  BY CallerType
<1>2. LockInv
  BY DEF PagesTypeOK, LockInv, Resting
<1> QED
  BY <1>1, <1>2, PagesAssumption DEF LockInv

LEMMA PagesTypeStep == PagesTypeOK /\ [PagesNext]_pageVars => PagesTypeOK'
<1> SUFFICES ASSUME PagesTypeOK, [PagesNext]_pageVars PROVE PagesTypeOK'
  OBVIOUS
<1> DEFINE FileTypes == /\ registry \in Registries /\ source \in [Pages -> Sources]
                        /\ talk \subseteq Pages /\ tombstone \subseteq Pages
                        /\ ledger \in [Pages -> [baseline : Texts, life : {"none", "tombstoned", "restored"}]]
                        /\ texts \in Texts /\ direct \subseteq Texts /\ unborn \subseteq Pages
                        /\ cut \in [Pages -> SUBSET {"half", "untold"}]
                        /\ faults \in 0..MaxFaults
<1>1. FileTypes /\ LockInv /\ caller \in [Callers -> CallerStates]
  BY DEF PagesTypeOK, LockInv, Resting
<1>2. ASSUME FileTypes', NEW c \in Callers, NEW state \in CallerStates,
             caller' = [caller EXCEPT ![c] = state],
             \/ lock' = lock /\ (state.at \in Resting <=> caller[c].at \in Resting)
             \/ lock' = c /\ lock = Nobody /\ state.at \notin Resting
             \/ lock' = Nobody /\ lock \in {c, Nobody} /\ state.at \in Resting
      PROVE  PagesTypeOK'
  <2>1. LockInv' /\ caller' \in [Callers -> CallerStates]
    BY <1>2, LockStep, CallerType
  <2> QED
    BY <1>2, <2>1 DEF PagesTypeOK, LockInv, Resting
<1>3. ASSUME NEW c \in Callers
      PROVE  /\ caller[c] \in CallerStates /\ Page(c) \in Pages /\ caller[c].page \in Pages
             /\ (lock = c) <=> caller[c].at \notin Resting
             /\ source[caller[c].page].text \in Texts
  <2>1. caller[c] \in CallerStates /\ (lock = c) <=> caller[c].at \notin Resting
    BY <1>1 DEF LockInv
  <2>2. caller[c].page \in Pages
    BY <1>1 DEF CallerStates
  <2>3. source[caller[c].page] \in Sources
    BY <1>1, <2>2
  <2> QED
    BY <1>1, <2>2, <2>3 DEF LockInv, Page, Sources
<1> HIDE DEF FileTypes
<1> USE DEF At
<1>4. ASSUME NEW c \in Callers, NEW p \in Pages, OpenPage(c, p) PROVE PagesTypeOK'
  <2>1. PICK seen \in {NotSeen, source[p].text} :
          caller' = [caller EXCEPT ![c] = [@ EXCEPT !.at = "opened", !.page = p, !.seen = seen]]
    BY <1>4 DEF OpenPage
  <2>2. seen \in Texts
    <3>1. source[p].text \in Texts
      BY <1>1 DEF FileTypes, Sources
    <3> QED
      BY <3>1, TextTypes DEF NotSeen
  <2> DEFINE state == [caller[c] EXCEPT !.at = "opened", !.page = p, !.seen = seen]
  <2>3. state \in CallerStates /\ state.at = "opened"
    BY <1>3, <2>2, StepNames DEF CallerStates
  <2>4. caller' = [caller EXCEPT ![c] = state] /\ lock' = lock /\ caller[c].at = "idle"
    BY <1>1, <1>4, <2>1 DEF OpenPage
  <2>5. FileTypes'
    BY <1>1, <1>4 DEF OpenPage, FileTypes, files, histories
  <2> QED
    BY <1>2, <2>3, <2>4, <2>5 DEF Resting
<1>5. ASSUME NEW c \in Callers, BeginEdit(c) PROVE PagesTypeOK'
  <2> DEFINE state == [caller[c] EXCEPT !.at = "prepare", !.base = source[caller[c].page].text]
  <2>1. state \in CallerStates /\ state.at = "prepare"
    BY <1>3, StepNames DEF CallerStates
  <2>2. caller' = [caller EXCEPT ![c] = state] /\ lock' = c /\ lock = Nobody
    BY <1>1, <1>5 DEF BeginEdit
  <2>3. FileTypes'
    BY <1>1, <1>5 DEF BeginEdit, FileTypes, files, histories
  <2> QED
    BY <1>2, <2>1, <2>2, <2>3 DEF Resting
<1>6. ASSUME NEW c \in Callers, PrepareEdit(c) PROVE PagesTypeOK'
  <2>1. PICK author \in {"agent", "operator"}, span \in {0, source[Page(c)].span, Fresh} :
          caller' = [caller EXCEPT ![c] = [@ EXCEPT !.at = "write", !.next = Source(Fresh, span, author)]]
    BY <1>6 DEF PrepareEdit
  <2>2. Source(Fresh, span, author) \in Sources /\ Fresh \in Texts
    <3>1. Fresh \in Texts
      BY <1>6, NewText DEF PrepareEdit
    <3>2. source[Page(c)] \in Sources
      BY <1>1, <1>3 DEF FileTypes
    <3>3. span \in Texts
      BY <3>1, <3>2, TextTypes DEF Sources
    <3> QED
      BY <3>1, <3>3 DEF Source, Sources, Authors
  <2> DEFINE state == [caller[c] EXCEPT !.at = "write", !.next = Source(Fresh, span, author)]
  <2>3. state \in CallerStates /\ state.at = "write"
    BY <1>3, <2>2, StepNames DEF CallerStates
  <2>4. caller' = [caller EXCEPT ![c] = state] /\ lock' = lock /\ caller[c].at = "prepare"
    BY <1>1, <1>6, <2>1 DEF PrepareEdit
  <2>5. FileTypes'
    BY <1>1, <1>6, <2>2 DEF PrepareEdit, FileTypes, files, histories
  <2> QED
    BY <1>2, <2>3, <2>4, <2>5 DEF Resting
<1>7. ASSUME NEW c \in Callers, caller' = [caller EXCEPT ![c] = Idle], lock' = Nobody,
             lock \in {c, Nobody}, FileTypes'
      PROVE  PagesTypeOK'
  BY <1>2, <1>7, TextTypes DEF Resting
<1>8. ASSUME NEW c \in Callers, WriteEdit(c) PROVE PagesTypeOK'
  <2>1. caller[c].next \in Sources /\ lock = c
    BY <1>3, <1>8 DEF WriteEdit, CallerStates, Resting
  <2>2. FileTypes'
    BY <1>1, <1>8, <2>1 DEF WriteEdit, FileTypes, histories
  <2> QED
    BY <1>7, <1>8, <2>1, <2>2 DEF WriteEdit, Finish
<1>9. ASSUME NEW c \in Callers, Refuse(c) PROVE PagesTypeOK'
  <2>1. lock \in {c, Nobody}
    BY <1>3, <1>9 DEF Refuse, Resting
  <2>2. FileTypes'
    BY <1>1, <1>9 DEF Refuse, FileTypes, files, histories
  <2> QED
    BY <1>7, <1>9, <2>1, <2>2 DEF Refuse
<1>10. ASSUME NEW c \in Callers, NEW p \in Pages, BeginCreate(c, p) PROVE PagesTypeOK'
  <2>1. FileTypes'
    BY <1>1, <1>10 DEF BeginCreate, FileTypes, files, histories
  <2>2. CASE caller' = [caller EXCEPT ![c] = [@ EXCEPT !.at = "source", !.page = p]]
    <3> DEFINE state == [caller[c] EXCEPT !.at = "source", !.page = p]
    <3>1. state \in CallerStates /\ state.at = "source"
      BY <1>3, StepNames DEF CallerStates
    <3>2. caller' = [caller EXCEPT ![c] = state] /\ lock' = c /\ lock = Nobody
      BY <1>1, <1>10, <2>2 DEF BeginCreate
    <3> QED
      BY <1>2, <2>1, <3>1, <3>2 DEF Resting
  <2>3. ASSUME NEW option \in Options,
               caller' = [caller EXCEPT ![c] = [@ EXCEPT !.at = "register", !.page = p,
                                                         !.copy = [registry EXCEPT ![p] = Entry(option)]]]
        PROVE  PagesTypeOK'
    <3> DEFINE copy == [registry EXCEPT ![p] = Entry(option)]
               state == [caller[c] EXCEPT !.at = "register", !.page = p, !.copy = copy]
    <3>1. copy \in Registries
      BY <1>1, PagesAssumption DEF FileTypes, Registries, Places, Entry
    <3>2. state \in CallerStates /\ state.at = "register"
      BY <1>3, <3>1, StepNames DEF CallerStates
    <3>3. caller' = [caller EXCEPT ![c] = state] /\ lock' = c /\ lock = Nobody
      BY <1>1, <1>10, <2>3 DEF BeginCreate
    <3> QED
      BY <1>2, <2>1, <3>2, <3>3 DEF Resting
  <2> QED
    BY <1>10, <2>2, <2>3 DEF BeginCreate
<1>11. ASSUME NEW c \in Callers, NEW to \in Steps \ Resting, FileTypes', lock' = lock,
              caller[c].at \notin Resting, caller' = [caller EXCEPT ![c].at = to]
       PROVE  PagesTypeOK'
  <2> DEFINE state == [caller[c] EXCEPT !.at = to]
  <2>1. state \in CallerStates /\ state.at = to
    BY <1>3 DEF CallerStates
  <2>2. caller' = [caller EXCEPT ![c] = state]
    BY <1>1, <1>11
  <2> QED
    BY <1>2, <1>11, <2>1, <2>2
<1>12. ASSUME NEW c \in Callers, AppendRegistryEntry(c) PROVE PagesTypeOK'
  <2>1. FileTypes'
    BY <1>1, <1>3, <1>12 DEF AppendRegistryEntry, FileTypes, CallerStates, histories
  <2> QED
    BY <1>11, <1>12, <2>1 DEF AppendRegistryEntry, Go, Steps, Resting
<1>13. ASSUME NEW c \in Callers, WriteSourceIfMissing(c) PROVE PagesTypeOK'
  <2> DEFINE fresh == source[Page(c)] = Missing
             state == [caller[c] EXCEPT !.at = "talk", !.fresh = fresh]
  <2>1. state \in CallerStates /\ state.at = "talk"
    BY <1>3, StepNames DEF CallerStates
  <2>2. caller' = [caller EXCEPT ![c] = state] /\ lock' = lock /\ caller[c].at = "source"
    BY <1>1, <1>13 DEF WriteSourceIfMissing
  <2>3. fresh => Fresh \in Texts /\ Source(Fresh, 0, "template") \in Sources
    BY <1>13, NewText, TextTypes DEF WriteSourceIfMissing, Source, Sources, Authors
  <2>4. FileTypes'
    BY <1>1, <1>3, <1>13, <2>3 DEF WriteSourceIfMissing, FileTypes, histories, Page
  <2> QED
    BY <1>2, <2>1, <2>2, <2>4 DEF Resting
<1>14. ASSUME NEW c \in Callers, WriteTalk(c) PROVE PagesTypeOK'
  <2>1. FileTypes' /\ caller[c].at = "talk" /\ lock = c
    BY <1>1, <1>3, <1>14 DEF WriteTalk, FileTypes, histories, Page, Resting
  <2>2. CASE caller[c].fresh
    <3> DEFINE state == [caller[c] EXCEPT !.at = "baseline", !.base = source[caller[c].page].text]
    <3>1. state \in CallerStates /\ state.at = "baseline"
      BY <1>3, StepNames DEF CallerStates
    <3>2. caller' = [caller EXCEPT ![c] = state] /\ lock' = lock
      BY <1>1, <1>14, <2>2 DEF WriteTalk
    <3> QED
      BY <1>2, <2>1, <3>1, <3>2 DEF Resting
  <2>3. CASE ~caller[c].fresh
    BY <1>7, <1>14, <2>1, <2>3 DEF WriteTalk, Finish
  <2> QED
    BY <2>2, <2>3
<1>15. ASSUME NEW c \in Callers, AppendBaseline(c) PROVE PagesTypeOK'
  <2>1. caller[c].base \in Texts /\ lock = c
    BY <1>3, <1>15 DEF AppendBaseline, CallerStates, Resting
  <2>2. FileTypes'
    BY <1>1, <1>15, <2>1 DEF AppendBaseline, FileTypes, histories
  <2> QED
    BY <1>7, <1>15, <2>1, <2>2 DEF AppendBaseline, Finish
<1>16. ASSUME NEW c \in Callers, NEW p \in Pages, BeginDelete(c, p) \/ BeginRestore(c, p) PROVE PagesTypeOK'
  <2>1. PICK to \in {"bury", "dig"} : caller' = [caller EXCEPT ![c] = [@ EXCEPT !.at = to, !.page = p]]
    BY <1>16 DEF BeginDelete, BeginRestore
  <2> DEFINE state == [caller[c] EXCEPT !.at = to, !.page = p]
  <2>2. state \in CallerStates /\ state.at = to
    BY <1>3, StepNames DEF CallerStates
  <2>3. caller' = [caller EXCEPT ![c] = state] /\ lock' = c /\ lock = Nobody
    BY <1>1, <1>16, <2>1 DEF BeginDelete, BeginRestore
  <2>4. FileTypes'
    BY <1>1, <1>16 DEF BeginDelete, BeginRestore, FileTypes, files, histories
  <2> QED
    BY <1>2, <2>2, <2>3, <2>4 DEF Resting
<1>17. ASSUME NEW c \in Callers, NEW to \in Steps \ Resting, NEW changed \in BOOLEAN,
              FileTypes', lock' = lock, caller[c].at \notin Resting,
              caller' = [caller EXCEPT ![c] = [@ EXCEPT !.at = to, !.changed = changed]]
       PROVE  PagesTypeOK'
  <2> DEFINE state == [caller[c] EXCEPT !.at = to, !.changed = changed]
  <2>1. state \in CallerStates /\ state.at = to
    BY <1>3 DEF CallerStates
  <2>2. caller' = [caller EXCEPT ![c] = state]
    BY <1>1, <1>17
  <2> QED
    BY <1>2, <1>17, <2>1, <2>2
<1>18. ASSUME NEW c \in Callers, WriteTombstone(c) PROVE PagesTypeOK'
  <2>1. FileTypes' /\ caller[c].at \notin Resting
    BY <1>1, <1>3, <1>18 DEF WriteTombstone, FileTypes, histories, Page, Resting
  <2>2. "retire" \in Steps \ Resting /\ (caller[c].page \notin tombstone) \in BOOLEAN
    BY DEF Steps, Resting
  <2>3. lock' = lock /\ caller' = [caller EXCEPT ![c] = [@ EXCEPT !.at = "retire", !.changed = caller[c].page \notin tombstone]]
    BY <1>1, <1>18 DEF WriteTombstone
  <2> QED
    BY <1>17, <2>1, <2>2, <2>3
<1>19. ASSUME NEW c \in Callers, RemoveTombstone(c) PROVE PagesTypeOK'
  <2>1. FileTypes' /\ caller[c].at \notin Resting
    BY <1>1, <1>3, <1>19 DEF RemoveTombstone, FileTypes, histories, Page, Resting
  <2>2. "relist" \in Steps \ Resting /\ (caller[c].page \in tombstone) \in BOOLEAN
    BY DEF Steps, Resting
  <2>3. lock' = lock /\ caller' = [caller EXCEPT ![c] = [@ EXCEPT !.at = "relist", !.changed = caller[c].page \in tombstone]]
    BY <1>1, <1>19 DEF RemoveTombstone
  <2> QED
    BY <1>17, <2>1, <2>2, <2>3
<1>20. ASSUME NEW c \in Callers, NEW entry, NEW to \in Steps \ Resting,
              entry \in {Entry(registry[Page(c)]), Retired(registry[Page(c)])},
              caller[c].at \notin Resting, SetEntry(c, entry, to)
       PROVE  PagesTypeOK'
  <2> DEFINE changed == caller[c].changed \/ registry[Page(c)] # entry
  <2>0. entry \in [place : Places \cup {{}}, shown : BOOLEAN, enabled : BOOLEAN, navigation : BOOLEAN]
    <3>1. /\ registry[Page(c)].place \in Places \cup {{}}
          /\ registry[Page(c)].shown \in BOOLEAN
      BY <1>1, <1>3 DEF FileTypes, Registries, CallerStates, Page
    <3> DEFINE Typed == [place : Places \cup {{}}, shown : BOOLEAN, enabled : BOOLEAN, navigation : BOOLEAN]
    <3>2. Entry(registry[Page(c)]) \in Typed
      BY <3>1 DEF Entry
    <3>3. Retired(registry[Page(c)]) \in Typed
      BY <3>1 DEF Retired
    <3> QED
      BY <1>20, <3>2, <3>3
  <2>1. FileTypes'
    BY <1>1, <1>3, <1>20, <2>0 DEF SetEntry, FileTypes, Registries, histories
  <2>2. lock' = lock /\ caller' = [caller EXCEPT ![c] = [@ EXCEPT !.at = to, !.changed = changed]]
    BY <1>20 DEF SetEntry
  <2>3. changed \in BOOLEAN
    BY <1>3 DEF CallerStates
  <2> QED
    BY <1>17, <1>20, <2>1, <2>2, <2>3
<1>21. ASSUME NEW c \in Callers, RetirePage(c) \/ RelistPage(c) PROVE PagesTypeOK'
  BY <1>20, <1>21 DEF RetirePage, RelistPage, Steps, Resting
<1>22. ASSUME NEW c \in Callers, Tell(c) PROVE PagesTypeOK'
  <2>1. FileTypes' /\ lock = c
    BY <1>1, <1>3, <1>22 DEF Tell, FileTypes, Resting
  <2> QED
    BY <1>7, <1>22, <2>1 DEF Tell, Finish
<1>23. ASSUME NEW c \in Callers, Die(c) PROVE PagesTypeOK'
  <2>1. FileTypes'
    <3>1. faults' \in 0..MaxFaults
      BY <1>1, <1>23, PagesAssumption DEF Die, FileTypes
    <3>2. source' \in [Pages -> Sources]
      BY <1>1, <1>23, TextTypes DEF Die, FileTypes
    <3>3. cut' \in [Pages -> SUBSET {"half", "untold"}]
      BY <1>1, <1>23 DEF Die, CutShort, FileTypes
    <3> QED
      BY <1>1, <1>3, <1>23, <3>1, <3>2, <3>3 DEF Die, FileTypes
  <2>2. lock' = IF lock = c THEN Nobody ELSE lock
    BY <1>23 DEF Die
  <2> QED
    BY <1>2, <1>3, <1>23, <2>1, <2>2, TextTypes DEF Die, Resting
<1>24. ASSUME NEW p \in Pages, EditDirectly(p) PROVE PagesTypeOK'
  <2>1. Fresh \in Texts
    BY <1>24, NewText DEF EditDirectly
  <2>2. source' \in [Pages -> Sources]
    BY <1>1, <1>24, <2>1, TextTypes DEF EditDirectly, FileTypes, Source, Sources, Authors
  <2> QED
    BY <1>24, <2>1, <2>2 DEF EditDirectly, PagesTypeOK
<1>25. CASE UNCHANGED pageVars
  BY <1>25 DEF PagesTypeOK, pageVars, files, histories
<1> QED
  BY <1>4, <1>5, <1>6, <1>8, <1>9, <1>10, <1>12, <1>13, <1>14, <1>15, <1>16, <1>18, <1>19, <1>21,
     <1>22, <1>23, <1>24, <1>25 DEF PagesNext

(* Every file, and what each caller has in memory, keeps its shape, and    *)
(* the lock is held exactly while an operation is under way.               *)
THEOREM PagesTypeInvariant == PagesSpec => []PagesTypeOK
BY PagesTypeInit, PagesTypeStep, PTL DEF PagesSpec
-----------------------------------------------------------------------------
(* What a step leaves in the memory of the caller that takes it.           *)
Same(c) == caller'[c].page = caller[c].page /\ caller'[c].changed = caller[c].changed
Ends(c) ==
    WriteEdit(c) \/ Refuse(c) \/ (WriteTalk(c) /\ ~caller[c].fresh) \/ AppendBaseline(c) \/ Tell(c) \/ Die(c)

LEMMA EditEffects ==
    ASSUME PagesTypeOK, NEW c \in Callers
    PROVE  /\ \A p \in Pages : OpenPage(c, p) =>
                caller'[c].at = "opened" /\ caller'[c].page = p /\ caller'[c].changed = caller[c].changed
           /\ BeginEdit(c) => /\ caller'[c].at = "prepare" /\ Same(c) /\ caller'[c].seen = caller[c].seen
                              /\ caller'[c].base = source[caller[c].page].text
           /\ PrepareEdit(c) => /\ caller'[c].at = "write" /\ Same(c) /\ caller'[c].seen = caller[c].seen
                                /\ caller'[c].base = caller[c].base
                                /\ \E author \in {"agent", "operator"}, span \in {0, source[Page(c)].span, Fresh} :
                                     /\ MayRewrite(author, source[Page(c)], span)
                                     /\ caller'[c].next = Source(Fresh, span, author)
           /\ Ends(c) => caller'[c] = Idle
<1>1. caller[c] \in CallerStates /\ caller \in [Callers -> CallerStates]
  BY DEF PagesTypeOK
<1>2. ASSUME NEW p \in Pages, OpenPage(c, p)
      PROVE  caller'[c].at = "opened" /\ caller'[c].page = p /\ caller'[c].changed = caller[c].changed
  BY <1>1, <1>2 DEF OpenPage, CallerStates
<1>3. ASSUME BeginEdit(c)
      PROVE  /\ caller'[c].at = "prepare" /\ Same(c) /\ caller'[c].seen = caller[c].seen
             /\ caller'[c].base = source[caller[c].page].text
  BY <1>1, <1>3 DEF BeginEdit, CallerStates, Same
<1>4. ASSUME PrepareEdit(c)
      PROVE  /\ caller'[c].at = "write" /\ Same(c) /\ caller'[c].seen = caller[c].seen
             /\ caller'[c].base = caller[c].base
             /\ \E author \in {"agent", "operator"}, span \in {0, source[Page(c)].span, Fresh} :
                  /\ MayRewrite(author, source[Page(c)], span)
                  /\ caller'[c].next = Source(Fresh, span, author)
  <2>1. PICK author \in {"agent", "operator"}, span \in {0, source[Page(c)].span, Fresh} :
          /\ MayRewrite(author, source[Page(c)], span)
          /\ caller' = [caller EXCEPT ![c] = [@ EXCEPT !.at = "write", !.next = Source(Fresh, span, author)]]
    BY <1>4 DEF PrepareEdit
  <2> QED
    BY <1>1, <2>1 DEF CallerStates, Same
<1>5. ASSUME Ends(c) PROVE caller'[c] = Idle
  BY <1>1, <1>5 DEF Ends, WriteEdit, Refuse, WriteTalk, AppendBaseline, Tell, Die, Finish
<1> QED
  BY <1>2, <1>3, <1>4, <1>5

LEMMA CreateEffects ==
    ASSUME PagesTypeOK, NEW c \in Callers
    PROVE  /\ \A p \in Pages : BeginCreate(c, p) =>
                /\ caller'[c].page = p /\ caller'[c].changed = caller[c].changed
                /\ \/ caller'[c].at = "source" /\ Listed(p) /\ ~Closed(p)
                   \/ /\ caller'[c].at = "register" /\ ~Listed(p)
                      /\ \E option \in Options : /\ option.place \cap Occupied = {}
                                             /\ caller'[c].copy = [registry EXCEPT ![p] = Entry(option)]
           /\ AppendRegistryEntry(c) => caller'[c].at = "source" /\ Same(c)
           /\ WriteSourceIfMissing(c) => /\ caller'[c].at = "talk" /\ Same(c)
                                         /\ caller'[c].fresh = (source[caller[c].page] = Missing)
           /\ WriteTalk(c) /\ caller[c].fresh => /\ caller'[c].at = "baseline" /\ Same(c) /\ caller'[c].fresh
                                                /\ caller'[c].base = source[caller[c].page].text
<1>1. caller[c] \in CallerStates /\ caller \in [Callers -> CallerStates]
  BY DEF PagesTypeOK
<1>2. ASSUME NEW p \in Pages, BeginCreate(c, p)
      PROVE  /\ caller'[c].page = p /\ caller'[c].changed = caller[c].changed
             /\ \/ caller'[c].at = "source" /\ Listed(p) /\ ~Closed(p)
                \/ /\ caller'[c].at = "register" /\ ~Listed(p)
                   /\ \E option \in Options : /\ option.place \cap Occupied = {}
                                          /\ caller'[c].copy = [registry EXCEPT ![p] = Entry(option)]
  <2>1. CASE /\ Listed(p) /\ ~Closed(p)
             /\ caller' = [caller EXCEPT ![c] = [@ EXCEPT !.at = "source", !.page = p]]
    BY <1>1, <2>1 DEF CallerStates
  <2>2. ASSUME ~Listed(p), NEW option \in Options, option.place \cap Occupied = {},
               caller' = [caller EXCEPT ![c] = [@ EXCEPT !.at = "register", !.page = p,
                                                         !.copy = [registry EXCEPT ![p] = Entry(option)]]]
        PROVE  /\ caller'[c].page = p /\ caller'[c].changed = caller[c].changed
               /\ caller'[c].at = "register" /\ caller'[c].copy = [registry EXCEPT ![p] = Entry(option)]
    BY <1>1, <2>2 DEF CallerStates
  <2> QED
    BY <1>2, <2>1, <2>2 DEF BeginCreate
<1>3. ASSUME AppendRegistryEntry(c) PROVE caller'[c].at = "source" /\ Same(c)
  BY <1>1, <1>3 DEF AppendRegistryEntry, Go, CallerStates, Same
<1>4. ASSUME WriteSourceIfMissing(c)
      PROVE  /\ caller'[c].at = "talk" /\ Same(c)
             /\ caller'[c].fresh = (source[caller[c].page] = Missing)
  BY <1>1, <1>4 DEF WriteSourceIfMissing, CallerStates, Same, Page
<1>5. ASSUME WriteTalk(c), caller[c].fresh
      PROVE  /\ caller'[c].at = "baseline" /\ Same(c) /\ caller'[c].fresh
             /\ caller'[c].base = source[caller[c].page].text
  <2> DEFINE text == source[caller[c].page].text
  <2>1. caller' = [caller EXCEPT ![c] = [@ EXCEPT !.at = "baseline", !.base = text]]
    BY <1>5 DEF WriteTalk
  <2> HIDE DEF text
  <2>2. /\ caller'[c].at = "baseline" /\ caller'[c].page = caller[c].page /\ caller'[c].base = text
        /\ caller'[c].changed = caller[c].changed /\ caller'[c].fresh = caller[c].fresh
    BY <1>1, <2>1 DEF CallerStates
  <2> QED
    BY <1>5, <2>2 DEF Same, text
<1> QED
  BY <1>2, <1>3, <1>4, <1>5

LEMMA DeleteEffects ==
    ASSUME PagesTypeOK, NEW c \in Callers
    PROVE  /\ \A p \in Pages : BeginDelete(c, p) \/ BeginRestore(c, p) =>
                /\ caller'[c].at \in {"bury", "dig"} /\ Listed(p)
                /\ caller'[c].page = p /\ caller'[c].changed = caller[c].changed
           /\ WriteTombstone(c) => /\ caller'[c].at = "retire" /\ caller'[c].page = caller[c].page
                                   /\ caller'[c].changed = (caller[c].page \notin tombstone)
           /\ RemoveTombstone(c) => /\ caller'[c].at = "relist" /\ caller'[c].page = caller[c].page
                                    /\ caller'[c].changed = (caller[c].page \in tombstone)
           /\ RetirePage(c) => /\ caller'[c].at = "tombstoned" /\ caller'[c].page = caller[c].page
                               /\ (caller'[c].changed) <=> (caller[c].changed \/ registry'[Page(c)] # registry[Page(c)])
           /\ RelistPage(c) => /\ caller'[c].at = "restored" /\ caller'[c].page = caller[c].page
                               /\ (caller'[c].changed) <=> (caller[c].changed \/ registry'[Page(c)] # registry[Page(c)])
<1>1. /\ caller[c] \in CallerStates /\ caller \in [Callers -> CallerStates]
      /\ registry \in Registries /\ Page(c) \in Pages
  BY DEF PagesTypeOK, CallerStates, Page
<1>2. ASSUME NEW p \in Pages, BeginDelete(c, p) \/ BeginRestore(c, p)
      PROVE  /\ caller'[c].at \in {"bury", "dig"} /\ Listed(p)
             /\ caller'[c].page = p /\ caller'[c].changed = caller[c].changed
  BY <1>1, <1>2 DEF BeginDelete, BeginRestore, CallerStates
<1>3. ASSUME WriteTombstone(c)
      PROVE  /\ caller'[c].at = "retire" /\ caller'[c].page = caller[c].page
             /\ caller'[c].changed = (caller[c].page \notin tombstone)
  BY <1>1, <1>3 DEF WriteTombstone, CallerStates
<1>4. ASSUME RemoveTombstone(c)
      PROVE  /\ caller'[c].at = "relist" /\ caller'[c].page = caller[c].page
             /\ caller'[c].changed = (caller[c].page \in tombstone)
  BY <1>1, <1>4 DEF RemoveTombstone, CallerStates
<1>5. ASSUME NEW entry, NEW place \in Steps, SetEntry(c, entry, place)
      PROVE  /\ caller'[c].at = place /\ caller'[c].page = caller[c].page
             /\ (caller'[c].changed) <=> (caller[c].changed \/ registry'[Page(c)] # registry[Page(c)])
  <2> DEFINE changed == caller[c].changed \/ registry[Page(c)] # entry
  <2>1. caller' = [caller EXCEPT ![c] = [@ EXCEPT !.at = place, !.changed = changed]]
    BY <1>5 DEF SetEntry
  <2>2. registry'[Page(c)] = entry
    BY <1>1, <1>5 DEF SetEntry, Registries
  <2> QED
    BY <1>1, <2>1, <2>2 DEF CallerStates
<1> QED
  BY <1>2, <1>3, <1>4, <1>5, StepNames DEF RetirePage, RelistPage
-----------------------------------------------------------------------------
(* One caller at a time: the others keep what they have in memory, and     *)
(* while one is under way they rest.                                       *)
StepOf(c) ==
    \/ \E p \in Pages : OpenPage(c, p) \/ BeginCreate(c, p) \/ BeginDelete(c, p) \/ BeginRestore(c, p)
    \/ BeginEdit(c) \/ PrepareEdit(c) \/ WriteEdit(c) \/ Refuse(c)
    \/ AppendRegistryEntry(c) \/ WriteSourceIfMissing(c) \/ WriteTalk(c) \/ AppendBaseline(c)
    \/ WriteTombstone(c) \/ RetirePage(c) \/ RemoveTombstone(c) \/ RelistPage(c) \/ Tell(c)
    \/ Die(c)

LEMMA Others ==
    ASSUME PagesTypeOK, NEW c \in Callers, StepOf(c), NEW d \in Callers \ {c}
    PROVE  caller'[d] = caller[d]
<1>1. caller \in [Callers -> CallerStates]
  BY DEF PagesTypeOK
<1>2. ASSUME NEW p \in Pages, OpenPage(c, p) \/ BeginCreate(c, p) \/ BeginDelete(c, p) \/ BeginRestore(c, p)
      PROVE  caller'[d] = caller[d]
  BY <1>1, <1>2 DEF OpenPage, BeginCreate, BeginDelete, BeginRestore
<1>3. CASE BeginEdit(c) \/ PrepareEdit(c) \/ WriteEdit(c) \/ Refuse(c)
  BY <1>1, <1>3 DEF BeginEdit, PrepareEdit, WriteEdit, Refuse, Finish
<1>4. CASE AppendRegistryEntry(c) \/ WriteSourceIfMissing(c) \/ AppendBaseline(c)
  BY <1>1, <1>4 DEF AppendRegistryEntry, Go, WriteSourceIfMissing, AppendBaseline, Finish
<1>5. CASE WriteTalk(c)
  BY <1>1, <1>5 DEF WriteTalk, Finish
<1>6. CASE WriteTombstone(c) \/ RemoveTombstone(c) \/ Tell(c) \/ Die(c)
  BY <1>1, <1>6 DEF WriteTombstone, RemoveTombstone, Tell, Die, Finish
<1>7. CASE RetirePage(c) \/ RelistPage(c)
  BY <1>1, <1>7 DEF RetirePage, RelistPage, SetEntry
<1> QED
  BY <1>2, <1>3, <1>4, <1>5, <1>6, <1>7 DEF StepOf

LEMMA Alone ==
    ASSUME PagesTypeOK, NEW c \in Callers, caller[c].at \notin Resting, NEW d \in Callers \ {c}
    PROVE  caller[d].at \in Resting
<1>1. LockInv
  BY DEF PagesTypeOK, LockInv, Resting
<1> QED
  BY <1>1 DEF LockInv

-----------------------------------------------------------------------------
(* A page is listed with what it occupies, and is neither buried nor told  *)
(* of before; the copy of wiki.toml a creation is to write is of the       *)
(* wiki.toml there is.                                                     *)
CallerListed(c) ==
    /\ caller[c].at = "register" =>
         /\ ~Listed(caller[c].page)
         /\ \E option \in Options :
              option.place \cap Occupied = {} /\ caller[c].copy = [registry EXCEPT ![caller[c].page] = Entry(option)]
    /\ caller[c].at \notin Resting \cup {"register"} => Listed(caller[c].page)
    /\ caller[c].at \in {"prepare", "write", "source"} => ~Closed(caller[c].page)
PageListed(p) ==
    /\ Listed(p) <=> registry[p].place # {}
    /\ ~Listed(p) => p \notin tombstone /\ ledger[p].life = "none"
RegistryInv == /\ PlacesAreUnique
               /\ \A p \in Pages : PageListed(p)
               /\ \A c \in Callers : CallerListed(c)

LEMMA RegistryInit == PagesInit => RegistryInv
<1> SUFFICES ASSUME PagesInit PROVE RegistryInv
  OBVIOUS
<1>1. \A p \in Pages : registry[p] = IF p \in DOMAIN Configured THEN Entry(Configured[p]) ELSE Unlisted
  BY DEF PagesInit
<1>2. \A p \in DOMAIN Configured : Configured[p] \in Options
  BY PagesAssumption
<1>3. \A p, q \in DOMAIN Configured : p # q => Configured[p].place \cap Configured[q].place = {}
  BY PagesAssumption
<1>4. PlacesAreUnique
  <2>1. \A p \in Pages : registry[p].place = IF p \in DOMAIN Configured THEN Configured[p].place ELSE {}
    <3>1. \A option \in Options : Entry(option).place = option.place
      BY DEF Entry
    <3>2. Unlisted.place = {}
      BY DEF Unlisted
    <3> QED
      BY <1>1, <1>2, <3>1, <3>2
  <2> SUFFICES ASSUME NEW p \in Pages, NEW q \in Pages, p # q
               PROVE  registry[p].place \cap registry[q].place = {}
    BY DEF PlacesAreUnique
  <2>2. CASE p \in DOMAIN Configured /\ q \in DOMAIN Configured
    BY <1>3, <2>1, <2>2
  <2>3. CASE registry[p].place = {} \/ registry[q].place = {}
    BY <2>3
  <2> QED
    BY <2>1, <2>2, <2>3
<1>5. ASSUME NEW p \in Pages PROVE PageListed(p)
  <2>1. tombstone = {} /\ ledger[p].life = "none"
    BY DEF PagesInit
  <2>2. \A option \in Options : option.place # {}
    BY PagesAssumption
  <2>3. CASE p \in DOMAIN Configured
    <3>1. registry[p] = Entry(Configured[p]) /\ Configured[p].place # {}
      BY <1>1, <1>2, <2>2, <2>3
    <3>2. Listed(p) /\ registry[p].place # {}
      BY <3>1 DEF Listed, Entry, Unlisted
    <3> QED
      BY <3>2 DEF PageListed
  <2>4. CASE registry[p] = Unlisted
    <3>1. ~Listed(p) /\ registry[p].place = {}
      BY <2>4 DEF Listed, Unlisted
    <3> QED
      BY <2>1, <3>1 DEF PageListed
  <2> QED
    BY <1>1, <2>3, <2>4
<1>6. ASSUME NEW c \in Callers PROVE CallerListed(c)
  <2>1. caller[c].at = "idle"
    BY TextTypes DEF PagesInit
  <2> QED
    BY <2>1 DEF CallerListed, Resting
<1> QED
  BY <1>4, <1>5, <1>6 DEF RegistryInv

LEMMA ListedKept ==
    ASSUME NEW c \in Callers, CallerListed(c), caller'[c] = caller[c], UNCHANGED <<registry, tombstone>>
    PROVE  CallerListed(c)'
<1>1. /\ Occupied' = Occupied
      /\ Listed(caller[c].page)' <=> Listed(caller[c].page)
      /\ Closed(caller[c].page)' <=> Closed(caller[c].page)
  BY DEF Listed, Occupied, Closed
<1> QED
  BY <1>1 DEF CallerListed

LEMMA RestingListed ==
    ASSUME NEW c \in Callers, caller'[c].at \in Resting PROVE CallerListed(c)'
BY DEF CallerListed, Resting

(* The steps that do not touch wiki.toml, tombstones and lifecycles.       *)
LEMMA RegistrySameStep ==
    ASSUME PagesTypeOK, RegistryInv, NEW c \in Callers, StepOf(c),
           UNCHANGED <<registry, tombstone>>, \A p \in Pages : ledger'[p].life = ledger[p].life,
           CallerListed(c)'
    PROVE  RegistryInv'
<1>1. PlacesAreUnique' /\ \A p \in Pages : PageListed(p)'
  BY DEF RegistryInv, PlacesAreUnique, PageListed, Listed
<1>2. \A d \in Callers \ {c} : CallerListed(d)'
  BY Others, ListedKept DEF RegistryInv
<1> QED
  BY <1>1, <1>2 DEF RegistryInv

(* In the others the caller is under way, and so it alone matters.         *)
LEMMA RegistryAloneStep ==
    ASSUME PagesTypeOK, NEW c \in Callers, StepOf(c), caller[c].at \notin Resting,
           PlacesAreUnique', \A p \in Pages : PageListed(p)', CallerListed(c)'
    PROVE  RegistryInv'
<1>1. \A d \in Callers \ {c} : CallerListed(d)'
  BY Others, Alone, RestingListed
<1> QED
  BY <1>1 DEF RegistryInv

LEMMA RegistryStep ==
    PagesTypeOK /\ RegistryInv /\ [PagesNext]_pageVars => RegistryInv'
<1> SUFFICES ASSUME PagesTypeOK, RegistryInv, [PagesNext]_pageVars PROVE RegistryInv'
  OBVIOUS
<1> USE DEF At
<1>1. ASSUME NEW c \in Callers
      PROVE  /\ CallerListed(c) /\ caller[c] \in CallerStates /\ Page(c) = caller[c].page
             /\ caller[c].page \in Pages
  BY DEF RegistryInv, PagesTypeOK, CallerStates, Page
<1>2. ASSUME NEW c \in Callers, NEW p \in Pages, OpenPage(c, p) PROVE RegistryInv'
  <2>1. CallerListed(c)'
    BY <1>2, EditEffects, RestingListed DEF Resting
  <2> QED
    BY <1>2, <2>1, RegistrySameStep DEF StepOf, OpenPage, files
<1>3. ASSUME NEW c \in Callers, BeginEdit(c) PROVE RegistryInv'
  <2>1. caller'[c].at = "prepare" /\ caller'[c].page = caller[c].page /\ UNCHANGED files
    BY <1>3, EditEffects DEF BeginEdit, Same
  <2>2. CallerListed(c)'
    BY <1>1, <1>3, <2>1 DEF BeginEdit, Editable, CallerListed, Listed, Closed, files
  <2> QED
    BY <1>3, <2>1, <2>2, RegistrySameStep DEF StepOf, files
<1>4. ASSUME NEW c \in Callers, PrepareEdit(c) PROVE RegistryInv'
  <2>1. /\ caller'[c].at = "write" /\ caller'[c].page = caller[c].page /\ UNCHANGED files
        /\ caller[c].at = "prepare"
    BY <1>4, EditEffects DEF PrepareEdit, Same
  <2>2. CallerListed(c)'
    BY <1>1, <2>1 DEF CallerListed, Listed, Closed, files, Resting
  <2> QED
    BY <1>4, <2>1, <2>2, RegistrySameStep DEF StepOf, files
<1>5. ASSUME NEW c \in Callers, Ends(c) PROVE caller'[c].at \in Resting /\ CallerListed(c)' /\ StepOf(c)
  <2>1. caller'[c].at = "idle"
    BY <1>5, EditEffects, TextTypes
  <2> QED
    BY <1>5, <2>1, RestingListed DEF Resting, Ends, StepOf
<1>6. ASSUME NEW c \in Callers, WriteEdit(c) \/ Refuse(c) \/ Die(c) PROVE RegistryInv'
  BY <1>5, <1>6, RegistrySameStep DEF Ends, WriteEdit, Refuse, Die, files
<1>7. ASSUME NEW c \in Callers, WriteTalk(c) PROVE RegistryInv'
  <2>1. UNCHANGED <<registry, tombstone, ledger>> /\ caller[c].at = "talk"
    BY <1>7 DEF WriteTalk
  <2>2. CASE caller[c].fresh
    <3>1. caller'[c].at = "baseline" /\ caller'[c].page = caller[c].page
      BY <1>7, <2>2, CreateEffects DEF Same
    <3>2. CallerListed(c)'
      BY <1>1, <2>1, <3>1 DEF CallerListed, Listed, Resting
    <3> QED
      BY <1>7, <2>1, <3>2, RegistrySameStep DEF StepOf
  <2>3. CASE ~caller[c].fresh
    BY <1>5, <1>7, <2>1, <2>3, RegistrySameStep DEF Ends
  <2> QED
    BY <2>2, <2>3
<1>8. ASSUME NEW c \in Callers, AppendBaseline(c) PROVE RegistryInv'
  <2>1. \A p \in Pages : ledger'[p].life = ledger[p].life
    BY <1>1, <1>8 DEF AppendBaseline, PagesTypeOK
  <2> QED
    BY <1>5, <1>8, <2>1, RegistrySameStep DEF Ends, AppendBaseline
<1>9. ASSUME NEW c \in Callers, NEW p \in Pages, BeginCreate(c, p) PROVE RegistryInv'
  <2>1. UNCHANGED files
    BY <1>9 DEF BeginCreate
  <2>2. CallerListed(c)'
    <3>1. CASE caller'[c].at = "source" /\ Listed(p) /\ ~Closed(p) /\ caller'[c].page = p
      BY <2>1, <3>1 DEF CallerListed, Listed, Closed, files
    <3>2. CASE /\ caller'[c].at = "register" /\ caller'[c].page = p /\ ~Listed(p)
               /\ \E option \in Options : /\ option.place \cap Occupied = {}
                                        /\ caller'[c].copy = [registry EXCEPT ![p] = Entry(option)]
      BY <2>1, <3>2 DEF CallerListed, Listed, Occupied, files
    <3> QED
      BY <1>9, <3>1, <3>2, CreateEffects
  <2> QED
    BY <1>9, <2>1, <2>2, RegistrySameStep DEF StepOf, files
<1>10. ASSUME NEW c \in Callers, AppendRegistryEntry(c) PROVE RegistryInv'
  <2>0. PICK q \in Pages : q = caller[c].page
    BY <1>1
  <2>1. /\ caller[c].at = "register" /\ registry' = caller[c].copy /\ UNCHANGED <<tombstone, ledger>>
        /\ caller'[c].at = "source" /\ caller'[c].page = q
    BY <1>10, <2>0, CreateEffects DEF AppendRegistryEntry, Same
  <2>2. PICK option \in Options : option.place \cap Occupied = {} /\ registry' = [registry EXCEPT ![q] = Entry(option)]
    BY <1>1, <2>0, <2>1 DEF CallerListed
  <2>3. ~Listed(q) /\ q \notin tombstone /\ q \in Pages /\ registry \in Registries
    BY <1>1, <2>0, <2>1 DEF CallerListed, RegistryInv, PageListed, PagesTypeOK
  <2>4. /\ registry'[q] = Entry(option) /\ \A p \in Pages \ {q} : registry'[p] = registry[p]
    BY <2>2, <2>3 DEF Registries
  <2>5. \A p \in Pages : option.place \cap registry[p].place = {}
    BY <2>2 DEF Occupied
  <2>6. PlacesAreUnique'
    BY <2>4, <2>5 DEF PlacesAreUnique, Entry, RegistryInv
  <2>7. Listed(q)' /\ ~Closed(q)'
    BY <2>1, <2>3, <2>4 DEF Listed, Closed, Entry, Unlisted
  <2>8. \A p \in Pages : PageListed(p)'
    <3>1. option.place # {}
      BY PagesAssumption
    <3>2. PageListed(q)'
      <4>1. registry'[q].place # {}
        BY <2>4, <3>1 DEF Entry
      <4> QED
        BY <2>7, <4>1 DEF PageListed
    <3> QED
      BY <2>1, <2>4, <3>2 DEF PageListed, RegistryInv, Listed
  <2>9. CallerListed(c)'
    BY <2>1, <2>7 DEF CallerListed
  <2>10. caller[c].at \notin Resting /\ StepOf(c)
    BY <1>10, <2>1 DEF Resting, StepOf
  <2> QED
    BY <2>6, <2>8, <2>9, <2>10, RegistryAloneStep
<1>11. ASSUME NEW c \in Callers, WriteSourceIfMissing(c) PROVE RegistryInv'
  <2>1. /\ UNCHANGED <<registry, tombstone, ledger>> /\ caller[c].at = "source"
        /\ caller'[c].at = "talk" /\ caller'[c].page = caller[c].page
    BY <1>11, CreateEffects DEF WriteSourceIfMissing, Same
  <2>2. CallerListed(c)'
    BY <1>1, <2>1 DEF CallerListed, Listed, Resting
  <2> QED
    BY <1>11, <2>1, <2>2, RegistrySameStep DEF StepOf
<1>12. ASSUME NEW c \in Callers, NEW p \in Pages, BeginDelete(c, p) \/ BeginRestore(c, p) PROVE RegistryInv'
  <2>1. UNCHANGED files
    BY <1>12 DEF BeginDelete, BeginRestore
  <2>2. caller'[c].at \in {"bury", "dig"} /\ caller'[c].page = p /\ Listed(p)
    BY <1>12, DeleteEffects
  <2>3. CallerListed(c)'
    BY <2>1, <2>2 DEF CallerListed, Listed, files
  <2> QED
    BY <1>12, <2>1, <2>3, RegistrySameStep DEF StepOf, files
<1>13. ASSUME NEW c \in Callers, WriteTombstone(c) \/ RemoveTombstone(c) PROVE RegistryInv'
  <2>1. /\ UNCHANGED <<registry, ledger>> /\ caller[c].at \in {"bury", "dig"}
        /\ \A p \in Pages \ {caller[c].page} : p \in tombstone' <=> p \in tombstone
    BY <1>13 DEF WriteTombstone, RemoveTombstone
  <2>2. caller'[c].at \in {"retire", "relist"} /\ caller'[c].page = caller[c].page
    BY <1>13, DeleteEffects
  <2>3. Listed(caller[c].page)
    BY <1>1, <2>1 DEF CallerListed, Resting
  <2>4. PlacesAreUnique' /\ \A p \in Pages : PageListed(p)'
    BY <2>1, <2>3 DEF RegistryInv, PlacesAreUnique, PageListed, Listed
  <2>5. CallerListed(c)'
    BY <2>1, <2>2, <2>3 DEF CallerListed, Listed
  <2>6. caller[c].at \notin Resting /\ StepOf(c)
    BY <1>13, <2>1 DEF Resting, StepOf
  <2> QED
    BY <2>4, <2>5, <2>6, RegistryAloneStep
<1>14. ASSUME NEW c \in Callers, RetirePage(c) \/ RelistPage(c) PROVE RegistryInv'
  <2>0. PICK q \in Pages : q = caller[c].page
    BY <1>1
  <2>1. PICK entry \in {Entry(registry[q]), Retired(registry[q])} :
          registry' = [registry EXCEPT ![q] = entry]
    BY <1>1, <1>14, <2>0 DEF RetirePage, RelistPage, SetEntry
  <2>2. UNCHANGED <<tombstone, ledger>> /\ caller[c].at \in {"retire", "relist"}
    BY <1>14 DEF RetirePage, RelistPage, SetEntry
  <2>3. caller'[c].at \in {"tombstoned", "restored"} /\ caller'[c].page = q
    BY <1>14, <2>0, DeleteEffects
  <2>4. registry \in Registries /\ q \in Pages /\ Listed(q) /\ registry[q].place # {}
    BY <1>1, <2>0, <2>2 DEF CallerListed, Resting, PagesTypeOK, RegistryInv, PageListed
  <2>5. /\ registry'[q] = entry
        /\ \A p \in Pages \ {q} : registry'[p] = registry[p]
    BY <2>1, <2>4 DEF Registries
  <2>6. \A p \in Pages : registry'[p].place = registry[p].place
    BY <2>5 DEF Entry, Retired
  <2>7. PlacesAreUnique'
    <3>1. PlacesAreUnique
      BY DEF RegistryInv
    <3> QED
      BY <2>6, <3>1 DEF PlacesAreUnique
  <2>8. Listed(q)'
    <3>1. registry'[q].place # {}
      BY <2>4, <2>6
    <3> QED
      BY <3>1 DEF Listed, Unlisted
  <2>9. \A p \in Pages : PageListed(p)'
    <3>1. PageListed(q)'
      BY <2>4, <2>6, <2>8 DEF PageListed
    <3>2. ASSUME NEW p \in Pages \ {q} PROVE PageListed(p)'
      <4>1. PageListed(p) /\ registry'[p] = registry[p]
        BY <2>5 DEF RegistryInv
      <4> QED
        BY <2>2, <4>1 DEF PageListed, Listed
    <3> QED
      BY <3>1, <3>2
  <2>10. CallerListed(c)'
    BY <2>3, <2>8 DEF CallerListed
  <2>11. caller[c].at \notin Resting /\ StepOf(c)
    BY <1>14, <2>2 DEF Resting, StepOf
  <2> QED
    BY <2>7, <2>9, <2>10, <2>11, RegistryAloneStep
<1>15. ASSUME NEW c \in Callers, Tell(c) PROVE RegistryInv'
  <2>1. UNCHANGED <<registry, tombstone>> /\ caller[c].at \in {"tombstoned", "restored"}
    BY <1>15 DEF Tell
  <2>2. Listed(caller[c].page) /\ \A p \in Pages \ {caller[c].page} : ledger'[p] = ledger[p]
    BY <1>1, <1>15, <2>1 DEF CallerListed, Resting, Tell, PagesTypeOK
  <2>3. PlacesAreUnique' /\ \A p \in Pages : PageListed(p)'
    BY <2>1, <2>2 DEF RegistryInv, PlacesAreUnique, PageListed, Listed
  <2>4. caller[c].at \notin Resting
    BY <2>1 DEF Resting
  <2> QED
    BY <1>5, <1>15, <2>3, <2>4, RegistryAloneStep DEF Ends
<1>16. ASSUME UNCHANGED <<registry, tombstone, ledger, caller>> PROVE RegistryInv'
  BY <1>16, ListedKept DEF RegistryInv, PlacesAreUnique, PageListed, Listed
<1>17. ASSUME NEW p \in Pages, EditDirectly(p) PROVE RegistryInv'
  BY <1>16, <1>17 DEF EditDirectly
<1>18. CASE UNCHANGED pageVars
  BY <1>16, <1>18 DEF pageVars, files
<1> QED
  BY <1>2, <1>3, <1>4, <1>6, <1>7, <1>8, <1>9, <1>10, <1>11, <1>12, <1>13, <1>14, <1>15, <1>17, <1>18
  DEF PagesNext

(* No two pages, listed or deleted, occupy one route, talk route or path.  *)
THEOREM PlacesStayUnique == PagesSpec => []PlacesAreUnique
<1>1. PagesInit => PagesTypeOK /\ RegistryInv
  BY PagesTypeInit, RegistryInit
<1>2. PagesTypeOK /\ RegistryInv /\ [PagesNext]_pageVars => (PagesTypeOK /\ RegistryInv)'
  BY PagesTypeStep, RegistryStep
<1>3. RegistryInv => PlacesAreUnique
  BY DEF RegistryInv
<1> QED
  BY <1>1, <1>2, <1>3, PTL DEF PagesSpec
-----------------------------------------------------------------------------
(* A source is written by an edit or a creation that is under way, and     *)
(* those are of pages that are open.                                       *)
LEMMA SourceSteps ==
    ASSUME PagesTypeOK, [PagesNext]_pageVars, NEW p \in Pages, source'[p] # source[p]
    PROVE  \/ \E c \in Callers : WriteEdit(c) \/ WriteSourceIfMissing(c) \/ Die(c)
           \/ EditDirectly(p)
<1> USE DEF At, Page
<1>1. source \in [Pages -> Sources] /\ \A c \in Callers : caller[c].page \in Pages
  BY DEF PagesTypeOK, CallerStates
<1>2. ASSUME NEW c \in Callers, NEW q \in Pages,
             OpenPage(c, q) \/ BeginCreate(c, q) \/ BeginDelete(c, q) \/ BeginRestore(c, q)
      PROVE  FALSE
  BY <1>2 DEF OpenPage, BeginCreate, BeginDelete, BeginRestore, files
<1>3. ASSUME NEW c \in Callers, BeginEdit(c) \/ PrepareEdit(c) \/ Refuse(c) PROVE FALSE
  BY <1>3 DEF BeginEdit, PrepareEdit, Refuse, files
<1>4. ASSUME NEW c \in Callers,
             \/ AppendRegistryEntry(c) \/ WriteTalk(c) \/ AppendBaseline(c) \/ Tell(c)
             \/ WriteTombstone(c) \/ RemoveTombstone(c) \/ RetirePage(c) \/ RelistPage(c)
      PROVE  FALSE
  BY <1>4 DEF AppendRegistryEntry, WriteTalk, AppendBaseline, Tell, WriteTombstone, RemoveTombstone,
              RetirePage, RelistPage, SetEntry
<1>5. ASSUME NEW q \in Pages, EditDirectly(q) PROVE EditDirectly(p)
  <2>1. q = p
    BY <1>1, <1>5 DEF EditDirectly
  <2> QED
    BY <1>5, <2>1
<1>6. ASSUME UNCHANGED pageVars PROVE FALSE
  BY <1>6 DEF pageVars, files
<1> QED
  BY <1>2, <1>3, <1>4, <1>5, <1>6 DEF PagesNext

LEMMA SourceWriters ==
    ASSUME PagesTypeOK, [PagesNext]_pageVars, NEW p \in Pages, source'[p] # source[p]
    PROVE  \/ \E c \in Callers : caller[c].at \in {"write", "source"} /\ caller[c].page = p
           \/ EditDirectly(p)
<1>1. source \in [Pages -> Sources] /\ \A c \in Callers : caller[c].page \in Pages
  BY DEF PagesTypeOK, CallerStates
<1>2. ASSUME NEW c \in Callers, WriteEdit(c) \/ WriteSourceIfMissing(c) \/ Die(c)
      PROVE  caller[c].at \in {"write", "source"} /\ caller[c].page = p
  BY <1>1, <1>2 DEF WriteEdit, WriteSourceIfMissing, Die, At, Page
<1> QED
  BY <1>2, SourceSteps

(* Once a page is deleted, no operation of the core that began before it   *)
(* or after writes its source, until it is restored.                       *)
THEOREM ClosedPagesStayFrozen == PagesSpec => ClosedPagesAreFrozen
<1> DEFINE Frozen == \A p \in Pages :
                       Listed(p) /\ Closed(p) => source'[p] = source[p] \/ source'[p].text \in direct'
<1>1. PagesInit => PagesTypeOK /\ RegistryInv
  BY PagesTypeInit, RegistryInit
<1>2. PagesTypeOK /\ RegistryInv /\ [PagesNext]_pageVars => (PagesTypeOK /\ RegistryInv)'
  BY PagesTypeStep, RegistryStep
<1>3. ASSUME PagesTypeOK, RegistryInv, [PagesNext]_pageVars PROVE Frozen
  <2> SUFFICES ASSUME NEW p \in Pages, Closed(p), source'[p] # source[p]
               PROVE  source'[p].text \in direct'
    OBVIOUS
  <2>1. ASSUME NEW c \in Callers, caller[c].at \in {"write", "source"}, caller[c].page = p PROVE FALSE
    BY <1>3, <2>1 DEF RegistryInv, CallerListed
  <2>2. EditDirectly(p)
    BY <1>3, <2>1, SourceWriters
  <2> QED
    BY <1>3, <2>2 DEF EditDirectly, PagesTypeOK, Source
<1>4. PagesTypeOK /\ RegistryInv /\ [PagesNext]_pageVars => [Frozen]_pageVars
  BY <1>3
<1> QED
  BY <1>1, <1>2, <1>4, PTL DEF PagesSpec, ClosedPagesAreFrozen

-----------------------------------------------------------------------------
(* Between its two writes a delete or a restore leaves tombstone and entry *)
(* apart, and between the second and the ledger's line entry and ledger:   *)
(* if it changes anything, and one caller at most is there.                *)
Moving == {"retire", "relist"}
Telling == {"tombstoned", "restored"}
BusyAt(p, places) ==
    \E c \in Callers : caller[c].page = p /\ caller[c].at \in places /\ caller[c].changed
EntryAgrees(p) ==
    /\ registry[p].navigation <=> registry[p].enabled /\ registry[p].shown
    /\ registry[p].enabled <=> p \notin tombstone
LedgerAgrees(p) == ledger[p].life = "tombstoned" <=> ~registry[p].enabled
PageWhole(p) ==
    /\ Listed(p) /\ "half" \notin cut[p] /\ ~BusyAt(p, Moving) => EntryAgrees(p)
    /\ Listed(p) /\ "untold" \notin cut[p] /\ ~BusyAt(p, Telling) => LedgerAgrees(p)
CallerWhole(c) ==
    /\ caller[c].changed => caller[c].at \in Moving \cup Telling
    /\ caller[c].at \in {"retire", "tombstoned"} => caller[c].page \in tombstone
    /\ caller[c].at \in {"relist", "restored"} => caller[c].page \notin tombstone
    /\ caller[c].at = "tombstoned" =>
         ~registry[caller[c].page].enabled /\ ~registry[caller[c].page].navigation
    /\ caller[c].at = "restored" =>
         /\ registry[caller[c].page].enabled
         /\ registry[caller[c].page].navigation <=> registry[caller[c].page].shown
WholeInv == (\A p \in Pages : PageWhole(p)) /\ (\A c \in Callers : CallerWhole(c))

LEMMA WholeInit == PagesInit => WholeInv
<1> SUFFICES ASSUME PagesInit PROVE WholeInv
  OBVIOUS
<1>1. \A c \in Callers : caller[c].at = "idle" /\ ~caller[c].changed
  BY TextTypes DEF PagesInit
<1>2. ASSUME NEW p \in Pages PROVE PageWhole(p)
  <2>1. tombstone = {} /\ ledger[p].life = "none"
    BY DEF PagesInit
  <2>2. Listed(p) => registry[p].enabled /\ (registry[p].navigation <=> registry[p].shown)
    BY DEF PagesInit, Listed, Entry
  <2> QED
    BY <2>1, <2>2 DEF PageWhole, EntryAgrees, LedgerAgrees
<1> QED
  BY <1>1, <1>2 DEF WholeInv, CallerWhole

LEMMA BusyAlone ==
    ASSUME PagesTypeOK, PagesTypeOK', NEW c \in Callers, StepOf(c), caller[c].at \notin Resting,
           NEW p \in Pages, NEW places \in {Moving, Telling}
    PROVE  /\ BusyAt(p, places) <=> caller[c].page = p /\ caller[c].at \in places /\ caller[c].changed
           /\ BusyAt(p, places)' <=> caller'[c].page = p /\ caller'[c].at \in places /\ caller'[c].changed
<1>1. ASSUME NEW d \in Callers \ {c} PROVE caller[d].at \notin places /\ caller'[d].at \notin places
  <2>1. caller[d].at \in Resting /\ caller'[d] = caller[d]
    BY Alone, Others
  <2> QED
    BY <2>1 DEF Resting, Moving, Telling
<1> QED
  BY <1>1 DEF BusyAt

LEMMA BusySame ==
    ASSUME PagesTypeOK, NEW c \in Callers, StepOf(c), caller[c].at \notin Moving \cup Telling,
           caller'[c].at \notin Moving \cup Telling, NEW p \in Pages, NEW places \in {Moving, Telling}
    PROVE  BusyAt(p, places)' <=> BusyAt(p, places)
<1>1. \A d \in Callers \ {c} : caller'[d] = caller[d]
  BY Others
<1> QED
  BY <1>1 DEF BusyAt

LEMMA WholeCallers ==
    ASSUME PagesTypeOK, WholeInv, NEW c \in Callers, StepOf(c),
           caller[c].at \notin Resting \/ UNCHANGED <<registry, tombstone>>, CallerWhole(c)'
    PROVE  \A d \in Callers : CallerWhole(d)'
<1>1. ASSUME NEW d \in Callers \ {c} PROVE CallerWhole(d)'
  <2>1. caller'[d] = caller[d] /\ CallerWhole(d)
    BY Others DEF WholeInv
  <2>2. CASE caller[c].at \notin Resting
    <3>1. caller[d].at \in Resting
      BY <2>2, Alone
    <3> QED
      BY <2>1, <3>1 DEF CallerWhole, Resting, Moving, Telling
  <2>3. CASE UNCHANGED <<registry, tombstone>>
    BY <2>1, <2>3 DEF CallerWhole
  <2> QED
    BY <2>2, <2>3
<1> QED
  BY <1>1

(* The steps that touch neither wiki.toml nor a tombstone nor a lifecycle, *)
(* and neither begin nor end the time in which those may disagree.         *)
LEMMA WholeSameStep ==
    ASSUME PagesTypeOK, WholeInv, NEW c \in Callers, StepOf(c),
           UNCHANGED <<registry, tombstone, cut>>, \A p \in Pages : ledger'[p].life = ledger[p].life,
           caller[c].at \notin Moving \cup Telling, caller'[c].at \notin Moving \cup Telling,
           ~caller'[c].changed
    PROVE  WholeInv'
<1>1. \A d \in Callers : CallerWhole(d)'
  <2>1. CallerWhole(c)'
    BY DEF CallerWhole, Moving, Telling
  <2> QED
    BY <2>1, WholeCallers
<1>2. ASSUME NEW p \in Pages PROVE PageWhole(p)'
  <2>1. PageWhole(p) /\ ledger'[p].life = ledger[p].life
    BY DEF WholeInv
  <2>2. (BusyAt(p, Moving)' <=> BusyAt(p, Moving)) /\ (BusyAt(p, Telling)' <=> BusyAt(p, Telling))
    BY BusySame
  <2>3. (Listed(p)' <=> Listed(p)) /\ (EntryAgrees(p)' <=> EntryAgrees(p)) /\ (LedgerAgrees(p)' <=> LedgerAgrees(p))
    BY <2>1 DEF Listed, EntryAgrees, LedgerAgrees
  <2> QED
    BY <2>1, <2>2, <2>3 DEF PageWhole
<1> QED
  BY <1>1, <1>2 DEF WholeInv

(* In the others one page is at stake.                                     *)
LEMMA WholeOneStep ==
    ASSUME PagesTypeOK, PagesTypeOK', WholeInv, NEW c \in Callers, StepOf(c), caller[c].at \notin Resting,
           NEW q \in Pages, caller[c].page = q, caller'[c].page = q \/ ~caller'[c].changed,
           CallerWhole(c)', PageWhole(q)',
           \A p \in Pages \ {q} : /\ registry'[p] = registry[p] /\ (p \in tombstone' <=> p \in tombstone)
                                  /\ ledger'[p].life = ledger[p].life /\ cut'[p] = cut[p]
    PROVE  WholeInv'
<1>1. \A d \in Callers : CallerWhole(d)'
  BY WholeCallers
<1>2. ASSUME NEW p \in Pages \ {q} PROVE PageWhole(p)'
  <2>1. /\ ~BusyAt(p, Moving) /\ ~BusyAt(p, Moving)'
        /\ ~BusyAt(p, Telling) /\ ~BusyAt(p, Telling)'
    BY BusyAlone
  <2>2. (Listed(p)' <=> Listed(p)) /\ (EntryAgrees(p)' <=> EntryAgrees(p)) /\ (LedgerAgrees(p)' <=> LedgerAgrees(p))
    BY DEF Listed, EntryAgrees, LedgerAgrees
  <2>3. PageWhole(p) /\ cut'[p] = cut[p]
    BY DEF WholeInv
  <2> QED
    BY <2>1, <2>2, <2>3 DEF PageWhole
<1> QED
  BY <1>1, <1>2 DEF WholeInv
LEMMA WholeStep ==
    PagesTypeOK /\ PagesTypeOK' /\ RegistryInv /\ WholeInv /\ [PagesNext]_pageVars => WholeInv'
<1> SUFFICES ASSUME PagesTypeOK, PagesTypeOK', RegistryInv, WholeInv, [PagesNext]_pageVars
             PROVE  WholeInv'
  OBVIOUS
<1> USE DEF At, Page
<1>1. ASSUME NEW c \in Callers
      PROVE  /\ CallerListed(c) /\ CallerWhole(c) /\ caller[c] \in CallerStates
             /\ caller[c].page \in Pages /\ PageWhole(caller[c].page) /\ PageListed(caller[c].page)
  BY DEF RegistryInv, WholeInv, PagesTypeOK, CallerStates
<1>2. ASSUME NEW c \in Callers, caller[c].at \notin Moving \cup Telling PROVE ~caller[c].changed
  BY <1>1, <1>2 DEF CallerWhole
<1>3. ASSUME NEW c \in Callers, NEW p \in Pages,
             OpenPage(c, p) \/ BeginCreate(c, p) \/ BeginDelete(c, p) \/ BeginRestore(c, p)
      PROVE  WholeInv'
  <2>1. caller[c].at = "idle" /\ UNCHANGED files /\ cut' = cut
    BY <1>3 DEF OpenPage, BeginCreate, BeginDelete, BeginRestore, histories
  <2>2. /\ caller'[c].at \in {"opened", "source", "register", "bury", "dig"}
        /\ caller'[c].changed = caller[c].changed
    BY <1>3, EditEffects, CreateEffects, DeleteEffects
  <2> QED
    BY <1>2, <1>3, <2>1, <2>2, WholeSameStep DEF StepOf, files, Moving, Telling
<1>4. ASSUME NEW c \in Callers, BeginEdit(c) \/ PrepareEdit(c) PROVE WholeInv'
  <2>1. caller[c].at \in {"opened", "prepare"} /\ UNCHANGED files /\ cut' = cut
    BY <1>4 DEF BeginEdit, PrepareEdit, histories
  <2>2. caller'[c].at \in {"prepare", "write"} /\ caller'[c].changed = caller[c].changed
    BY <1>4, EditEffects DEF Same
  <2> QED
    BY <1>2, <1>4, <2>1, <2>2, WholeSameStep DEF StepOf, files, Moving, Telling
<1>5. ASSUME NEW c \in Callers, Ends(c) PROVE caller'[c].at = "idle" /\ ~caller'[c].changed /\ StepOf(c)
  BY <1>5, EditEffects, TextTypes DEF Ends, StepOf
<1>6. ASSUME NEW c \in Callers, WriteEdit(c) \/ Refuse(c) PROVE WholeInv'
  <2>1. /\ caller[c].at \in {"write", "opened", "prepare"} /\ UNCHANGED <<registry, tombstone, ledger>>
        /\ cut' = cut
    BY <1>6 DEF WriteEdit, Refuse, files, histories
  <2> QED
    BY <1>5, <1>6, <2>1, WholeSameStep DEF Ends, Moving, Telling
<1>7. ASSUME NEW c \in Callers, WriteSourceIfMissing(c) \/ WriteTalk(c) PROVE WholeInv'
  <2>1. caller[c].at \in {"source", "talk"} /\ UNCHANGED <<registry, tombstone, ledger>> /\ cut' = cut
    BY <1>7 DEF WriteSourceIfMissing, WriteTalk, histories
  <2>2. /\ caller'[c].at \in {"talk", "baseline", "idle"}
        /\ caller'[c].changed = caller[c].changed \/ ~caller'[c].changed
    BY <1>5, <1>7, CreateEffects DEF Same, Ends
  <2>3. ~caller'[c].changed
    BY <1>2, <2>1, <2>2 DEF Moving, Telling
  <2> QED
    BY <1>7, <2>1, <2>2, <2>3, WholeSameStep DEF StepOf, Moving, Telling
<1>8. ASSUME NEW c \in Callers, AppendBaseline(c) PROVE WholeInv'
  <2>1. caller[c].at = "baseline" /\ UNCHANGED <<registry, tombstone>> /\ cut' = cut
    BY <1>8 DEF AppendBaseline, histories
  <2>2. \A p \in Pages : ledger'[p].life = ledger[p].life
    BY <1>1, <1>8 DEF AppendBaseline, PagesTypeOK
  <2> QED
    BY <1>5, <1>8, <2>1, <2>2, WholeSameStep DEF Ends, Moving, Telling
<1>9. ASSUME NEW c \in Callers, AppendRegistryEntry(c) PROVE WholeInv'
  <2>0. PICK q \in Pages : q = caller[c].page
    BY <1>1
  <2>1. /\ caller[c].at = "register" /\ registry' = caller[c].copy /\ UNCHANGED <<tombstone, ledger>>
        /\ cut' = cut /\ caller'[c].at = "source" /\ caller'[c].page = q /\ caller'[c].changed = caller[c].changed
    BY <1>9, <2>0, CreateEffects DEF AppendRegistryEntry, Same, histories
  <2>2. PICK option \in Options : registry' = [registry EXCEPT ![q] = Entry(option)]
    BY <1>1, <2>0, <2>1 DEF CallerListed
  <2>3. registry'[q] = Entry(option) /\ \A p \in Pages \ {q} : registry'[p] = registry[p]
    BY <2>2 DEF PagesTypeOK, Registries
  <2>4. q \notin tombstone /\ ledger[q].life = "none"
    BY <1>1, <2>0, <2>1 DEF CallerListed, PageListed
  <2>5. PageWhole(q)'
    <3>1. registry'[q].enabled /\ (registry'[q].navigation <=> registry'[q].shown)
      BY <2>3 DEF Entry
    <3> QED
      BY <2>1, <2>4, <3>1 DEF PageWhole, EntryAgrees, LedgerAgrees
  <2>6. ~caller'[c].changed /\ CallerWhole(c)'
    BY <1>2, <2>1 DEF CallerWhole, Moving, Telling
  <2>7. caller[c].at \notin Resting /\ StepOf(c)
    BY <1>9, <2>1 DEF Resting, StepOf
  <2> QED
    BY <2>0, <2>1, <2>3, <2>5, <2>6, <2>7, WholeOneStep
<1>10. ASSUME NEW c \in Callers, WriteTombstone(c) \/ RemoveTombstone(c) PROVE WholeInv'
  <2>0. PICK q \in Pages : q = caller[c].page
    BY <1>1
  <2>1. /\ UNCHANGED <<registry, ledger>> /\ cut' = cut
        /\ \A p \in Pages \ {q} : p \in tombstone' <=> p \in tombstone
    BY <1>10, <2>0 DEF WriteTombstone, RemoveTombstone, histories
  <2>2. /\ caller[c].at \in {"bury", "dig"} /\ caller[c].at \notin Resting /\ StepOf(c)
    BY <1>10 DEF WriteTombstone, RemoveTombstone, Resting, StepOf
  <2>3. /\ caller'[c].page = q /\ caller'[c].at \in Moving
        /\ caller'[c].at = "retire" => q \in tombstone'
        /\ caller'[c].at = "relist" => q \notin tombstone'
        /\ ~caller'[c].changed => (q \in tombstone' <=> q \in tombstone)
    BY <1>10, <2>0, DeleteEffects DEF WriteTombstone, RemoveTombstone, Moving
  <2>4. CallerWhole(c)'
    BY <2>3 DEF CallerWhole, Moving
  <2>5. PageWhole(q)'
    <3>1. ~BusyAt(q, Moving) /\ ~BusyAt(q, Telling) /\ ~BusyAt(q, Telling)'
          /\ (BusyAt(q, Moving)' <=> caller'[c].changed)
      BY <2>0, <2>2, <2>3, BusyAlone DEF Moving, Telling
    <3>2. PageWhole(q)
      BY <1>1, <2>0
    <3> QED
      BY <2>1, <2>3, <3>1, <3>2 DEF PageWhole, Listed, EntryAgrees, LedgerAgrees
  <2> QED
    BY <2>0, <2>1, <2>2, <2>3, <2>4, <2>5, WholeOneStep
<1>11. ASSUME NEW c \in Callers, RetirePage(c) \/ RelistPage(c) PROVE WholeInv'
  <2>0. PICK q \in Pages : q = caller[c].page
    BY <1>1
  <2>1. UNCHANGED <<tombstone, ledger>> /\ cut' = cut /\ caller[c].at \in Moving
        /\ (RetirePage(c) => caller[c].at = "retire") /\ (RelistPage(c) => caller[c].at = "relist")
    BY <1>11 DEF RetirePage, RelistPage, SetEntry, histories, Moving
  <2>2. PICK listed \in BOOLEAN :
          /\ registry' = [registry EXCEPT ![q] = IF listed THEN Entry(registry[q]) ELSE Retired(registry[q])]
          /\ caller[c].at = IF listed THEN "relist" ELSE "retire"
    BY <1>11, <2>0, <2>1 DEF RetirePage, RelistPage, SetEntry
  <2>3. /\ listed => registry'[q].enabled /\ (registry'[q].navigation <=> registry'[q].shown)
        /\ ~listed => ~registry'[q].enabled /\ ~registry'[q].navigation
        /\ \A p \in Pages \ {q} : registry'[p] = registry[p]
    <3>1. /\ listed => registry'[q] = Entry(registry[q])
          /\ ~listed => registry'[q] = Retired(registry[q])
          /\ \A p \in Pages \ {q} : registry'[p] = registry[p]
      BY <2>2 DEF PagesTypeOK, Registries
    <3> QED
      BY <3>1 DEF Entry, Retired
  <2>4. /\ caller'[c].page = q /\ caller'[c].at = IF listed THEN "restored" ELSE "tombstoned"
        /\ caller'[c].changed <=> (caller[c].changed \/ registry'[q] # registry[q])
    BY <1>11, <2>0, <2>1, <2>2, DeleteEffects
  <2>5. caller[c].at \notin Resting /\ StepOf(c)
    BY <1>11, <2>1 DEF Resting, StepOf, Moving
  <2>6. listed <=> q \notin tombstone
    BY <1>1, <2>0, <2>2 DEF CallerWhole
  <2>7. CallerWhole(c)'
    BY <2>1, <2>3, <2>4, <2>6 DEF CallerWhole, Telling
  <2>8. PageWhole(q)'
    <3>1. EntryAgrees(q)'
      BY <2>1, <2>3, <2>6 DEF EntryAgrees
    <3>2. (BusyAt(q, Telling)' <=> caller'[c].changed) /\ ~BusyAt(q, Telling)
      BY <2>0, <2>1, <2>4, <2>5, BusyAlone DEF Moving, Telling
    <3>3. ASSUME ~caller'[c].changed, Listed(q)', "untold" \notin cut'[q] PROVE LedgerAgrees(q)'
      <4>1. registry'[q] = registry[q]
        BY <2>4, <3>3
      <4>2. LedgerAgrees(q)
        BY <1>1, <2>0, <2>1, <3>2, <3>3, <4>1 DEF PageWhole, Listed
      <4> QED
        BY <2>1, <4>1, <4>2 DEF LedgerAgrees
    <3> QED
      BY <3>1, <3>2, <3>3 DEF PageWhole
  <2> QED
    BY <2>0, <2>1, <2>3, <2>4, <2>5, <2>7, <2>8, WholeOneStep
<1>12. ASSUME NEW c \in Callers, Ends(c) PROVE CallerWhole(c)'
  BY <1>5, <1>12 DEF CallerWhole, Moving, Telling
<1>13. ASSUME NEW c \in Callers, Tell(c) PROVE WholeInv'
  <2>0. PICK q \in Pages : q = caller[c].page
    BY <1>1
  <2>1. /\ UNCHANGED <<registry, tombstone>> /\ caller[c].at \in Telling
        /\ ledger' = (IF caller[c].changed
                      THEN [ledger EXCEPT ![q] = [@ EXCEPT !.life = caller[c].at]] ELSE ledger)
        /\ cut' = [cut EXCEPT ![q] = IF caller[c].changed THEN {} ELSE @ \ {"half"}]
    BY <1>13, <2>0 DEF Tell, Telling
  <2>2. /\ \A p \in Pages \ {q} : ledger'[p] = ledger[p] /\ cut'[p] = cut[p]
        /\ IF caller[c].changed THEN ledger'[q].life = caller[c].at ELSE ledger'[q] = ledger[q]
        /\ ~caller[c].changed => ("untold" \in cut'[q] <=> "untold" \in cut[q])
    BY <2>1 DEF PagesTypeOK
  <2>3. /\ registry[q].navigation <=> registry[q].enabled /\ registry[q].shown
        /\ registry[q].enabled <=> q \notin tombstone
        /\ caller[c].at = "tombstoned" <=> ~registry[q].enabled
    BY <1>1, <2>0, <2>1 DEF CallerWhole, Telling
  <2>4. caller[c].at \notin Resting /\ Ends(c) /\ StepOf(c) /\ ~caller'[c].changed
    BY <1>5, <1>13, <2>1 DEF Resting, Telling, Ends
  <2>5. PageWhole(q)'
    <3>1. EntryAgrees(q)'
      BY <2>1, <2>3 DEF EntryAgrees
    <3>2. CASE caller[c].changed
      BY <2>1, <2>2, <2>3, <3>1, <3>2 DEF PageWhole, LedgerAgrees
    <3>3. CASE ~caller[c].changed
      <4>1. ~BusyAt(q, Telling)
        BY <2>4, <3>3, BusyAlone
      <4>2. PageWhole(q)
        BY <1>1, <2>0
      <4> QED
        BY <2>1, <2>2, <3>1, <3>3, <4>1, <4>2 DEF PageWhole, LedgerAgrees, Listed
    <3> QED
      BY <3>2, <3>3
  <2> QED
    BY <1>12, <2>0, <2>1, <2>2, <2>4, <2>5, WholeOneStep
<1>14. ASSUME NEW c \in Callers, Die(c) PROVE WholeInv'
  <2>0. PICK q \in Pages : q = caller[c].page
    BY <1>1
  <2>1. /\ UNCHANGED <<registry, tombstone, ledger>> /\ Ends(c) /\ StepOf(c)
        /\ caller'[c].at = "idle" /\ ~caller'[c].changed /\ cut' = CutShort(c)
    BY <1>5, <1>14 DEF Die, Ends
  <2>2. CASE caller[c].at \notin Moving \cup Telling
    <3>1. cut' = cut
      BY <1>2, <2>1, <2>2 DEF CutShort, PagesTypeOK
    <3> QED
      BY <2>1, <2>2, <3>1, WholeSameStep DEF Moving, Telling
  <2>3. CASE caller[c].at \in Moving \cup Telling
    <3>1. caller[c].at \notin Resting
      BY <2>3 DEF Resting, Moving, Telling
    <3>2. /\ \A p \in Pages \ {q} : cut'[p] = cut[p]
          /\ cut'[q] = IF ~caller[c].changed THEN cut[q]
                       ELSE IF caller[c].at \in Moving THEN cut[q] \cup {"half"} ELSE {"untold"}
      BY <2>0, <2>1 DEF CutShort, PagesTypeOK, Moving
    <3>3. /\ BusyAt(q, Moving) <=> (caller[c].at \in Moving /\ caller[c].changed)
          /\ BusyAt(q, Telling) <=> (caller[c].at \in Telling /\ caller[c].changed)
      BY <2>0, <2>1, <3>1, BusyAlone
    <3>4. caller[c].at \in Telling => EntryAgrees(q)
      BY <1>1, <2>0 DEF CallerWhole, Telling, EntryAgrees
    <3>5. PageWhole(q)
      BY <1>1, <2>0
    <3>6. PageWhole(q)'
      <4>1. (Listed(q)' <=> Listed(q)) /\ (EntryAgrees(q)' <=> EntryAgrees(q)) /\ (LedgerAgrees(q)' <=> LedgerAgrees(q))
        BY <2>1 DEF Listed, EntryAgrees, LedgerAgrees
      <4>2. CASE ~caller[c].changed
        BY <3>2, <3>3, <3>5, <4>1, <4>2 DEF PageWhole
      <4>3. CASE caller[c].changed /\ caller[c].at \in Moving
        <5>1. caller[c].at \notin Telling
          BY <4>3 DEF Moving, Telling
        <5> QED
          BY <3>2, <3>3, <3>5, <4>1, <4>3, <5>1 DEF PageWhole
      <4>4. CASE caller[c].changed /\ caller[c].at \in Telling
        <5>1. cut'[q] = {"untold"}
          BY <3>2, <4>4 DEF Moving, Telling
        <5> QED
          BY <3>4, <4>1, <4>4, <5>1 DEF PageWhole
      <4> QED
        BY <2>3, <4>2, <4>3, <4>4
    <3> QED
      BY <1>12, <2>0, <2>1, <3>1, <3>2, <3>6, WholeOneStep
  <2> QED
    BY <2>2, <2>3
<1>15. ASSUME UNCHANGED <<registry, tombstone, ledger, caller, cut>> PROVE WholeInv'
  BY <1>15 DEF WholeInv, PageWhole, CallerWhole, Listed, BusyAt, EntryAgrees, LedgerAgrees
<1>16. ASSUME NEW p \in Pages, EditDirectly(p) PROVE WholeInv'
  BY <1>15, <1>16 DEF EditDirectly
<1>17. CASE UNCHANGED pageVars
  BY <1>15, <1>17 DEF pageVars, files, histories
<1> QED
  BY <1>3, <1>4, <1>6, <1>7, <1>8, <1>9, <1>10, <1>11, <1>13, <1>14, <1>16, <1>17 DEF PagesNext

(* When no delete or restore is under way, a page that none of them left   *)
(* half done has tombstone, entry and navigation that agree, and so does   *)
(* the ledger, however many were cut before and in whatever places.        *)
THEOREM PagesAreWhole == PagesSpec => []PageIsWhole
<1> DEFINE Inv == PagesTypeOK /\ RegistryInv /\ WholeInv
<1>1. PagesInit => Inv
  BY PagesTypeInit, RegistryInit, WholeInit
<1>2. Inv /\ [PagesNext]_pageVars => Inv'
  BY PagesTypeStep, RegistryStep, WholeStep
<1>3. ASSUME PagesTypeOK, WholeInv, NEW p \in Pages, Listed(p), ~UnderWay(p), "half" \notin cut[p]
      PROVE  /\ registry[p].navigation = (registry[p].enabled /\ registry[p].shown)
             /\ registry[p].enabled = (p \notin tombstone)
             /\ cut[p] = {} => (ledger[p].life = "tombstoned" <=> p \in tombstone)
  <2>1. ~BusyAt(p, Moving) /\ ~BusyAt(p, Telling)
    BY <1>3 DEF UnderWay, BusyAt, Page, Moving, Telling
  <2>2. EntryAgrees(p) /\ (cut[p] = {} => LedgerAgrees(p))
    BY <1>3, <2>1 DEF WholeInv, PageWhole
  <2>3. {registry[p].enabled, registry[p].navigation} \subseteq BOOLEAN
    BY <1>3 DEF PagesTypeOK, Registries
  <2> QED
    BY <2>2, <2>3 DEF EntryAgrees, LedgerAgrees
<1>4. Inv => PageIsWhole
  BY <1>3 DEF PageIsWhole
<1> QED
  BY <1>1, <1>2, <1>4, PTL DEF PagesSpec
-----------------------------------------------------------------------------
(* Texts are numbered as they are written, so a new one is nobody's hash   *)
(* and no page's baseline.  An edit that compared hashes still finds the   *)
(* text it compared, or one written directly since; a creation knows the   *)
(* text it wrote until its baseline is in the ledger.                      *)
Creates(c) == caller[c].at = "baseline" \/ (caller[c].at = "talk" /\ caller[c].fresh)
Created(p) == \E c \in Callers : caller[c].page = p /\ Creates(c)
Lawful(p) == source[p].author = "template" \/ source[p].text \in direct
EditCaller(c) ==
    LET p == caller[c].page
    IN  /\ caller[c].at \in {"prepare", "write"} =>
             /\ caller[c].seen # 0 => caller[c].base = caller[c].seen
             /\ source[p].text \in {caller[c].base} \cup direct
        /\ caller[c].at = "write" =>
             /\ caller[c].next.text \in 2..texts /\ caller[c].next.author \in {"agent", "operator"}
             /\ caller[c].next.text # ledger[p].baseline
             /\ \/ caller[c].next.author = "operator" \/ source[p].span \in {0, caller[c].next.span}
                \/ source[p].text \in direct /\ caller[c].next.text < source[p].text
        /\ caller[c].at = "talk" /\ caller[c].fresh => Lawful(p) /\ source[p].text \in 2..texts
        /\ caller[c].at = "baseline" =>
             /\ caller[c].fresh /\ caller[c].base \in 2..texts
             /\ source[p].text = caller[c].base => Lawful(p)
             /\ source[p].author = "template" => caller[c].base = source[p].text
EditPage(p) ==
    /\ source[p].text \in 0..texts /\ (source[p].text = 0 => source[p] = Missing)
    /\ ledger[p].baseline \in 0..texts /\ ledger[p].baseline # 1
    /\ source[p] # Missing /\ ledger[p].baseline = source[p].text => Lawful(p)
    /\ source[p].author = "template" /\ p \notin unborn /\ ~Created(p) => ledger[p].baseline = source[p].text
EditInv == /\ texts \in Nat /\ texts >= 2 /\ direct \subseteq 2..texts
           /\ \A p \in Pages : EditPage(p)
           /\ \A c \in Callers : EditCaller(c)

LEMMA EditInit == PagesInit => EditInv
<1> SUFFICES ASSUME PagesInit PROVE EditInv
  OBVIOUS
<1>1. texts = 2 /\ direct = {} /\ \A c \in Callers : caller[c].at = "idle"
  BY TextTypes DEF PagesInit, FirstText
<1>2. ASSUME NEW p \in Pages PROVE EditPage(p)
  <2>1. source[p] \in {Missing, Source(2, 0, "operator")} /\ ledger[p].baseline = 0
    BY DEF PagesInit, FirstText
  <2>2. /\ source[p].text \in {0, 2} /\ (source[p].text = 0 <=> source[p] = Missing)
        /\ source[p].author # "template"
    BY <2>1 DEF Missing, Source
  <2> QED
    BY <1>1, <2>1, <2>2 DEF EditPage
<1>3. \A c \in Callers : EditCaller(c)
  BY <1>1 DEF EditCaller
<1> QED
  BY <1>1, <1>2, <1>3 DEF EditInv

LEMMA CreatedAlone ==
    ASSUME PagesTypeOK, NEW c \in Callers, StepOf(c), caller[c].at \notin Resting, NEW p \in Pages
    PROVE  /\ Created(p) <=> caller[c].page = p /\ Creates(c)
           /\ Created(p)' <=> caller'[c].page = p /\ Creates(c)'
<1>1. ASSUME NEW d \in Callers \ {c} PROVE ~Creates(d) /\ ~Creates(d)'
  <2>1. caller[d].at \in Resting /\ caller'[d] = caller[d]
    BY Alone, Others
  <2> QED
    BY <2>1 DEF Creates, Resting
<1> QED
  BY <1>1 DEF Created

LEMMA RestingEdit ==
    ASSUME NEW c \in Callers, caller'[c].at \in Resting PROVE EditCaller(c)'
BY DEF EditCaller, Resting

LEMMA EditCallers ==
    ASSUME PagesTypeOK, EditInv, NEW c \in Callers, StepOf(c), EditCaller(c)',
           caller[c].at \notin Resting \/ UNCHANGED <<source, ledger, texts, direct>>
    PROVE  \A d \in Callers : EditCaller(d)'
<1>1. ASSUME NEW d \in Callers \ {c} PROVE EditCaller(d)'
  <2>1. caller'[d] = caller[d] /\ EditCaller(d)
    BY Others DEF EditInv
  <2>2. CASE caller[c].at \notin Resting
    BY <2>1, <2>2, Alone, RestingEdit
  <2>3. CASE UNCHANGED <<source, ledger, texts, direct>>
    BY <2>1, <2>3 DEF EditCaller, Lawful
  <2> QED
    BY <2>2, <2>3
<1> QED
  BY <1>1

(* The steps that leave sources and baselines alone, but may take a number *)
(* for a text, and are not of a creation that has a new source.            *)
LEMMA EditSameStep ==
    ASSUME PagesTypeOK, EditInv, NEW c \in Callers, StepOf(c), UNCHANGED <<source, direct>>,
           caller[c].at \notin Resting \/ UNCHANGED <<ledger, texts>>,
           \A p \in Pages : ledger'[p].baseline = ledger[p].baseline /\ (p \in unborn => p \in unborn'),
           texts' \in Nat, texts' >= texts, ~Creates(c), ~Creates(c)', EditCaller(c)'
    PROVE  EditInv'
<1>1. \A d \in Callers : EditCaller(d)'
  BY EditCallers
<1>2. texts' >= 2 /\ direct' \subseteq 2..texts'
  BY DEF EditInv
<1>3. ASSUME NEW p \in Pages PROVE EditPage(p)'
  <2>1. EditPage(p) /\ texts \in Nat /\ ledger'[p].baseline = ledger[p].baseline
    BY DEF EditInv
  <2>2. Created(p)' <=> Created(p)
    <3>1. \A d \in Callers \ {c} : Creates(d)' <=> Creates(d)
      BY Others DEF Creates
    <3>2. \A d \in Callers \ {c} : caller'[d] = caller[d]
      BY Others
    <3> QED
      BY <3>1, <3>2 DEF Created
  <2>3. Lawful(p)' <=> Lawful(p)
    BY DEF Lawful
  <2>4. source'[p].text \in 0..texts' /\ ledger'[p].baseline \in 0..texts'
    BY <2>1 DEF EditPage
  <2> QED
    BY <2>1, <2>2, <2>3, <2>4 DEF EditPage
<1> QED
  BY <1>1, <1>2, <1>3 DEF EditInv

(* In the others one page is at stake.                                     *)
LEMMA EditOneStep ==
    ASSUME PagesTypeOK, EditInv, NEW c \in Callers, StepOf(c), caller[c].at \notin Resting,
           NEW q \in Pages, caller[c].page = q, caller'[c].page = q \/ ~Creates(c)',
           EditCaller(c)', EditPage(q)', direct' = direct, texts' \in Nat, texts' >= texts,
           \A p \in Pages \ {q} : /\ source'[p] = source[p] /\ ledger'[p].baseline = ledger[p].baseline
                                  /\ p \in unborn' <=> p \in unborn
    PROVE  EditInv'
<1>1. \A d \in Callers : EditCaller(d)'
  BY EditCallers
<1>2. texts' >= 2 /\ direct' \subseteq 2..texts'
  BY DEF EditInv
<1>3. ASSUME NEW p \in Pages \ {q} PROVE EditPage(p)'
  <2>1. /\ EditPage(p) /\ texts \in Nat /\ ledger'[p].baseline = ledger[p].baseline
        /\ source'[p] = source[p] /\ (p \in unborn' <=> p \in unborn)
    BY DEF EditInv
  <2>2. ~Created(p)' /\ ~Created(p)
    BY CreatedAlone
  <2>3. Lawful(p)' <=> Lawful(p)
    BY <2>1 DEF Lawful
  <2>4. source'[p].text \in 0..texts' /\ ledger'[p].baseline \in 0..texts'
    BY <2>1 DEF EditPage
  <2> QED
    BY <2>1, <2>2, <2>3, <2>4 DEF EditPage
<1> QED
  BY <1>1, <1>2, <1>3 DEF EditInv
LEMMA EditStep ==
    PagesTypeOK /\ EditInv /\ [PagesNext]_pageVars => EditInv'
<1> SUFFICES ASSUME PagesTypeOK, EditInv, [PagesNext]_pageVars PROVE EditInv'
  OBVIOUS
<1> USE DEF At, Page
<1>1. ASSUME NEW c \in Callers
      PROVE  /\ EditCaller(c) /\ caller[c] \in CallerStates /\ caller[c].page \in Pages
             /\ EditPage(caller[c].page) /\ source[caller[c].page] \in Sources
  BY DEF EditInv, PagesTypeOK, CallerStates
<1>2. texts \in Nat /\ texts >= 2 /\ direct \subseteq 2..texts /\ source \in [Pages -> Sources]
  BY DEF EditInv, PagesTypeOK
<1>3. ASSUME NEW c \in Callers, Ends(c)
      PROVE  StepOf(c) /\ EditCaller(c)' /\ ~Creates(c)' /\ caller'[c].at = "idle"
  BY <1>3, EditEffects, TextTypes, RestingEdit DEF Ends, StepOf, Resting, Creates
<1>4. ASSUME NEW c \in Callers, NEW p \in Pages,
             OpenPage(c, p) \/ BeginCreate(c, p) \/ BeginDelete(c, p) \/ BeginRestore(c, p)
      PROVE  EditInv'
  <2>1. /\ caller[c].at = "idle" /\ UNCHANGED files /\ UNCHANGED texts /\ UNCHANGED <<direct, unborn>>
    BY <1>4 DEF OpenPage, BeginCreate, BeginDelete, BeginRestore, histories
  <2>2. caller'[c].at \in {"opened", "source", "register", "bury", "dig"}
    BY <1>4, EditEffects, CreateEffects, DeleteEffects
  <2>3. EditCaller(c)' /\ ~Creates(c) /\ ~Creates(c)'
    BY <2>1, <2>2 DEF EditCaller, Creates
  <2> QED
    BY <1>2, <1>4, <2>1, <2>3, EditSameStep DEF StepOf, files
<1>5. ASSUME NEW c \in Callers, BeginEdit(c) PROVE EditInv'
  <2>1. /\ caller[c].at = "opened" /\ UNCHANGED files /\ UNCHANGED texts /\ UNCHANGED <<direct, unborn>>
        /\ caller[c].seen \in {0, source[caller[c].page].text}
    BY <1>5 DEF BeginEdit, Expected, NotSeen, histories
  <2>2. /\ caller'[c].at = "prepare" /\ caller'[c].page = caller[c].page /\ caller'[c].seen = caller[c].seen
        /\ caller'[c].base = source[caller[c].page].text
    BY <1>5, EditEffects DEF Same
  <2>3. EditCaller(c)' /\ ~Creates(c) /\ ~Creates(c)'
    BY <2>1, <2>2 DEF EditCaller, Creates, files
  <2> QED
    BY <1>2, <1>5, <2>1, <2>3, EditSameStep DEF StepOf, files
<1>6. ASSUME NEW c \in Callers, PrepareEdit(c) PROVE EditInv'
  <2>0. PICK q \in Pages : q = caller[c].page
    BY <1>1
  <2>1. /\ caller[c].at = "prepare" /\ UNCHANGED files /\ texts' = texts + 1 /\ UNCHANGED <<direct, unborn>>
    BY <1>6 DEF PrepareEdit, Fresh, histories
  <2>2. /\ caller'[c].at = "write" /\ caller'[c].page = q /\ caller'[c].seen = caller[c].seen
        /\ caller'[c].base = caller[c].base
    BY <1>6, <2>0, EditEffects DEF Same
  <2>3. PICK author \in {"agent", "operator"}, span \in {0, source[q].span, Fresh} :
          MayRewrite(author, source[q], span) /\ caller'[c].next = Source(Fresh, span, author)
    BY <1>6, <2>0, EditEffects
  <2>4. /\ caller'[c].next.text = texts + 1 /\ caller'[c].next.author = author
        /\ author = "operator" \/ source[q].span \in {0, caller'[c].next.span}
    BY <2>3 DEF Source, Fresh, MayRewrite
  <2>5. ledger[q].baseline \in 0..texts
    BY <1>1, <2>0 DEF EditPage
  <2>6. /\ caller[c].seen # 0 => caller[c].base = caller[c].seen
        /\ source[q].text \in {caller[c].base} \cup direct
    BY <1>1, <2>0, <2>1 DEF EditCaller
  <2>7. texts + 1 \in 2..texts' /\ texts + 1 # ledger[q].baseline
    BY <1>2, <2>1, <2>5
  <2>8. EditCaller(c)'
    BY <2>1, <2>2, <2>4, <2>6, <2>7 DEF EditCaller, files
  <2>9. ~Creates(c) /\ ~Creates(c)' /\ caller[c].at \notin Resting
    BY <2>1, <2>2 DEF Creates, Resting
  <2> QED
    BY <1>2, <1>6, <2>1, <2>8, <2>9, EditSameStep DEF StepOf, files
<1>7. ASSUME NEW c \in Callers, Refuse(c) PROVE EditInv'
  <2>1. /\ caller[c].at \in {"opened", "prepare"} /\ UNCHANGED files /\ UNCHANGED texts
        /\ UNCHANGED <<direct, unborn>> /\ ~Creates(c)
    BY <1>7 DEF Refuse, histories, Creates
  <2> QED
    BY <1>2, <1>3, <1>7, <2>1, EditSameStep DEF Ends, files
<1>8. ASSUME NEW c \in Callers, WriteEdit(c) PROVE EditInv'
  <2>0. PICK q \in Pages : q = caller[c].page
    BY <1>1
  <2>1. /\ caller[c].at = "write" /\ source' = [source EXCEPT ![q] = caller[c].next]
        /\ ledger' = ledger /\ UNCHANGED <<texts, direct, unborn>>
    BY <1>8, <2>0 DEF WriteEdit, histories
  <2>2. source'[q] = caller[c].next /\ \A p \in Pages \ {q} : source'[p] = source[p]
    BY <1>2, <2>1
  <2>3. /\ caller[c].next.text \in 2..texts /\ caller[c].next.author \in {"agent", "operator"}
        /\ caller[c].next.text # ledger[q].baseline
    BY <1>1, <2>0, <2>1 DEF EditCaller
  <2>4. EditPage(q)'
    BY <1>1, <1>2, <2>0, <2>1, <2>2, <2>3 DEF EditPage
  <2> QED
    BY <1>2, <1>3, <1>8, <2>0, <2>1, <2>2, <2>4, EditOneStep DEF Ends, Resting
<1>9. ASSUME NEW c \in Callers, AppendRegistryEntry(c) PROVE EditInv'
  <2>1. /\ caller[c].at = "register" /\ UNCHANGED <<source, ledger, texts, direct, unborn>>
        /\ caller'[c].at = "source"
    BY <1>9, CreateEffects DEF AppendRegistryEntry, histories
  <2>2. EditCaller(c)' /\ ~Creates(c) /\ ~Creates(c)'
    BY <2>1 DEF EditCaller, Creates
  <2> QED
    BY <1>2, <1>9, <2>1, <2>2, EditSameStep DEF StepOf
<1>10. ASSUME NEW c \in Callers, WriteSourceIfMissing(c) PROVE EditInv'
  <2>0. PICK q \in Pages : q = caller[c].page
    BY <1>1
  <2>1. /\ caller[c].at = "source" /\ UNCHANGED <<ledger, direct, unborn>>
        /\ caller'[c].at = "talk" /\ caller'[c].page = q /\ caller'[c].fresh = (source[q] = Missing)
    BY <1>10, <2>0, CreateEffects DEF WriteSourceIfMissing, Same, histories
  <2>2. caller[c].at \notin Resting /\ StepOf(c)
    BY <1>10, <2>1 DEF Resting, StepOf
  <2>3. CASE source[q] # Missing
    <3>1. UNCHANGED <<source, texts>>
      BY <1>10, <2>0, <2>3 DEF WriteSourceIfMissing
    <3>2. EditCaller(c)' /\ ~Creates(c) /\ ~Creates(c)'
      BY <2>1, <2>3 DEF EditCaller, Creates
    <3> QED
      BY <1>2, <2>1, <2>2, <3>1, <3>2, EditSameStep
  <2>4. CASE source[q] = Missing
    <3>1. /\ source' = [source EXCEPT ![q] = Source(Fresh, 0, "template")] /\ texts' = texts + 1
      BY <1>10, <2>0, <2>4 DEF WriteSourceIfMissing, Fresh
    <3>2. /\ source'[q] = Source(texts + 1, 0, "template")
          /\ \A p \in Pages \ {q} : source'[p] = source[p]
      BY <1>2, <3>1 DEF Fresh
    <3>3. source'[q].text = texts + 1 /\ source'[q].author = "template"
      BY <3>2 DEF Source
    <3>4. Lawful(q)' /\ source'[q].text \in 2..texts'
      BY <1>2, <3>1, <3>3 DEF Lawful
    <3>5. EditCaller(c)'
      BY <2>1, <3>4 DEF EditCaller, Lawful
    <3>6. Created(q)'
      BY <2>1, <2>4 DEF Created, Creates
    <3>7. EditPage(q)'
      BY <1>1, <1>2, <2>0, <2>1, <3>1, <3>4, <3>6 DEF EditPage
    <3> QED
      BY <1>2, <2>0, <2>1, <2>2, <3>1, <3>2, <3>5, <3>7, EditOneStep
  <2> QED
    BY <2>3, <2>4
<1>11. ASSUME NEW c \in Callers, WriteTalk(c) PROVE EditInv'
  <2>0. PICK q \in Pages : q = caller[c].page
    BY <1>1
  <2>1. /\ caller[c].at = "talk" /\ UNCHANGED <<source, ledger, texts, direct, unborn>>
    BY <1>11 DEF WriteTalk, histories
  <2>2. caller[c].at \notin Resting /\ StepOf(c)
    BY <1>11, <2>1 DEF Resting, StepOf
  <2>3. CASE caller[c].fresh
    <3>1. /\ caller'[c].at = "baseline" /\ caller'[c].page = q /\ caller'[c].fresh
          /\ caller'[c].base = source[q].text
      BY <1>11, <2>0, <2>3, CreateEffects DEF Same
    <3>2. Lawful(q) /\ source[q].text \in 2..texts
      BY <1>1, <2>0, <2>1, <2>3 DEF EditCaller
    <3>3. EditCaller(c)'
      BY <2>1, <3>1, <3>2 DEF EditCaller, Lawful
    <3>4. Created(q) /\ Created(q)'
      BY <2>0, <2>1, <2>3, <3>1 DEF Created, Creates
    <3>5. EditPage(q)'
      BY <1>1, <2>0, <2>1, <3>4 DEF EditPage, Lawful
    <3> QED
      BY <1>2, <2>0, <2>1, <2>2, <3>1, <3>3, <3>5, EditOneStep
  <2>4. CASE ~caller[c].fresh
    <3>1. ~Creates(c)
      BY <2>1, <2>4 DEF Creates
    <3>2. Ends(c)
      BY <1>11, <2>4 DEF Ends
    <3> QED
      BY <1>2, <1>3, <2>1, <3>1, <3>2, EditSameStep
  <2> QED
    BY <2>3, <2>4
<1>12. ASSUME NEW c \in Callers, AppendBaseline(c) PROVE EditInv'
  <2>0. PICK q \in Pages : q = caller[c].page
    BY <1>1
  <2>1. /\ caller[c].at = "baseline" /\ UNCHANGED <<source, texts, direct, unborn>>
        /\ ledger' = [ledger EXCEPT ![q] = [@ EXCEPT !.baseline = caller[c].base]]
    BY <1>12, <2>0 DEF AppendBaseline, histories
  <2>2. ledger'[q].baseline = caller[c].base /\ \A p \in Pages \ {q} : ledger'[p] = ledger[p]
    BY <2>1 DEF PagesTypeOK
  <2>3. /\ caller[c].base \in 2..texts /\ (source[q].text = caller[c].base => Lawful(q))
        /\ source[q].author = "template" => caller[c].base = source[q].text
    BY <1>1, <2>0, <2>1 DEF EditCaller
  <2>4. EditPage(q)'
    <3>1. EditPage(q) /\ (Lawful(q)' <=> Lawful(q))
      BY <1>1, <2>0, <2>1 DEF Lawful
    <3> QED
      BY <1>2, <2>1, <2>2, <2>3, <3>1 DEF EditPage
  <2> QED
    BY <1>2, <1>3, <1>12, <2>0, <2>1, <2>2, <2>4, EditOneStep DEF Ends, Resting
<1>13. ASSUME NEW c \in Callers,
              WriteTombstone(c) \/ RemoveTombstone(c) \/ RetirePage(c) \/ RelistPage(c) \/ Tell(c)
       PROVE  EditInv'
  <2>1. /\ caller[c].at \in {"bury", "dig", "retire", "relist", "tombstoned", "restored"}
        /\ UNCHANGED <<source, texts, direct, unborn>>
    BY <1>13 DEF WriteTombstone, RemoveTombstone, RetirePage, RelistPage, SetEntry, Tell, histories
  <2>2. caller'[c].at \in {"retire", "relist", "tombstoned", "restored", "idle"}
    BY <1>3, <1>13, DeleteEffects DEF Ends
  <2>3. \A p \in Pages : ledger'[p].baseline = ledger[p].baseline
    BY <1>13 DEF WriteTombstone, RemoveTombstone, RetirePage, RelistPage, SetEntry, Tell, PagesTypeOK
  <2>4. EditCaller(c)' /\ ~Creates(c) /\ ~Creates(c)' /\ caller[c].at \notin Resting /\ StepOf(c)
    BY <1>13, <2>1, <2>2 DEF EditCaller, Creates, Resting, StepOf
  <2> QED
    BY <1>2, <2>1, <2>3, <2>4, EditSameStep
<1>14. ASSUME NEW c \in Callers, Die(c) PROVE EditInv'
  <2>0. PICK q \in Pages : q = caller[c].page
    BY <1>1
  <2>1. /\ UNCHANGED <<ledger, texts, direct>> /\ StepOf(c) /\ EditCaller(c)' /\ ~Creates(c)'
        /\ unborn' = IF caller[c].at \in {"talk", "baseline"} /\ caller[c].fresh
                     THEN unborn \cup {q} ELSE unborn
    BY <1>3, <1>14, <2>0 DEF Die, Ends
  <2>2. /\ \A p \in Pages \ {q} : source'[p] = source[p]
        /\ \/ source' = source
           \/ source'[q] = Torn /\ caller[c].at \in {"write", "source"}
    BY <1>2, <1>14, <2>0 DEF Die
  <2>3. CASE source' = source /\ ~Creates(c)
    BY <1>2, <2>1, <2>3, EditSameStep
  <2>4. CASE source'[q] = Torn /\ caller[c].at \in {"write", "source"}
    <3>1. source'[q].text = 1 /\ source'[q].author # "template"
      BY <2>4 DEF Torn, Source
    <3>2. EditPage(q)'
      BY <1>1, <1>2, <2>0, <2>1, <3>1 DEF EditPage
    <3> QED
      BY <1>2, <2>0, <2>1, <2>2, <2>4, <3>2, EditOneStep DEF Resting
  <2>5. CASE source' = source /\ Creates(c)
    <3>1. caller[c].at \notin Resting /\ caller[c].at \in {"talk", "baseline"} /\ caller[c].fresh
      BY <1>1, <2>5 DEF Creates, EditCaller, Resting
    <3>2. unborn' = unborn \cup {q}
      BY <2>1, <3>1
    <3>3. EditPage(q)'
      BY <1>1, <2>0, <2>1, <2>5, <3>2 DEF EditPage, Lawful
    <3> QED
      BY <1>2, <2>0, <2>1, <2>5, <3>1, <3>2, <3>3, EditOneStep
  <2> QED
    BY <2>2, <2>3, <2>4, <2>5
<1>15. ASSUME NEW q \in Pages, EditDirectly(q) PROVE EditInv'
  <2>1. /\ UNCHANGED <<ledger, caller, unborn>> /\ texts' = texts + 1 /\ direct' = direct \cup {texts + 1}
    BY <1>15 DEF EditDirectly, Fresh
  <2>2. /\ source'[q].text = texts + 1 /\ source'[q].author = "operator"
        /\ \A p \in Pages \ {q} : source'[p] = source[p]
    BY <1>2, <1>15 DEF EditDirectly, Source, Fresh
  <2>3. texts' \in Nat /\ texts' >= 2 /\ direct' \subseteq 2..texts'
    BY <1>2, <2>1
  <2>4. Lawful(q)' /\ \A p \in Pages \ {q} : Lawful(p) => Lawful(p)'
    BY <2>1, <2>2 DEF Lawful
  <2>5. ASSUME NEW p \in Pages PROVE EditPage(p)'
    <3>1. EditPage(p) /\ ledger'[p].baseline \in 0..texts'
      BY <1>2, <2>1 DEF EditInv, EditPage
    <3>2. Created(p)' <=> Created(p)
      BY <2>1 DEF Created, Creates
    <3>3. CASE p = q
      BY <1>2, <2>1, <2>2, <2>4, <3>1, <3>3 DEF EditPage
    <3>4. CASE p # q
      <4>1. source'[p] = source[p] /\ (Lawful(p) => Lawful(p)') /\ source[p].text \in 0..texts'
        BY <1>2, <2>1, <2>2, <2>4, <3>1, <3>4 DEF EditPage
      <4> QED
        BY <2>1, <3>1, <3>2, <4>1 DEF EditPage
    <3> QED
      BY <3>3, <3>4
  <2>6. ASSUME NEW c \in Callers PROVE EditCaller(c)'
    <3>0. PICK p \in Pages : p = caller[c].page
      BY <1>1
    <3>1. EditCaller(c) /\ caller'[c] = caller[c] /\ \A n \in 2..texts : n \in 2..texts' /\ n < texts + 1
      BY <1>1, <1>2, <2>1
    <3>2. CASE p = q
      <4>1. source'[p].text \in direct' /\ source'[p].text = texts + 1 /\ source'[p].author # "template"
        BY <2>1, <2>2, <3>2
      <4>2. Lawful(p)' /\ source'[p].text \in 2..texts'
        BY <2>3, <2>4, <3>2, <4>1
      <4> QED
        BY <2>1, <3>0, <3>1, <4>1, <4>2 DEF EditCaller, Lawful
    <3>3. CASE p # q
      <4>1. source'[p] = source[p] /\ (Lawful(p) => Lawful(p)') /\ direct \subseteq direct'
        BY <2>1, <2>2, <2>4, <3>3
      <4> QED
        BY <2>1, <3>0, <3>1, <4>1 DEF EditCaller, Lawful
    <3> QED
      BY <3>2, <3>3
  <2> QED
    BY <2>3, <2>5, <2>6 DEF EditInv
<1>16. CASE UNCHANGED pageVars
  BY <1>16 DEF pageVars, files, histories, EditInv, EditPage, EditCaller, Lawful, Created, Creates
<1> QED
  BY <1>4, <1>5, <1>6, <1>7, <1>8, <1>9, <1>10, <1>11, <1>12, <1>13, <1>14, <1>15, <1>16 DEF PagesNext
LEMMA EditInvariant == PagesSpec => [](PagesTypeOK /\ EditInv)
<1>1. PagesInit => PagesTypeOK /\ EditInv
  BY PagesTypeInit, EditInit
<1>2. PagesTypeOK /\ EditInv /\ [PagesNext]_pageVars => (PagesTypeOK /\ EditInv)'
  BY PagesTypeStep, EditStep
<1> QED
  BY <1>1, <1>2, PTL DEF PagesSpec

(* A hash-checked edit replaces the text whose hash it was given, or one   *)
(* written without the core: never another caller's edit.                  *)
THEOREM StaleHashesFail == PagesSpec => NoEditIsOverwritten
<1> DEFINE Checked == \A c \in Callers :
             At(c, "write") /\ caller[c].seen # NotSeen /\ source' # source /\ At(c, "idle")'
               => /\ caller[c].base = caller[c].seen
                  /\ source[Page(c)].text \in {caller[c].base} \cup direct
<1>1. EditInv => Checked
  BY DEF EditInv, EditCaller, At, Page, NotSeen
<1>2. EditInv => [Checked]_pageVars
  BY <1>1
<1> QED
  BY <1>2, EditInvariant, PTL DEF NoEditIsOverwritten

(* A span an operator protects goes with an operator's edit or a torn      *)
(* write, or because it was put there after an agent's edit had read the   *)
(* file: the lock of the core does not hold up an editor.                  *)
THEOREM ProtectedSpansStand == PagesSpec => OperatorSpansStand
<1> DEFINE Stands == \A p \in Pages :
             source[p].span # 0 /\ source'[p].span # source[p].span =>
               \/ source'[p].author = "operator" \/ source'[p] = Torn
               \/ source[p].text \in direct /\ \E c \in Callers :
                    At(c, "write") /\ Page(c) = p /\ caller[c].next.text < source[p].text
<1>1. ASSUME PagesTypeOK, EditInv, [PagesNext]_pageVars PROVE Stands
  <2> SUFFICES ASSUME NEW p \in Pages, source[p].span # 0, source'[p].span # source[p].span
               PROVE  \/ source'[p].author = "operator" \/ source'[p] = Torn
                      \/ source[p].text \in direct /\ \E c \in Callers :
                           At(c, "write") /\ Page(c) = p /\ caller[c].next.text < source[p].text
    OBVIOUS
  <2>1. CASE EditDirectly(p)
    BY <1>1, <2>1 DEF EditDirectly, PagesTypeOK, Source
  <2>2. ASSUME NEW c \in Callers, WriteEdit(c)
        PROVE  \/ source'[p].author = "operator"
               \/ source[p].text \in direct /\ At(c, "write") /\ Page(c) = p /\ caller[c].next.text < source[p].text
    <3>1. /\ caller[c].at = "write" /\ caller[c].page = p /\ source'[p] = caller[c].next
      BY <1>1, <2>2 DEF WriteEdit, At, PagesTypeOK, CallerStates
    <3>2. \/ caller[c].next.author = "operator" \/ source[p].span \in {0, caller[c].next.span}
          \/ source[p].text \in direct /\ caller[c].next.text < source[p].text
      BY <1>1, <3>1 DEF EditInv, EditCaller
    <3> QED
      BY <3>1, <3>2 DEF At, Page
  <2>3. ASSUME NEW c \in Callers, WriteSourceIfMissing(c) PROVE FALSE
    <3>1. Missing.span = 0
      BY DEF Missing, Source
    <3>2. caller[c].page \in Pages /\ source \in [Pages -> Sources]
      BY <1>1 DEF PagesTypeOK, CallerStates
    <3>3. source[p] = Missing
      BY <2>3, <3>2 DEF WriteSourceIfMissing, Page
    <3> QED
      BY <3>1, <3>3
  <2>4. ASSUME NEW c \in Callers, Die(c) PROVE source'[p] = Torn
    BY <1>1, <2>4 DEF Die, PagesTypeOK, CallerStates, Page
  <2>5. \/ EditDirectly(p) \/ \E c \in Callers : WriteEdit(c) \/ WriteSourceIfMissing(c) \/ Die(c)
    BY <1>1, SourceSteps
  <2> QED
    BY <2>1, <2>2, <2>3, <2>4, <2>5
<1>2. PagesTypeOK /\ EditInv /\ [PagesNext]_pageVars => [Stands]_pageVars
  BY <1>1
<1> QED
  BY <1>2, EditInvariant, PTL DEF PagesSpec, OperatorSpansStand

(* page_status calls a page unedited only if its text is the template's,   *)
(* or was written directly while the page was created; and it does call a  *)
(* template's text unedited when the creation was not cut.                 *)
THEOREM EditsStayNoticed == PagesSpec => []EditsAreNoticed
<1>1. ASSUME PagesTypeOK, EditInv, NEW p \in Pages
      PROVE  /\ Unedited(p) => source[p].author = "template" \/ source[p].text \in direct
             /\ source[p].author = "template" /\ p \notin unborn
                /\ (\A c \in Callers : ~(Page(c) = p /\ caller[c].at \in {"talk", "baseline"}))
                  => Unedited(p)
  <2>1. EditPage(p)
    BY <1>1 DEF EditInv
  <2>2. Missing.author # "template"
    BY DEF Missing, Source
  <2>3. ASSUME \A c \in Callers : ~(Page(c) = p /\ caller[c].at \in {"talk", "baseline"})
        PROVE  ~Created(p)
    BY <2>3 DEF Created, Creates, Page
  <2> QED
    BY <2>1, <2>2, <2>3 DEF EditPage, Unedited, Lawful
<1>2. PagesTypeOK /\ EditInv => EditsAreNoticed
  BY <1>1 DEF EditsAreNoticed
<1> QED
  BY <1>2, EditInvariant, PTL
================================================================================
