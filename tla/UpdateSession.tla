------------------------------ MODULE UpdateSession ------------------------------
(***************************************************************************)
(* How the menu bar app drives Sparkle (SparkleUpdateController.swift).    *)
(* A session is the app's view of one check: a reducer turns Sparkle's     *)
(* callbacks into a new session and effects.  Everything runs on the main  *)
(* actor, alerts are modal, so each callback is one action, with the       *)
(* user's answer.                                                          *)
(*                                                                         *)
(* Sparkle's update cycle is another matter: it is started by the app in   *)
(* the foreground or background, or by Sparkle's own schedule, which       *)
(* starts no session, and a session may be replaced while a cycle runs.    *)
(* Sparkle runs one cycle at a time and ignores a check meanwhile.         *)
(***************************************************************************)
EXTENDS Naturals, FiniteSets

CONSTANTS
    None,
    MaxClicks,     \* bound: what the user clicks, "Try Again" included
    MaxScheduled   \* bound: cycles started by Sparkle's schedule

Modes == {"automatic", "user"}

(* AppManagedSparkleFailureRetryRequest: a check to repeat after a delay.  *)
Retries == [source : Nat, mode : Modes, kind : {"silent", "user"}, budget : Nat]

ASSUME UpdateAssumption ==
    /\ {MaxClicks, MaxScheduled} \subseteq Nat
    /\ None \notin Retries

VARIABLES
    session,      \* reducerState.session
    timers,       \* retries whose delay runs: tasks that nothing cancels
    observation,  \* what the menu knows: None, or the kind of update found
    cycle,        \* Sparkle's update cycle
    clicks, scheduled,
    owed,         \* observer: the user asked for a check and saw no outcome
    skipped       \* observer: a foreground retry found Sparkle busy

vars == <<session, timers, observation, cycle, clicks, scheduled, owed, skipped>>

(* What Sparkle may find: a mandatory update is critical; an update that   *)
(* is information only, mandatory or not, cannot be installed.             *)
Items == {"optional", "critical", "information", "criticalInformation"}
Critical(item) == item \in {"critical", "criticalInformation"}
InformationOnly(item) == item \in {"information", "criticalInformation"}

(* silentFailureRetryDelays: how often a failed check is repeated.         *)
SilentRetryBudget(mode) == IF mode = "automatic" THEN 3 ELSE 1

NewSession(id, mode, budget) ==
    [id |-> id, mode |-> mode, phase |-> "checking", budget |-> budget,
     critical |-> FALSE,   \* criticalUpdateWasFound
     offered |-> FALSE,    \* installWasOffered
     began |-> FALSE,      \* downloadBegan or installBegan
     handled |-> FALSE,    \* didHandleFailure
     presented |-> FALSE,  \* didPresentFailure
     retry |-> None]

RepresentsUpdateAttempt(s) == s.critical \/ s.offered \/ s.began

NoCycle == [at |-> "none", by |-> "nobody", item |-> None, error |-> "none",
            told |-> FALSE, replaced |-> FALSE]
Cycle(by) == [NoCycle EXCEPT !.at = "checking", !.by = by]
CanCheckForUpdates == cycle = NoCycle
At(place) == cycle.at = place
GoTo(place) == cycle' = [cycle EXCEPT !.at = place]

(* The app has been launched and checks in the background.                 *)
UpdateInit ==
    /\ session = NewSession(1, "automatic", SilentRetryBudget("automatic"))
    /\ timers = {}
    /\ observation = None
    /\ cycle = Cycle("app")
    /\ clicks = 0 /\ scheduled = 0
    /\ owed = FALSE /\ skipped = FALSE
-----------------------------------------------------------------------------
Click == clicks < MaxClicks /\ clicks' = clicks + 1

(* startSession and the check: a cycle that runs goes on under it.         *)
MutStart(mode, budget) ==
    /\ session' = NewSession(session.id + 1, mode, budget)
    /\ observation' = None
    /\ cycle' = IF CanCheckForUpdates THEN Cycle("app") ELSE [cycle EXCEPT !.replaced = TRUE]
Start(mode, budget) ==
    /\ session' = NewSession(session.id + 1, mode, budget)
    /\ observation' = None
    /\ cycle' = IF CanCheckForUpdates
                THEN Cycle(IF mode = "user" THEN "user" ELSE "app")
                ELSE [cycle EXCEPT !.replaced = TRUE]

CheckForUpdates ==
    /\ CanCheckForUpdates
    /\ Click
    /\ Start("user", SilentRetryBudget("user"))
    /\ owed' = TRUE
    /\ UNCHANGED <<timers, scheduled, skipped>>

(* runAppUpdateFlow: the menu's update action for a mandatory update; it   *)
(* does not ask whether Sparkle is busy.                                   *)
ChooseMandatoryUpdate ==
    /\ Critical(observation)
    /\ Click
    /\ Start("automatic", SilentRetryBudget("automatic"))
    /\ owed' = FALSE
    /\ UNCHANGED <<timers, scheduled, skipped>>

RetryTimerFires(r) ==
    /\ r \in timers
    /\ timers' = timers \ {r}
    /\ IF session.id = r.source
       THEN /\ Start(r.mode, IF r.kind = "silent" THEN r.budget
                             ELSE SilentRetryBudget(r.mode))
            /\ skipped' = (skipped \/ (r.mode = "user" /\ ~CanCheckForUpdates))
       ELSE UNCHANGED <<session, observation, cycle, skipped>>
    /\ UNCHANGED <<clicks, scheduled, owed>>

(* Sparkle's scheduler; the session is the one of the last check.          *)
ScheduledCheck ==
    /\ CanCheckForUpdates
    /\ scheduled < MaxScheduled
    /\ scheduled' = scheduled + 1
    /\ cycle' = Cycle("schedule")
    /\ UNCHANGED <<session, timers, observation, clicks, owed, skipped>>
-----------------------------------------------------------------------------
others == <<timers, clicks, scheduled, skipped>>

(* didFindValidUpdate.                                                     *)
FindUpdate(item) ==
    /\ At("checking")
    /\ cycle' = [cycle EXCEPT !.at = "found", !.item = item]
    /\ session' = [session EXCEPT !.critical = @ \/ Critical(item),
                                  !.phase = "updateFound"]
    /\ observation' = item
    /\ UNCHANGED <<others, owed>>

(* showUpdateFound: what the policy decides, or the user in an alert.      *)
MutAccept(s) == [s EXCEPT !.phase = "readyToInstall"]
Accept(s) == [s EXCEPT !.offered = TRUE, !.phase = "readyToInstall"]

InstallFound ==
    /\ \/ cycle.item = "critical"
       \/ cycle.item = "optional" /\ session.mode = "user"
    /\ session' = Accept(session)
    /\ GoTo("accepted")
    /\ owed' = FALSE

(* What is information only goes no further than the menu.                 *)
DismissFound ==
    /\ cycle.item # "critical"
    /\ session' = [session EXCEPT !.phase = "updateFound"]
    /\ GoTo("ending")
    /\ owed' = (owed /\ cycle.item = "optional" /\ session.mode # "user")

ShowUpdateFound ==
    /\ At("found")
    /\ InstallFound \/ DismissFound
    /\ UNCHANGED <<others, observation>>

(* Sparkle downloads in the background without the driver, and then offers *)
(* willInstallUpdateOnQuit, which takes mandatory updates only.            *)
WillInstallOnQuit ==
    /\ At("found")
    /\ cycle.by # "user" /\ ~InformationOnly(cycle.item)
    /\ IF cycle.item = "critical"
       THEN /\ session' = [session EXCEPT !.critical = TRUE, !.began = TRUE,
                                          !.phase = "installing"]
            /\ GoTo("installing")
       ELSE GoTo("ending") /\ UNCHANGED session
    /\ UNCHANGED <<others, observation, owed>>

(* showDownloadInitiated and showDownloadDidStartExtractingUpdate.         *)
DownloadStarts ==
    /\ At("accepted")
    /\ session' = [session EXCEPT !.began = TRUE, !.phase = "downloadStarted"]
    /\ GoTo("downloaded")
    /\ UNCHANGED <<others, observation, owed>>

(* showReady: an update no one accepted in this session is dismissed.      *)
ReadyToInstall ==
    /\ At("downloaded")
    /\ IF session.offered \/ session.critical
       THEN session' = Accept(session) /\ GoTo("installing")
       ELSE UNCHANGED session /\ GoTo("ending")
    /\ UNCHANGED <<others, observation, owed>>

(* showInstallingUpdate, and the app is replaced by the new one.           *)
Install ==
    /\ At("installing")
    /\ session' = [session EXCEPT !.began = TRUE, !.phase = "installing"]
    /\ GoTo("installed")
    /\ timers' = {}
    /\ owed' = FALSE
    /\ UNCHANGED <<observation, clicks, scheduled, skipped>>

(* updaterDidNotFindUpdate; showUpdateNotFound is for the user's checks.   *)
(* The cycle ends with the error "no update".                              *)
NotFound ==
    /\ At("checking")
    /\ observation' = None
    /\ owed' = (owed /\ ~(cycle.by = "user" /\ session.mode = "user"))
    /\ cycle' = [cycle EXCEPT !.at = "ending", !.error = "benign"]
    /\ UNCHANGED <<session, others>>

(* Anything may fail; an installation may also be called off.              *)
Fail ==
    /\ cycle.at \in {"checking", "found", "accepted", "downloaded", "installing"}
    /\ \E error \in {"real", "benign"} :
         /\ error = "benign" => cycle.at \in {"accepted", "downloaded", "installing"}
         /\ cycle' = [cycle EXCEPT !.at = "ending", !.error = error]
    /\ UNCHANGED <<session, observation, owed, others>>
-----------------------------------------------------------------------------
Retry(s, kind, budget) ==
    [source |-> s.id, mode |-> s.mode, kind |-> kind, budget |-> budget]

(* handleFailure: a failure is ignored, repeated in silence or shown to    *)
(* the user, who may try again.                                            *)
MutIgnored(s, error) == error = "benign" \/ (s.mode = "automatic" /\ s.budget = 0)
Ignored(s, error) ==
    \/ error = "benign"
    \/ s.mode = "automatic" /\ ~RepresentsUpdateAttempt(s) /\ s.budget = 0

HandleFailure(s, error) ==
    LET failed == [s EXCEPT !.handled = TRUE, !.phase = "failed"]
        alerted == [failed EXCEPT !.presented = TRUE]
        again == [alerted EXCEPT !.retry = Retry(s, "user", SilentRetryBudget(s.mode))]
    IN  IF error = "none" \/ s.handled \/ s.presented THEN {s}
        ELSE IF Ignored(s, error) THEN {[s EXCEPT !.handled = TRUE]}
        ELSE IF s.budget > 0
             THEN {[failed EXCEPT !.budget = @ - 1, !.retry = Retry(s, "silent", s.budget - 1)]}
             ELSE IF clicks < MaxClicks THEN {alerted, again} ELSE {alerted}

(* What the user sees and does of it.                                      *)
Alert(s) ==
    LET again == s.retry # None /\ s.retry.kind = "user" /\ session.retry = None
    IN  /\ clicks' = IF again THEN clicks + 1 ELSE clicks
        /\ owed' = IF s.presented /\ ~session.presented
                   THEN again /\ s.mode = "user" ELSE owed

(* showUpdaterError, before the delegate hears of the same error.          *)
ShowUpdaterError ==
    /\ At("ending")
    /\ cycle.error = "real" /\ ~cycle.told
    /\ cycle' = [cycle EXCEPT !.told = TRUE]
    /\ \E s \in HandleFailure(session, cycle.error) : session' = s /\ Alert(s)
    /\ UNCHANGED <<timers, observation, scheduled, skipped>>

(* didFinishUpdateCycleFor and finishUpdateSessionAndConsumeRetryRequest;  *)
(* dismissUpdateInstallation before it sets the same phase.                *)
FinishUpdateCycle ==
    /\ At("ending")
    /\ cycle' = NoCycle
    /\ \E s \in HandleFailure(session, cycle.error) :
         /\ Alert(s)
         /\ IF s.retry # None
            THEN /\ timers' = timers \cup {s.retry}
                 /\ session' = [s EXCEPT !.retry = None]
            ELSE /\ session' = [s EXCEPT !.phase = IF @ = "failed" THEN @ ELSE "finished"]
                 /\ UNCHANGED timers
    /\ UNCHANGED <<observation, scheduled, skipped>>
-----------------------------------------------------------------------------
CycleStep ==
    \/ \E item \in Items : FindUpdate(item)
    \/ ShowUpdateFound \/ WillInstallOnQuit \/ NotFound \/ Fail
    \/ DownloadStarts \/ ReadyToInstall \/ Install
    \/ ShowUpdaterError \/ FinishUpdateCycle

TimerStep == \E r \in timers : RetryTimerFires(r)

UpdateNext ==
    \/ CheckForUpdates \/ ChooseMandatoryUpdate \/ ScheduledCheck
    \/ TimerStep \/ CycleStep

(* Sleeping tasks wake up, and Sparkle brings a cycle to its end.          *)
UpdateFairness == WF_vars(TimerStep) /\ WF_vars(CycleStep)

UpdateSpec == UpdateInit /\ [][UpdateNext]_vars /\ UpdateFairness
-----------------------------------------------------------------------------
Phases == {"checking", "updateFound", "readyToInstall", "downloadStarted",
           "installing", "failed", "finished"}
Sessions == [id : Nat, mode : Modes, phase : Phases, budget : Nat,
             critical : BOOLEAN, offered : BOOLEAN, began : BOOLEAN,
             handled : BOOLEAN, presented : BOOLEAN, retry : Retries \cup {None}]
Stages == {"none", "checking", "found", "accepted", "downloaded", "installing",
           "installed", "ending"}
Cycles == [at : Stages, by : {"nobody", "app", "user", "schedule"},
           item : Items \cup {None}, error : {"none", "real", "benign"},
           told : BOOLEAN, replaced : BOOLEAN]
UpdateTypeOK ==
    /\ session \in Sessions
    /\ timers \subseteq Retries
    /\ observation \in Items \cup {None}
    /\ cycle \in Cycles
    /\ clicks \in 0..MaxClicks /\ scheduled \in 0..MaxScheduled
    /\ owed \in BOOLEAN /\ skipped \in BOOLEAN

(* The app started the cycle, and the session is still that one.           *)
OwnCycle == cycle.by \in {"app", "user"} /\ ~cycle.replaced

(* A check that is spent: automatic, without any sign of an update, and    *)
(* repeated as often as it may be before it failed once more.  One that    *)
(* takes its last retry now is "failed", and is not spent yet.             *)
Spent ==
    /\ session.mode = "automatic" /\ ~RepresentsUpdateAttempt(session)
    /\ session.budget = 0 /\ session.phase # "failed"

CycleFails == At("ending") /\ cycle.error = "real" /\ cycle' = NoCycle
FollowedUp ==
    session'.presented \/ \E r \in timers' : r.source = session.id

(* Whatever Sparkle reports of one failure, and in whichever order, a      *)
(* check of the app that fails is repeated or reported to the user, unless *)
(* it is spent: no retry is lost between the callback that asks for it and *)
(* the one that consumes it.                                               *)
FailuresAreFollowedUp ==
    [][CycleFails /\ OwnCycle => FollowedUp \/ Spent]_vars

(* The same of every failed update, whoever started the cycle.             *)
(* (docs/macos-release-runbook.md: "Failed updates should keep the old app *)
(* usable when possible and show only: Update failed. Please contact       *)
(* support".)                                                              *)
FailedUpdatesAreReported ==
    [][CycleFails /\ cycle.item \in {"optional", "critical"} /\ RepresentsUpdateAttempt(session)
         => FollowedUp]_vars

(* A mandatory update, or one the user accepted, is not dismissed when it  *)
(* is ready, whatever failed and was retried before, unless a check was    *)
(* started while the cycle ran.                                            *)
ReadyUpdatesAreInstalled ==
    [][At("downloaded") /\ cycle'.at = "ending" /\ cycle'.error = "none"
         => cycle.replaced]_vars

(* Who asks for a check sees an outcome in the end: the update, that there *)
(* is none, or the failure after its retry; unless the retry finds Sparkle *)
(* busy with a scheduled check and is skipped.                             *)
UserIsAnswered == owed ~> ~owed \/ skipped
=============================================================================
