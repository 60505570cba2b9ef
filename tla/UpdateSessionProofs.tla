-------------------------- MODULE UpdateSessionProofs --------------------------
(***************************************************************************)
(* Proofs about UpdateSession, for any number of clicks and of scheduled   *)
(* checks.  The inductive invariant says what Sparkle's cycle may rely on  *)
(* in a session that was not replaced under it: the offer it accepted, and *)
(* that no failure was handled before the cycle's own, or only with a      *)
(* retry or an alert to show for it, or as one that was spent before.      *)
(***************************************************************************)
EXTENDS UpdateSession, TLAPS

GivenUp(s) ==
    /\ s.mode = "automatic" /\ ~RepresentsUpdateAttempt(s)
    /\ s.budget = 0 /\ s.phase # "failed"
Retried(s) == s.retry # None /\ s.retry.source = s.id

FailedIsHandled == session.phase = "failed" => session.handled

OfferStands ==
    cycle.at \in {"accepted", "downloaded"} /\ ~cycle.replaced
      => session.offered \/ session.critical

UntouchedUntilTheEnd ==
    OwnCycle /\ ~At("ending")
      => ~session.handled /\ ~session.presented /\ session.retry = None

HandledIsFollowedUp ==
    OwnCycle /\ At("ending") /\ cycle.error = "real" /\ session.handled
      => session.presented \/ Retried(session) \/ GivenUp(session)

UpdateInv ==
    /\ UpdateTypeOK /\ FailedIsHandled
    /\ OfferStands /\ UntouchedUntilTheEnd /\ HandledIsFollowedUp

-----------------------------------------------------------------------------
(* What a failure makes of a session: nothing that was decided in it is    *)
(* taken back, and a failure that is not benign leaves a trace.            *)
LEMMA HandledSession ==
  ASSUME UpdateTypeOK, NEW error \in {"none", "real", "benign"},
         NEW s \in HandleFailure(session, error)
  PROVE  /\ s \in Sessions
         /\ s.id = session.id /\ s.mode = session.mode
         /\ s.critical = session.critical /\ s.offered = session.offered
         /\ s.began = session.began
         /\ s.phase = "failed" => s.handled \/ s = session
<1> DEFINE failed == [session EXCEPT !.handled = TRUE, !.phase = "failed"]
           alerted == [failed EXCEPT !.presented = TRUE]
           request(kind, budget) == Retry(session, kind, budget)
<1>1. session \in Sessions
  BY DEF UpdateTypeOK
<1>2. failed \in Sessions /\ alerted \in Sessions
  BY <1>1 DEF Sessions, Phases
<1>3. ASSUME NEW kind \in {"silent", "user"}, NEW budget \in Nat
      PROVE  request(kind, budget) \in Retries
  BY <1>1 DEF Retry, Retries, Sessions
<1>4. SilentRetryBudget(session.mode) \in Nat
  BY DEF SilentRetryBudget
<1>5. [alerted EXCEPT !.retry = request("user", SilentRetryBudget(session.mode))] \in Sessions
  BY <1>2, <1>3, <1>4 DEF Sessions
<1>6. CASE s = session
  BY <1>6, <1>1
<1>7. CASE s = [session EXCEPT !.handled = TRUE]
  BY <1>7, <1>1 DEF Sessions
<1>8. CASE /\ session.budget > 0
           /\ s = [failed EXCEPT !.budget = @ - 1,
                                 !.retry = request("silent", session.budget - 1)]
  <2>1. session.budget - 1 \in Nat
    BY <1>1, <1>8 DEF Sessions
  <2>2. request("silent", session.budget - 1) \in Retries
    BY <2>1, <1>3
  <2> QED BY <2>1, <2>2, <1>8, <1>1, <1>2 DEF Sessions
<1>9. CASE s = alerted \/ s = [alerted EXCEPT
                                 !.retry = request("user", SilentRetryBudget(session.mode))]
  BY <1>9, <1>1, <1>2, <1>5 DEF Sessions
<1> QED BY <1>6, <1>7, <1>8, <1>9 DEF HandleFailure

LEMMA FailureLeavesTrace ==
  ASSUME UpdateTypeOK, FailedIsHandled, ~session.handled, ~session.presented,
         NEW s \in HandleFailure(session, "real")
  PROVE  s.presented \/ Retried(s) \/ (GivenUp(s) /\ Spent)
<1> DEFINE failed == [session EXCEPT !.handled = TRUE, !.phase = "failed"]
           request == Retry(session, "silent", session.budget - 1)
<1>1. session \in Sessions
  BY DEF UpdateTypeOK
<1>2. CASE Ignored(session, "real")
  <2>1. s = [session EXCEPT !.handled = TRUE]
    BY <1>2 DEF HandleFailure
  <2> QED BY <2>1, <1>1, <1>2 DEF FailedIsHandled, Ignored, GivenUp, Spent,
                                 RepresentsUpdateAttempt, Sessions
<1>3. CASE ~Ignored(session, "real") /\ session.budget > 0
  <2>1. s = [failed EXCEPT !.budget = @ - 1, !.retry = request]
    BY <1>3 DEF HandleFailure
  <2>2. session.budget - 1 \in Nat
    BY <1>1, <1>3 DEF Sessions
  <2>3. request \in Retries /\ request.source = session.id
    BY <2>2, <1>1 DEF Retry, Retries, Sessions
  <2>4. s.retry = request /\ s.id = session.id
    BY <2>1, <1>1 DEF Sessions
  <2> QED BY <2>3, <2>4, UpdateAssumption DEF Retried
<1>4. CASE ~Ignored(session, "real") /\ ~(session.budget > 0)
  <2>1. \/ s = [failed EXCEPT !.presented = TRUE]
        \/ s = [[failed EXCEPT !.presented = TRUE] EXCEPT
                  !.retry = Retry(session, "user", SilentRetryBudget(session.mode))]
    BY <1>4 DEF HandleFailure
  <2> QED BY <2>1, <1>1 DEF Sessions
<1> QED BY <1>2, <1>3, <1>4
-----------------------------------------------------------------------------
(* Types, step by step.                                                    *)
LEMMA StartTypes ==
  ASSUME UpdateTypeOK, NEW mode \in Modes, NEW budget \in Nat, Start(mode, budget)
  PROVE  session' \in Sessions /\ observation' \in Items \cup {None} /\ cycle' \in Cycles
<1>1. session.id + 1 \in Nat
  BY DEF UpdateTypeOK, Sessions
<1>2. session' \in Sessions
  BY <1>1 DEF Start, NewSession, Sessions, Phases
<1>3. NoCycle \in Cycles
  BY DEF NoCycle, Cycles, Stages
<1>4. \A by \in {"app", "user"} : Cycle(by) \in Cycles
  BY <1>3 DEF Cycle, Cycles, Stages
<1>5. CASE CanCheckForUpdates
  <2>1. cycle' \in {Cycle("user"), Cycle("app")}
    BY <1>5 DEF Start
  <2> QED BY <2>1, <1>2, <1>4 DEF Start
<1>6. CASE ~CanCheckForUpdates
  <2>1. cycle' = [cycle EXCEPT !.replaced = TRUE] /\ cycle \in Cycles
    BY <1>6 DEF Start, UpdateTypeOK
  <2>2. cycle' \in Cycles
    BY <2>1 DEF Cycles
  <2> QED BY <2>2, <1>2 DEF Start
<1> QED BY <1>5, <1>6

LEMMA AlertTypes ==
  ASSUME UpdateTypeOK, NEW error \in {"none", "real", "benign"},
         NEW s \in HandleFailure(session, error), Alert(s)
  PROVE  clicks' \in 0..MaxClicks /\ owed' \in BOOLEAN
<1>1. clicks \in Nat /\ MaxClicks \in Nat /\ clicks <= MaxClicks /\ session \in Sessions
  BY UpdateAssumption DEF UpdateTypeOK
<1>2. s \in Sessions
  BY HandledSession
<1>3. s.retry # None /\ s.retry.kind = "user" /\ session.retry = None => clicks < MaxClicks
  <2> DEFINE failed == [session EXCEPT !.handled = TRUE, !.phase = "failed"]
             alerted == [failed EXCEPT !.presented = TRUE]
             silent == Retry(session, "silent", session.budget - 1)
  <2>1. CASE s \in {session, [session EXCEPT !.handled = TRUE], alerted}
    <3>1. s.retry = session.retry
      BY <2>1, <1>1 DEF Sessions
    <3> QED BY <3>1
  <2>2. CASE s = [failed EXCEPT !.budget = @ - 1, !.retry = silent]
    <3>1. s.retry = silent
      BY <2>2, <1>1 DEF Sessions
    <3>2. s.retry.kind = "silent"
      BY <3>1 DEF Retry
    <3> QED BY <3>2
  <2>3. CASE clicks < MaxClicks
    BY <2>3
  <2> QED BY <2>1, <2>2, <2>3 DEF HandleFailure
<1>4. clicks' \in 0..MaxClicks
  BY <1>1, <1>3 DEF Alert
<1>5. owed' \in BOOLEAN
  BY <1>2, <1>1 DEF Alert, UpdateTypeOK, Sessions
<1> QED BY <1>4, <1>5

LEMMA FinishTypes ==
  ASSUME UpdateTypeOK, FinishUpdateCycle
  PROVE  UpdateTypeOK'
<1>1. cycle.error \in {"none", "real", "benign"}
  BY DEF UpdateTypeOK, Cycles
<1>2. PICK s \in HandleFailure(session, cycle.error) :
        /\ Alert(s)
        /\ IF s.retry # None
           THEN timers' = timers \cup {s.retry} /\ session' = [s EXCEPT !.retry = None]
           ELSE /\ session' = [s EXCEPT !.phase = IF @ = "failed" THEN @ ELSE "finished"]
                /\ UNCHANGED timers
  BY DEF FinishUpdateCycle
<1>3. s \in Sessions
  BY <1>1, HandledSession
<1>4. session' \in Sessions /\ timers' \subseteq Retries
  BY <1>2, <1>3 DEF UpdateTypeOK, Sessions, Phases
<1>5. cycle' \in Cycles
  BY DEF FinishUpdateCycle, NoCycle, Cycles, Stages
<1>6. clicks' \in 0..MaxClicks /\ owed' \in BOOLEAN
  BY <1>1, <1>2, AlertTypes
<1> QED BY <1>4, <1>5, <1>6 DEF FinishUpdateCycle, UpdateTypeOK

LEMMA CycleTypes ==
  ASSUME UpdateTypeOK, CycleStep, ~FinishUpdateCycle
  PROVE  UpdateTypeOK'
<1> USE DEF UpdateTypeOK
<1>1. session \in Sessions /\ cycle \in Cycles
  OBVIOUS
<1>2. ASSUME NEW item \in Items, FindUpdate(item) PROVE UpdateTypeOK'
  <2>1. session' \in Sessions /\ cycle' \in Cycles
    BY <1>1, <1>2 DEF FindUpdate, Sessions, Phases, Cycles, Stages
  <2> QED BY <2>1, <1>2 DEF FindUpdate, others
<1>3. CASE ShowUpdateFound
  <2>1. session' \in Sessions /\ cycle' \in Cycles /\ owed' \in BOOLEAN
    BY <1>1, <1>3 DEF ShowUpdateFound, InstallFound, DismissFound, Accept, GoTo,
                      Sessions, Phases, Cycles, Stages
  <2> QED BY <2>1, <1>3 DEF ShowUpdateFound, others
<1>4. CASE WillInstallOnQuit
  <2>1. session' \in Sessions /\ cycle' \in Cycles
    BY <1>1, <1>4 DEF WillInstallOnQuit, GoTo, Sessions, Phases, Cycles, Stages
  <2> QED BY <2>1, <1>4 DEF WillInstallOnQuit, others
<1>5. CASE NotFound
  <2>1. cycle' \in Cycles
    BY <1>1, <1>5 DEF NotFound, Cycles, Stages
  <2> QED BY <2>1, <1>5 DEF NotFound, others
<1>6. CASE Fail
  <2>1. cycle' \in Cycles
    BY <1>1, <1>6 DEF Fail, Cycles, Stages
  <2> QED BY <2>1, <1>6 DEF Fail, others
<1>7. CASE DownloadStarts
  <2>1. session' \in Sessions /\ cycle' \in Cycles
    BY <1>1, <1>7 DEF DownloadStarts, GoTo, Sessions, Phases, Cycles, Stages
  <2> QED BY <2>1, <1>7 DEF DownloadStarts, others
<1>8. CASE ReadyToInstall
  <2>1. Accept(session) \in Sessions
    BY <1>1 DEF Accept, Sessions, Phases
  <2>2. \A place \in {"installing", "ending"} : [cycle EXCEPT !.at = place] \in Cycles
    BY <1>1 DEF Cycles, Stages
  <2>3. session' \in Sessions /\ cycle' \in Cycles
    BY <2>1, <2>2, <1>1, <1>8 DEF ReadyToInstall, GoTo
  <2> QED BY <2>3, <1>8 DEF ReadyToInstall, others
<1>9. CASE Install
  <2>1. session' \in Sessions /\ cycle' \in Cycles
    BY <1>1, <1>9 DEF Install, GoTo, Sessions, Phases, Cycles, Stages
  <2> QED BY <2>1, <1>9 DEF Install
<1>10. CASE ShowUpdaterError
  <2>1. PICK s \in HandleFailure(session, cycle.error) : session' = s /\ Alert(s)
    BY <1>10 DEF ShowUpdaterError
  <2>2. cycle.error \in {"none", "real", "benign"}
    BY <1>1 DEF Cycles
  <2>3. session' \in Sessions /\ clicks' \in 0..MaxClicks /\ owed' \in BOOLEAN
    BY <2>1, <2>2, HandledSession, AlertTypes
  <2>4. cycle' \in Cycles
    BY <1>1, <1>10 DEF ShowUpdaterError, Cycles
  <2> QED BY <2>3, <2>4, <1>10 DEF ShowUpdaterError
<1> QED BY <1>2, <1>3, <1>4, <1>5, <1>6, <1>7, <1>8, <1>9, <1>10 DEF CycleStep

LEMMA TypesStep == UpdateTypeOK /\ [UpdateNext]_vars => UpdateTypeOK'
<1> SUFFICES ASSUME UpdateTypeOK, [UpdateNext]_vars PROVE UpdateTypeOK'
  OBVIOUS
<1>1. \A mode \in Modes : SilentRetryBudget(mode) \in Nat
  BY DEF SilentRetryBudget
<1>2. {MaxClicks, MaxScheduled} \subseteq Nat
  BY UpdateAssumption
<1>3. Click => clicks' \in 0..MaxClicks
  BY <1>2 DEF Click, UpdateTypeOK
<1>4. CASE CheckForUpdates
  <2>1. session' \in Sessions /\ observation' \in Items \cup {None} /\ cycle' \in Cycles
    BY <1>1, <1>4, StartTypes DEF CheckForUpdates, Modes
  <2> QED BY <2>1, <1>3, <1>4 DEF CheckForUpdates, UpdateTypeOK
<1>5. CASE ChooseMandatoryUpdate
  <2>1. session' \in Sessions /\ observation' \in Items \cup {None} /\ cycle' \in Cycles
    BY <1>1, <1>5, StartTypes DEF ChooseMandatoryUpdate, Modes
  <2> QED BY <2>1, <1>3, <1>5 DEF ChooseMandatoryUpdate, UpdateTypeOK
<1>6. ASSUME NEW r \in timers, RetryTimerFires(r) PROVE UpdateTypeOK'
  <2>1. r.mode \in Modes /\ r.budget \in Nat /\ timers' \subseteq Retries
    BY <1>6 DEF RetryTimerFires, UpdateTypeOK, Retries
  <2>2. CASE session.id = r.source
    <3>1. session' \in Sessions /\ observation' \in Items \cup {None} /\ cycle' \in Cycles
      BY <2>1, <2>2, <1>1, <1>6, StartTypes DEF RetryTimerFires
    <3> QED BY <3>1, <2>1, <2>2, <1>6 DEF RetryTimerFires, UpdateTypeOK
  <2>3. CASE session.id # r.source
    BY <2>1, <2>3, <1>6 DEF RetryTimerFires, UpdateTypeOK
  <2> QED BY <2>2, <2>3
<1>7. CASE ScheduledCheck
  <2>1. cycle' \in Cycles
    BY <1>7 DEF ScheduledCheck, Cycle, NoCycle, Cycles, Stages
  <2>2. scheduled' \in 0..MaxScheduled
    BY <1>2, <1>7 DEF ScheduledCheck, UpdateTypeOK
  <2> QED BY <2>1, <2>2, <1>7 DEF ScheduledCheck, UpdateTypeOK
<1>8. CASE CycleStep
  BY <1>8, CycleTypes, FinishTypes
<1>9. CASE UNCHANGED vars
  BY <1>9 DEF vars, UpdateTypeOK
<1> QED BY <1>4, <1>5, <1>6, <1>7, <1>8, <1>9 DEF UpdateNext, TimerStep

-----------------------------------------------------------------------------
(* A new check starts with nothing handled, in a cycle of its own or in    *)
(* one that it has replaced the session of.                                *)
LEMMA StartKeeps ==
  ASSUME UpdateTypeOK, NEW mode, NEW budget, Start(mode, budget)
  PROVE  OfferStands' /\ UntouchedUntilTheEnd' /\ HandledIsFollowedUp'
<1>1. /\ ~session'.handled /\ ~session'.presented /\ session'.retry = None
  BY DEF Start, NewSession
<1>2. CASE CanCheckForUpdates
  <2>1. cycle'.at = "checking"
    BY <1>2 DEF Start, Cycle, NoCycle
  <2> QED BY <1>1, <2>1 DEF OfferStands, UntouchedUntilTheEnd, HandledIsFollowedUp, At
<1>3. CASE ~CanCheckForUpdates
  <2>1. cycle'.replaced
    BY <1>3 DEF Start, UpdateTypeOK, Cycles
  <2> QED BY <2>1 DEF OfferStands, UntouchedUntilTheEnd, HandledIsFollowedUp, OwnCycle
<1> QED BY <1>2, <1>3

Marks(s) == <<s.handled, s.presented, s.retry>>

(* A step within the cycle before its end leaves these marks alone.        *)
LEMMA MarksStay ==
  ASSUME UntouchedUntilTheEnd, ~At("ending"), Marks(session') = Marks(session),
         cycle'.by = cycle.by, cycle'.replaced = cycle.replaced
  PROVE  UntouchedUntilTheEnd' /\ HandledIsFollowedUp'
  BY DEF UntouchedUntilTheEnd, HandledIsFollowedUp, Marks, OwnCycle

(* A session fails only when its failure is handled.                       *)
LEMMA FailedStep ==
  UpdateTypeOK /\ FailedIsHandled /\ [UpdateNext]_vars => FailedIsHandled'
<1> SUFFICES ASSUME UpdateTypeOK, FailedIsHandled, [UpdateNext]_vars PROVE FailedIsHandled'
  OBVIOUS
<1> USE DEF FailedIsHandled
<1>1. session \in Sessions /\ cycle.error \in {"none", "real", "benign"}
  BY DEF UpdateTypeOK, Cycles
<1>2. ASSUME NEW mode, NEW budget, Start(mode, budget) PROVE FailedIsHandled'
  BY <1>2 DEF Start, NewSession
<1>3. CheckForUpdates \/ ChooseMandatoryUpdate \/ ScheduledCheck \/ TimerStep
        => FailedIsHandled'
  BY <1>2 DEF CheckForUpdates, ChooseMandatoryUpdate, ScheduledCheck, TimerStep,
              RetryTimerFires
<1>4. ASSUME NEW item \in Items, FindUpdate(item) PROVE FailedIsHandled'
  BY <1>1, <1>4 DEF FindUpdate, Sessions
<1>5. ShowUpdateFound \/ WillInstallOnQuit \/ NotFound \/ Fail => FailedIsHandled'
  BY <1>1 DEF ShowUpdateFound, InstallFound, DismissFound, Accept, WillInstallOnQuit,
              NotFound, Fail, Sessions
<1>6. DownloadStarts \/ ReadyToInstall \/ Install => FailedIsHandled'
  BY <1>1 DEF DownloadStarts, ReadyToInstall, Accept, Install, Sessions
<1>7. ASSUME NEW s \in HandleFailure(session, cycle.error)
      PROVE  s \in Sessions /\ (s.phase = "failed" => s.handled)
  BY <1>1, HandledSession
<1>8. ShowUpdaterError => FailedIsHandled'
  BY <1>7 DEF ShowUpdaterError
<1>9. CASE FinishUpdateCycle
  <2>1. PICK s \in HandleFailure(session, cycle.error) :
          session' \in {[s EXCEPT !.retry = None],
                        [s EXCEPT !.phase = IF @ = "failed" THEN @ ELSE "finished"]}
    BY <1>9 DEF FinishUpdateCycle
  <2> QED BY <2>1, <1>7 DEF Sessions
<1> QED BY <1>3, <1>4, <1>5, <1>6, <1>8, <1>9 DEF UpdateNext, CycleStep, vars

LEMMA CycleKeeps ==
  ASSUME UpdateInv, CycleStep
  PROVE  OfferStands' /\ UntouchedUntilTheEnd' /\ HandledIsFollowedUp'
<1> DEFINE Goal == OfferStands' /\ UntouchedUntilTheEnd' /\ HandledIsFollowedUp'
           Within == /\ ~At("ending") /\ Marks(session') = Marks(session)
                     /\ cycle'.by = cycle.by /\ cycle'.replaced = cycle.replaced
<1>1. session \in Sessions /\ cycle \in Cycles
  BY DEF UpdateInv, UpdateTypeOK
<1>2. Within => UntouchedUntilTheEnd' /\ HandledIsFollowedUp'
  BY MarksStay DEF UpdateInv
<1>3. ASSUME NEW item \in Items, FindUpdate(item) PROVE Goal
  <2>1. Within /\ cycle'.at = "found"
    BY <1>1, <1>3 DEF FindUpdate, Marks, At, Sessions, Cycles
  <2> QED BY <2>1, <1>2 DEF OfferStands
<1>4. CASE ShowUpdateFound
  <2>1. Within
    BY <1>1, <1>4 DEF ShowUpdateFound, InstallFound, DismissFound, Accept, GoTo, Marks,
                      At, Sessions, Cycles
  <2>2. cycle'.at = "ending" \/ session'.offered
    BY <1>1, <1>4 DEF ShowUpdateFound, InstallFound, DismissFound, Accept, GoTo,
                      Sessions, Cycles
  <2> QED BY <2>1, <2>2, <1>2 DEF OfferStands
<1>5. CASE WillInstallOnQuit
  <2>1. Within /\ cycle'.at \in {"installing", "ending"}
    BY <1>1, <1>5 DEF WillInstallOnQuit, GoTo, Marks, At, Sessions, Cycles
  <2> QED BY <2>1, <1>2 DEF OfferStands
<1>6. CASE NotFound
  <2>1. Within /\ cycle'.at = "ending"
    BY <1>1, <1>6 DEF NotFound, Marks, At, Cycles
  <2> QED BY <2>1, <1>2 DEF OfferStands
<1>7. CASE Fail
  <2>1. Within /\ cycle'.at = "ending"
    BY <1>1, <1>7 DEF Fail, Marks, At, Cycles
  <2> QED BY <2>1, <1>2 DEF OfferStands
<1>8. CASE DownloadStarts
  <2>1. Within /\ At("accepted")
    BY <1>1, <1>8 DEF DownloadStarts, GoTo, Marks, At, Sessions, Cycles
  <2>2. session'.offered = session.offered /\ session'.critical = session.critical
    BY <1>1, <1>8 DEF DownloadStarts, Sessions
  <2> QED BY <2>1, <2>2, <1>2 DEF OfferStands, UpdateInv, At
<1>9. CASE ReadyToInstall
  <2>1. At("downloaded") /\ cycle'.at \in {"installing", "ending"}
        /\ cycle'.by = cycle.by /\ cycle'.replaced = cycle.replaced
    BY <1>1, <1>9 DEF ReadyToInstall, GoTo, At, Cycles
  <2>2. Marks(session') = Marks(session)
    BY <1>1, <1>9 DEF ReadyToInstall, Accept, Marks, Sessions
  <2> QED BY <2>1, <2>2, <1>2 DEF OfferStands, At
<1>10. CASE Install
  <2>1. Within /\ cycle'.at = "installed"
    BY <1>1, <1>10 DEF Install, GoTo, Marks, At, Sessions, Cycles
  <2> QED BY <2>1, <1>2 DEF OfferStands
<1>11. CASE ShowUpdaterError
  <2>1. PICK s \in HandleFailure(session, "real") : session' = s
    BY <1>11 DEF ShowUpdaterError
  <2>2. cycle'.at = "ending" /\ cycle'.by = cycle.by /\ cycle'.replaced = cycle.replaced
        /\ cycle'.error = cycle.error /\ At("ending") /\ cycle.error = "real"
    BY <1>1, <1>11 DEF ShowUpdaterError, At, Cycles
  <2>3. CASE session.handled \/ session.presented
    <3>1. session' = session
      BY <2>1, <2>3 DEF HandleFailure
    <3> QED BY <3>1, <2>2 DEF UpdateInv, OfferStands, UntouchedUntilTheEnd,
                             HandledIsFollowedUp, OwnCycle, At
  <2>4. CASE ~session.handled /\ ~session.presented
    <3>1. session'.presented \/ Retried(session') \/ GivenUp(session')
      BY <2>1, <2>4, FailureLeavesTrace DEF UpdateInv
    <3> QED BY <3>1, <2>2 DEF OfferStands, UntouchedUntilTheEnd, HandledIsFollowedUp, At
  <2> QED BY <2>3, <2>4
<1>12. CASE FinishUpdateCycle
  <2>1. cycle'.at = "none" /\ cycle'.by = "nobody"
    BY <1>12 DEF FinishUpdateCycle, NoCycle
  <2> QED BY <2>1 DEF OfferStands, UntouchedUntilTheEnd, HandledIsFollowedUp, OwnCycle
<1> QED BY <1>3, <1>4, <1>5, <1>6, <1>7, <1>8, <1>9, <1>10, <1>11, <1>12 DEF CycleStep

LEMMA InitKeeps == UpdateInit => UpdateInv
<1> SUFFICES ASSUME UpdateInit PROVE UpdateInv
  OBVIOUS
<1>1. 0 \in 0..MaxClicks /\ 0 \in 0..MaxScheduled
  BY UpdateAssumption
<1>2. session \in Sessions
  BY DEF UpdateInit, NewSession, SilentRetryBudget, Sessions, Modes, Phases
<1>3. cycle \in Cycles /\ cycle.at = "checking"
  BY DEF UpdateInit, Cycle, NoCycle, Cycles, Stages
<1>4. UpdateTypeOK
  BY <1>1, <1>2, <1>3, Zenon DEF UpdateInit, UpdateTypeOK
<1>5. ~session.handled /\ ~session.presented /\ session.retry = None
      /\ session.phase = "checking"
  BY DEF UpdateInit, NewSession
<1> QED BY <1>3, <1>4, <1>5
        DEF UpdateInv, FailedIsHandled, OfferStands, UntouchedUntilTheEnd, HandledIsFollowedUp, At

LEMMA NextKeeps == UpdateInv /\ [UpdateNext]_vars => UpdateInv'
<1> SUFFICES ASSUME UpdateInv, [UpdateNext]_vars
             PROVE  OfferStands' /\ UntouchedUntilTheEnd' /\ HandledIsFollowedUp'
  BY TypesStep, FailedStep DEF UpdateInv
<1> USE DEF UpdateInv
<1>1. CASE CheckForUpdates
  BY <1>1, StartKeeps DEF CheckForUpdates
<1>2. CASE ChooseMandatoryUpdate
  BY <1>2, StartKeeps DEF ChooseMandatoryUpdate
<1>3. ASSUME UNCHANGED <<session, cycle>>
      PROVE  OfferStands' /\ UntouchedUntilTheEnd' /\ HandledIsFollowedUp'
  BY <1>3 DEF OfferStands, UntouchedUntilTheEnd, HandledIsFollowedUp, OwnCycle, At,
              Retried, GivenUp, RepresentsUpdateAttempt
<1>4. ASSUME NEW r \in timers, RetryTimerFires(r)
      PROVE  OfferStands' /\ UntouchedUntilTheEnd' /\ HandledIsFollowedUp'
  <2>1. CASE session.id = r.source
    BY <2>1, <1>4, StartKeeps DEF RetryTimerFires
  <2>2. CASE session.id # r.source
    BY <2>2, <1>3, <1>4 DEF RetryTimerFires
  <2> QED BY <2>1, <2>2
<1>5. CASE ScheduledCheck
  <2>1. cycle'.at = "checking" /\ cycle'.by = "schedule"
    BY <1>5 DEF ScheduledCheck, Cycle, NoCycle
  <2> QED BY <2>1 DEF OfferStands, UntouchedUntilTheEnd, HandledIsFollowedUp, OwnCycle
<1>6. CASE CycleStep
  BY <1>6, CycleKeeps
<1>7. CASE UNCHANGED vars
  BY <1>7, <1>3 DEF vars
<1> QED BY <1>1, <1>2, <1>4, <1>5, <1>6, <1>7 DEF UpdateNext, TimerStep

(* The inductive invariant.                                                *)
THEOREM UpdateInvariant == UpdateSpec => []UpdateInv
<1>1. UpdateInit => UpdateInv
  BY InitKeeps
<1>2. UpdateInv /\ [UpdateNext]_vars => UpdateInv'
  BY NextKeeps
<1> QED BY <1>1, <1>2, PTL DEF UpdateSpec

(* Types: the session the reducer keeps, the retries that wait, and what   *)
(* the menu knows.                                                         *)
THEOREM UpdateTypeInvariant == UpdateSpec => []UpdateTypeOK
<1>1. UpdateInv => UpdateTypeOK
  BY DEF UpdateInv
<1> QED BY <1>1, UpdateInvariant, PTL

-----------------------------------------------------------------------------
(* Only the end of the cycle clears it.                                    *)
LEMMA OnlyFinishEnds ==
  ASSUME UpdateTypeOK, [UpdateNext]_vars, At("ending"), cycle' = NoCycle
  PROVE  FinishUpdateCycle
<1>1. cycle \in Cycles /\ cycle.at = "ending" /\ cycle'.at = "none" /\ ~CanCheckForUpdates
  BY DEF UpdateTypeOK, At, NoCycle, CanCheckForUpdates
<1>2. ASSUME NEW mode, NEW budget, Start(mode, budget) PROVE FALSE
  <2>1. cycle' = [cycle EXCEPT !.replaced = TRUE]
    BY <1>1, <1>2 DEF Start
  <2> QED BY <2>1, <1>1 DEF Cycles
<1>3. ~CheckForUpdates /\ ~ChooseMandatoryUpdate /\ ~ScheduledCheck
  BY <1>1, <1>2 DEF CheckForUpdates, ChooseMandatoryUpdate, ScheduledCheck
<1>4. ~TimerStep
  BY <1>1, <1>2 DEF TimerStep, RetryTimerFires
<1>5. ~ShowUpdaterError
  BY <1>1 DEF ShowUpdaterError, Cycles
<1>6. cycle' # cycle
  BY <1>1
<1>7. CASE CycleStep
  BY <1>1, <1>5, <1>7 DEF CycleStep, At, FindUpdate, ShowUpdateFound, WillInstallOnQuit,
                          NotFound, Fail, DownloadStarts, ReadyToInstall, Install
<1> QED BY <1>3, <1>4, <1>6, <1>7 DEF UpdateNext, vars

(* A failed check of the app is repeated, reported to the user or spent,   *)
(* however Sparkle's callbacks and the user's clicks interleave: the retry *)
(* that one callback asks for is still there when another consumes it.     *)
THEOREM EveryFailureIsFollowedUp == UpdateSpec => FailuresAreFollowedUp
<1>1. ASSUME UpdateInv, [UpdateNext]_vars, CycleFails, OwnCycle
      PROVE  FollowedUp \/ Spent
  <2>1. session \in Sessions /\ FinishUpdateCycle
    BY <1>1, OnlyFinishEnds DEF UpdateInv, UpdateTypeOK, CycleFails
  <2>2. PICK s \in HandleFailure(session, "real") :
          IF s.retry # None
          THEN timers' = timers \cup {s.retry} /\ session' = [s EXCEPT !.retry = None]
          ELSE session' = [s EXCEPT !.phase = IF @ = "failed" THEN @ ELSE "finished"]
    BY <1>1, <2>1 DEF FinishUpdateCycle, CycleFails
  <2>3. s \in Sessions /\ s.id = session.id /\ s.mode = session.mode
        /\ s.critical = session.critical /\ s.offered = session.offered
        /\ s.began = session.began
    BY <1>1, HandledSession DEF UpdateInv
  <2>4. s.presented \/ Retried(s) \/ Spent
    <3>1. CASE session.handled \/ session.presented
      <4>1. s = session
        BY <2>2, <3>1 DEF HandleFailure
      <4> QED BY <4>1, <3>1, <1>1 DEF UpdateInv, HandledIsFollowedUp, CycleFails,
                                     GivenUp, Spent
    <3>2. CASE ~session.handled /\ ~session.presented
      BY <1>1, <2>2, <3>2, FailureLeavesTrace DEF UpdateInv
    <3> QED BY <3>1, <3>2
  <2>5. session'.presented = s.presented
    BY <2>2, <2>3 DEF Sessions
  <2>6. CASE Retried(s)
    <3>1. s.retry \in timers' /\ s.retry.source = session.id
      BY <2>2, <2>3, <2>6 DEF Retried
    <3> QED BY <3>1 DEF FollowedUp
  <2> QED BY <2>4, <2>5, <2>6 DEF FollowedUp
<1>2. UpdateInv /\ [UpdateNext]_vars
        => [CycleFails /\ OwnCycle => FollowedUp \/ Spent]_vars
  BY <1>1
<1> QED BY <1>2, UpdateInvariant, PTL DEF UpdateSpec, FailuresAreFollowedUp

(* What is ready was accepted in this session, and goes on to install.     *)
THEOREM ReadyUpdatesGoOn == UpdateSpec => ReadyUpdatesAreInstalled
<1>1. ASSUME UpdateInv, [UpdateNext]_vars,
             At("downloaded"), cycle'.at = "ending", cycle'.error = "none"
      PROVE  cycle.replaced
  <2>1. cycle \in Cycles /\ cycle.at = "downloaded" /\ ~CanCheckForUpdates
    BY <1>1 DEF UpdateInv, UpdateTypeOK, At, NoCycle, CanCheckForUpdates
  <2>2. ~CheckForUpdates /\ ~ChooseMandatoryUpdate /\ ~ScheduledCheck /\ ~TimerStep
    <3>1. ASSUME NEW mode, NEW budget, Start(mode, budget) PROVE FALSE
      <4>1. cycle' = [cycle EXCEPT !.replaced = TRUE]
        BY <2>1, <3>1 DEF Start
      <4> QED BY <4>1, <2>1, <1>1 DEF Cycles
    <3>2. cycle' # cycle
      BY <2>1, <1>1
    <3> QED BY <2>1, <3>1, <3>2 DEF CheckForUpdates, ChooseMandatoryUpdate,
                               ScheduledCheck, TimerStep, RetryTimerFires
  <2>3. ~Fail
    BY <1>1, <2>1 DEF Fail, Cycles
  <2>4. CycleStep
    BY <1>1, <2>1, <2>2 DEF UpdateNext, vars
  <2>5. ReadyToInstall
    BY <2>1, <2>3, <2>4 DEF CycleStep, At, FindUpdate, ShowUpdateFound, WillInstallOnQuit,
                            NotFound, DownloadStarts, Install, ShowUpdaterError,
                            FinishUpdateCycle
  <2>6. ~(session.offered \/ session.critical)
    BY <1>1, <2>1, <2>5 DEF ReadyToInstall, GoTo, Cycles
  <2> QED BY <1>1, <2>1, <2>6 DEF UpdateInv, OfferStands
<1>2. UpdateInv /\ [UpdateNext]_vars
        => [At("downloaded") /\ cycle'.at = "ending" /\ cycle'.error = "none"
              => cycle.replaced]_vars
  BY <1>1
<1> QED BY <1>2, UpdateInvariant, PTL DEF UpdateSpec, ReadyUpdatesAreInstalled
================================================================================
