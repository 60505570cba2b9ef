----------------------- MODULE WikiPublicationProofs -----------------------
(***************************************************************************)
(* Theorems about WikiRenderQueue, for every choice of delays and every    *)
(* number of requests, then about WikiPublication, for every number of     *)
(* edits and crashes too.                                                  *)
(***************************************************************************)
EXTENDS WikiPublication, TLAPS

(* activeRenders counts the running render and nothing else.               *)
ActiveIsRunning == active = IF running = None THEN 0 ELSE 1

TokensArePast == \A t \in timers : t.token <= token

(* The current timer of an automatic request outlasts backoff and cadence. *)
DelayCovers ==
    scheduled = "automatic" =>
        \A t \in timers : t.token = token => backoff <= t.left /\ cadence <= t.left

QueueInv ==
    /\ QueueTypeOK
    /\ ActiveIsRunning
    /\ ScheduledIsArmed
    /\ TokensArePast
    /\ DelayCovers

(* Longest of three durations is one of them and no shorter than any.      *)
LEMMA LongestOfThree ==
    ASSUME NEW a \in Nat, NEW b \in Nat, NEW c \in Nat
    PROVE  /\ Longest({a, b, c}) \in Nat
           /\ a <= Longest({a, b, c})
           /\ b <= Longest({a, b, c})
           /\ c <= Longest({a, b, c})
<1>1. \E d \in {a, b, c} : \A e \in {a, b, c} : e <= d
  <2>1. CASE b <= a /\ c <= a BY <2>1
  <2>2. CASE a <= b /\ c <= b BY <2>2
  <2>3. CASE a <= c /\ b <= c BY <2>3
  <2> QED BY <2>1, <2>2, <2>3
<1>2. /\ Longest({a, b, c}) \in {a, b, c}
      /\ \A e \in {a, b, c} : e <= Longest({a, b, c})
  BY <1>1 DEF Longest
<1> QED BY <1>2

(* What re-scheduling leaves behind: one timer of the new token, due after *)
(* the backoff and the cadence when the request is automatic.              *)
LEMMA ScheduleArms ==
    ASSUME QueueInv, NEW p \in Priorities, Schedule(p),
           backoff' \in Nat, cadence' = cadence
    PROVE  /\ scheduled' = p
           /\ token' \in Nat
           /\ timers' \subseteq [token : Nat, left : Nat]
           /\ ScheduledIsArmed'
           /\ TokensArePast'
           /\ DelayCovers'
<1> DEFINE new == [token |-> token + 1, left |-> Delay(p)]
<1> USE QueueAssumption
<1>1. cadence \in Nat /\ Debounce \in Nat /\ token \in Nat
  BY DEF QueueInv, QueueTypeOK
<1>2. /\ Delay(p) \in Nat
      /\ p = "automatic" => backoff' <= Delay(p) /\ cadence <= Delay(p)
  BY <1>1, LongestOfThree DEF Delay, Priorities
<1>3. scheduled' = p /\ token' = token + 1 /\ timers' = timers \cup {new}
  BY DEF Schedule
<1>4. timers \subseteq [token : Nat, left : Nat] /\ TokensArePast
  BY DEF QueueInv, QueueTypeOK
<1>5. new \in [token : Nat, left : Nat] /\ new.token = token + 1 /\ new.left = Delay(p)
  BY <1>1, <1>2
<1>6. \A t \in timers : t.token \in Nat /\ t.token <= token
  BY <1>4 DEF TokensArePast
<1>7. TokensArePast'
  BY <1>1, <1>3, <1>5, <1>6 DEF TokensArePast
<1>8. \A t \in timers' : t.token = token' => t = new
  BY <1>1, <1>3, <1>6
<1>9. DelayCovers'
  BY <1>2, <1>3, <1>5, <1>8 DEF DelayCovers
<1>10. ScheduledIsArmed'
  BY <1>3, <1>5 DEF ScheduledIsArmed
<1> QED BY <1>1, <1>3, <1>4, <1>5, <1>7, <1>9, <1>10

LEMMA QueueInitInv == QueueInit => QueueInv
BY QueueAssumption DEF QueueInit, QueueInv, QueueTypeOK, ActiveIsRunning,
   ScheduledIsArmed, TokensArePast, DelayCovers, Slots, Priorities

LEMMA QueueStepInv == QueueInv /\ [QueueNext]_queueVars => QueueInv'
<1> SUFFICES ASSUME QueueInv, [QueueNext]_queueVars PROVE QueueInv'
  OBVIOUS
<1> USE QueueAssumption
<1>1. ASSUME NEW p \in Priorities, Request(p) PROVE QueueInv'
  <2>1. Merge(pending, p) \in Priorities /\ Merge(scheduled, p) \in Priorities
    BY <1>1 DEF Merge, Priorities
  <2>2. CASE Busy
    BY <1>1, <2>1, <2>2 DEF Request, Busy, QueueInv, QueueTypeOK, Slots, ActiveIsRunning,
       ScheduledIsArmed, TokensArePast, DelayCovers
  <2>3. CASE ~Busy
    <3>1. Schedule(Merge(scheduled, p)) /\ pending' = pending
      BY <1>1, <2>3 DEF Request
    <3>2. backoff' \in Nat /\ cadence' = cadence
      BY <1>1 DEF Request, QueueInv, QueueTypeOK
    <3>3. /\ scheduled' = Merge(scheduled, p)
          /\ token' \in Nat
          /\ timers' \subseteq [token : Nat, left : Nat]
          /\ ScheduledIsArmed' /\ TokensArePast' /\ DelayCovers'
      BY <2>1, <3>1, <3>2, ScheduleArms
    <3>4. QueueTypeOK' /\ ActiveIsRunning'
      BY <1>1, <2>1, <2>3, <3>1, <3>3
      DEF Request, Busy, QueueInv, QueueTypeOK, Slots, ActiveIsRunning
    <3> QED BY <3>3, <3>4 DEF QueueInv
  <2> QED BY <2>2, <2>3
<1>2. ASSUME NEW t \in timers, StartScheduledRequest(t) PROVE QueueInv'
  <2>1. QueueTypeOK'
    BY <1>2 DEF StartScheduledRequest, CanStart, Busy, QueueInv, QueueTypeOK, Slots, ActiveIsRunning
  <2>2. ActiveIsRunning'
    BY <1>2 DEF StartScheduledRequest, CanStart, Busy, QueueInv, ActiveIsRunning
  <2>3. ScheduledIsArmed' /\ TokensArePast' /\ DelayCovers'
    BY <1>2 DEF StartScheduledRequest, QueueInv, ScheduledIsArmed, TokensArePast, DelayCovers
  <2> QED BY <2>1, <2>2, <2>3 DEF QueueInv
<1>3. ASSUME NEW t \in timers, StaleTimer(t) PROVE QueueInv'
  <2>1. QueueTypeOK' /\ ActiveIsRunning'
    BY <1>3 DEF StaleTimer, QueueInv, QueueTypeOK, Slots, ActiveIsRunning
  <2>2. scheduled # None => t.token # token
    BY <1>3 DEF StaleTimer, CanStart, Busy, QueueInv, QueueTypeOK
  <2>3. ScheduledIsArmed'
    BY <1>3, <2>2 DEF StaleTimer, QueueInv, ScheduledIsArmed
  <2>4. TokensArePast' /\ DelayCovers'
    BY <1>3 DEF StaleTimer, QueueInv, TokensArePast, DelayCovers
  <2> QED BY <2>1, <2>3, <2>4 DEF QueueInv
<1>4. ASSUME NEW outcome \in RenderOutcomes, Finish(outcome) PROVE QueueInv'
  <2>1. running # None /\ running' = None /\ scheduled = None /\ active = 1 /\ active' = 0
    BY <1>4 DEF Finish, QueueInv, QueueTypeOK, ActiveIsRunning
  <2>2. backoff' \in 0 .. Backoff /\ cadence' = cadence /\ accepted' = accepted /\ covered' = covered
    BY <1>4 DEF Finish, QueueInv, QueueTypeOK
  <2>3. CASE pending # None
    <3>1. Schedule(pending) /\ pending' = None /\ pending \in Priorities
      BY <1>4, <2>3 DEF Finish, QueueInv, QueueTypeOK, Slots
    <3>2. /\ scheduled' = pending
          /\ token' \in Nat
          /\ timers' \subseteq [token : Nat, left : Nat]
          /\ ScheduledIsArmed' /\ TokensArePast' /\ DelayCovers'
      <4> HIDE QueueAssumption
      <4>1. backoff' \in Nat BY <2>2, QueueAssumption
      <4> QED BY <2>2, <3>1, <4>1, ScheduleArms
    <3>3. QueueTypeOK' /\ ActiveIsRunning'
      BY <2>1, <2>2, <3>1, <3>2 DEF QueueInv, QueueTypeOK, Slots, ActiveIsRunning
    <3> QED BY <3>2, <3>3 DEF QueueInv
  <2>4. CASE pending = None
    <3>1. UNCHANGED <<scheduled, token, pending, timers>>
      BY <1>4, <2>4 DEF Finish
    <3>2. QueueTypeOK' /\ ActiveIsRunning'
      BY <2>1, <2>2, <2>4, <3>1 DEF QueueInv, QueueTypeOK, Slots, ActiveIsRunning
    <3>3. ScheduledIsArmed' /\ TokensArePast' /\ DelayCovers'
      BY <2>1, <3>1 DEF QueueInv, ScheduledIsArmed, TokensArePast, DelayCovers
    <3> QED BY <3>2, <3>3 DEF QueueInv
  <2> QED BY <2>3, <2>4
<1>5. ASSUME Tick PROVE QueueInv'
  <2>1. backoff \in 0 .. Backoff /\ cadence \in 0 .. Cadence
    BY DEF QueueInv, QueueTypeOK
  <2>2. /\ backoff' = Sooner(backoff) /\ cadence' = Sooner(cadence)
        /\ timers' = {[token |-> t.token, left |-> Sooner(t.left)] : t \in timers}
        /\ UNCHANGED <<scheduled, token, pending, running, active, accepted, covered>>
    BY <1>5 DEF Tick
  <2>3. backoff' \in 0 .. Backoff /\ cadence' \in 0 .. Cadence
    BY <2>1, <2>2 DEF Sooner
  <2>4. \A t \in timers : t \in [token : Nat, left : Nat]
    BY DEF QueueInv, QueueTypeOK
  <2>5. \A u \in timers' : \E t \in timers :
           u \in [token : Nat, left : Nat] /\ u.token = t.token /\ u.left = Sooner(t.left)
    <3> SUFFICES ASSUME NEW u \in timers'
                 PROVE  \E t \in timers :
                     u \in [token : Nat, left : Nat] /\ u.token = t.token /\ u.left = Sooner(t.left)
      OBVIOUS
    <3>1. PICK t \in timers : u = [token |-> t.token, left |-> Sooner(t.left)]
      BY <2>2
    <3>2. Sooner(t.left) \in Nat
      BY <2>4 DEF Sooner
    <3> QED BY <2>4, <3>1, <3>2
  <2>6. QueueTypeOK' /\ ActiveIsRunning'
    BY <2>2, <2>3, <2>5 DEF QueueInv, QueueTypeOK, Slots, ActiveIsRunning
  <2>7. ScheduledIsArmed'
    <3> SUFFICES ASSUME scheduled # None PROVE \E u \in timers' : u.token = token
      BY <2>2 DEF ScheduledIsArmed
    <3>1. PICK t \in timers : t.token = token
      BY DEF QueueInv, ScheduledIsArmed
    <3>2. [token |-> t.token, left |-> Sooner(t.left)] \in timers'
      BY <2>2, <3>1
    <3>3. [token |-> t.token, left |-> Sooner(t.left)].token = token
      BY <2>4, <3>1
    <3> QED BY <3>2, <3>3
  <2>8. TokensArePast'
    BY <2>2, <2>5 DEF QueueInv, TokensArePast
  <2>9. DelayCovers'
    <3> SUFFICES ASSUME scheduled = "automatic", NEW u \in timers', u.token = token
                 PROVE  backoff' <= u.left /\ cadence' <= u.left
      BY <2>2 DEF DelayCovers
    <3>1. PICK t \in timers : u.token = t.token /\ u.left = Sooner(t.left)
      BY <2>5
    <3>2. t.left \in Nat /\ backoff <= t.left /\ cadence <= t.left
      BY <2>4, <3>1 DEF QueueInv, DelayCovers
    <3> QED BY <2>1, <2>2, <3>1, <3>2 DEF Sooner
  <2> QED BY <2>6, <2>7, <2>8, <2>9 DEF QueueInv
<1>6. CASE UNCHANGED queueVars
  BY <1>6 DEF queueVars, QueueInv, QueueTypeOK, ActiveIsRunning, ScheduledIsArmed,
     TokensArePast, DelayCovers
<1> QED BY <1>1, <1>2, <1>3, <1>4, <1>5, <1>6 DEF QueueNext, TimerFires

LEMMA QueueInvariant == QueueSpec => []QueueInv
<1> QED BY QueueInitInv, QueueStepInv, PTL DEF QueueSpec

(* The three slots keep their shape: what is scheduled excludes a running  *)
(* render, and a request is pending only behind one.                       *)
THEOREM QueueTypeInvariant == QueueSpec => []QueueTypeOK
<1>1. QueueInv => QueueTypeOK BY DEF QueueInv
<1> QED BY <1>1, QueueInvariant, PTL

(* For any delays and any requests, no two renders overlap.                *)
THEOREM RendersAreSingleFlight == QueueSpec => []SingleFlight
<1>1. QueueInv => SingleFlight BY DEF QueueInv, ActiveIsRunning, SingleFlight
<1> QED BY <1>1, QueueInvariant, PTL

(* For any delays and any requests, a scheduled request keeps a live timer.*)
THEOREM NoLostWakeup == QueueSpec => []ScheduledIsArmed
<1>1. QueueInv => ScheduledIsArmed BY DEF QueueInv
<1> QED BY <1>1, QueueInvariant, PTL

LEMMA AutomaticStepWaits ==
    QueueInv /\ [QueueNext]_queueVars
      => [running = None /\ running' = "automatic" => backoff = 0 /\ cadence = 0]_queueVars
<1> SUFFICES ASSUME QueueInv, QueueNext, running = None, running' = "automatic"
             PROVE  backoff = 0 /\ cadence = 0
  OBVIOUS
<1> USE QueueAssumption
<1>1. PICK t \in timers : StartScheduledRequest(t)
  BY DEF QueueNext, TimerFires, Request, StaleTimer, Finish, Tick
<1>2. scheduled = "automatic" /\ t.token = token /\ t.left = 0
  BY <1>1 DEF StartScheduledRequest, CanStart
<1>3. backoff <= 0 /\ cadence <= 0
  BY <1>2 DEF QueueInv, DelayCovers
<1>4. backoff \in Nat /\ cadence \in Nat
  BY DEF QueueInv, QueueTypeOK
<1> QED BY <1>3, <1>4

(* For any backoff and cadence, an automatic render starts after both.     *)
THEOREM AutomaticRendersWait == QueueSpec => AutomaticWaits
<1> QED BY AutomaticStepWaits, QueueInvariant, PTL DEF QueueSpec, AutomaticWaits

LEMMA ManualStepKeeps ==
    QueueInv /\ [QueueNext]_queueVars
      => [ManualWaiting => ManualWaiting' \/ ManualStarts]_queueVars
<1> SUFFICES ASSUME QueueInv, QueueNext, ManualWaiting
             PROVE  ManualWaiting' \/ ManualStarts
  OBVIOUS
<1>1. scheduled = "manual" \/ pending = "manual"
  BY DEF ManualWaiting
<1>2. ASSUME NEW p \in Priorities, Request(p) PROVE ManualWaiting'
  BY <1>1, <1>2 DEF Request, Schedule, Merge, ManualWaiting
<1>3. ASSUME TimerFires PROVE ManualWaiting' \/ ManualStarts
  BY <1>1, <1>3 DEF TimerFires, StartScheduledRequest, StaleTimer, CanStart, Busy,
     ManualWaiting, ManualStarts
<1>4. ASSUME NEW outcome \in RenderOutcomes, Finish(outcome) PROVE ManualWaiting'
  BY <1>1, <1>4 DEF Finish, Schedule, ManualWaiting, QueueInv, QueueTypeOK
<1>5. ASSUME Tick PROVE ManualWaiting'
  BY <1>1, <1>5 DEF Tick, ManualWaiting
<1> QED BY <1>2, <1>3, <1>4, <1>5 DEF QueueNext

(* Whatever arrives meanwhile, a manual request waits as manual until a    *)
(* manual render starts.                                                   *)
THEOREM ManualRequestsAreKept == QueueSpec => ManualIsKept
<1> QED BY ManualStepKeeps, QueueInvariant, PTL DEF QueueSpec, ManualIsKept

-----------------------------------------------------------------------------
(* Which steps belong to whose turn.                                       *)
TurnInv ==
    /\ work.by = "nobody" => work = NoWork
    /\ work.step \in {"set aside", "install"} =>
          work.by = "refresh" /\ work.staging # None
    /\ work.step \in {"remove", "rename"} => work.staging # None
    /\ work.step \in {"remove", "rename", "print"} => work.by = "publish"
    /\ work.step = "print" => site # None

(* What is mirrored is a valid site, and nothing else is ever served.      *)
MirrorSteps == {"stage", "copy", "drop", "shift", "promote"}
MirrorInv ==
    /\ work.step \in MirrorSteps => Whole(site)
    /\ work.step \in {"drop", "shift", "promote"} => next = site
    /\ OnlyValidSitesAreServed

(* The app's fingerprint never claims pages newer than those shown.        *)
Honest(d) == d # None /\ d.print.by = "app" => d.print.pages <= d.pages
PrintInv ==
    /\ Honest(site) /\ Honest(work.staging) /\ Honest(work.backup)
    /\ asked <= source.pages

(* A refresh that no later request waits for covers what was asked.        *)
RefreshInv ==
    work.by = "refresh" =>
        /\ work.seen.by = "app"
        /\ work.seen.pages <= source.pages
        /\ pending = None => asked <= work.seen.pages
        /\ work.step \in {"set aside", "install"} => work.seen.pages <= work.staging.pages
        /\ work.step \in MirrorSteps \cup {"publish"} /\ Whole(site)
             => work.seen.pages <= site.pages

(* While nothing new is asked, publications keep what a refresh achieved.  *)
HealthyInv ==
    Idle /\ healthy =>
        /\ Whole(site) => asked <= site.pages
        /\ work.staging # None => asked <= work.staging.pages
        /\ work.step # "promote" => Whole(current) /\ asked <= current.pages

(* The inductive invariant. *)
WikiInv ==
    /\ QueueInv
    /\ WikiTypeOK
    /\ TurnInv
    /\ MirrorInv
    /\ PrintInv
    /\ RefreshInv
    /\ HealthyInv

LEMMA WikiInitInv == WikiInit => WikiInv
<1> SUFFICES ASSUME WikiInit PROVE WikiInv
  OBVIOUS
<1> USE PublicationAssumption DEF WikiInit, NoWork, NoPrint, Fingerprint
<1>1. QueueInv
  BY QueueInitInv
<1>2. WikiTypeOK
  <2>1. NoWork \in Works /\ NoWork.by = "nobody"
    BY DEF Works, Steps, Dirs, Prints
  <2>2. None \in Dirs
    BY DEF Dirs
  <2>3. QueueTypeOK /\ MaxEdits \in Nat /\ MaxPublishes \in Nat /\ MaxCrashes \in Nat
    BY <1>1 DEF QueueInv
  <2>4. {site, current, previous, next} \subseteq Dirs /\ work \in Works /\ work.by = "nobody"
    BY <2>1, <2>2
  <2>5. source \in [pages : 0 .. MaxEdits, talk : 0 .. MaxEdits]
    BY <2>3
  <2>6. asked \in 0 .. MaxEdits /\ publishes \in 0 .. MaxPublishes /\ crashes \in 0 .. MaxCrashes
    BY <2>3
  <2>7. healthy \in BOOLEAN
    OBVIOUS
  <2> HIDE DEF WikiInit, NoWork, NoPrint, Fingerprint
  <2> QED BY <2>3, <2>4, <2>5, <2>6, <2>7 DEF WikiTypeOK
<1>3. TurnInv /\ MirrorInv /\ PrintInv /\ RefreshInv /\ HealthyInv
  BY DEF TurnInv, MirrorInv, MirrorSteps, PrintInv, RefreshInv, HealthyInv, Honest,
     OnlyValidSitesAreServed
<1> QED BY <1>1, <1>2, <1>3 DEF WikiInv

(* Every step but a crash is a step of the render queue or leaves it alone. *)
LEMMA QueueFollows ==
    ASSUME WikiNext PROVE [QueueNext]_queueVars \/ Crash
<1>1. ASSUME NEW outcome \in RenderOutcomes, End(outcome) PROVE [QueueNext]_queueVars
  BY <1>1 DEF End, QueueNext
<1>2. ASSUME Fail PROVE [QueueNext]_queueVars
  BY <1>1, <1>2 DEF Fail, RenderOutcomes
<1>3. ASSUME RequestRefresh \/ QueueStep PROVE [QueueNext]_queueVars
  BY <1>3 DEF RequestRefresh, QueueStep, QueueNext
<1>4. ASSUME PromoteNext PROVE [QueueNext]_queueVars
  BY <1>1, <1>2, <1>4 DEF PromoteNext, RenderOutcomes
<1>5. ASSUME RefreshRender \/ InstallSite \/ CoreRender \/ WriteFingerprint
             \/ ValidateSite \/ CopySite
      PROVE [QueueNext]_queueVars
  BY <1>2, <1>5 DEF RefreshRender, InstallSite, CoreRender, WriteFingerprint, ValidateSite, CopySite
<1>6. ASSUME NEW part \in {"pages", "talk"}, Edit(part) PROVE [QueueNext]_queueVars
  BY <1>6 DEF Edit
<1>7. ASSUME BeginRefresh \/ SetAsideSite \/ BeginPublish \/ CoreRemove \/ CoreRename
             \/ StageSite \/ DropPrevious \/ ShiftCurrent \/ StartLocalWeb
      PROVE [QueueNext]_queueVars
  BY <1>7 DEF BeginRefresh, SetAsideSite, BeginPublish, CoreRemove, CoreRename, StageSite,
     DropPrevious, ShiftCurrent, StartLocalWeb
<1> QED BY <1>3, <1>4, <1>5, <1>6, <1>7 DEF WikiNext, Mirror

LEMMA QueueInvKept ==
    ASSUME QueueInv, WikiNext PROVE QueueInv'
<1>1. CASE Crash
  BY <1>1, QueueAssumption DEF Crash, QueueInv, QueueTypeOK, ActiveIsRunning,
     ScheduledIsArmed, TokensArePast, DelayCovers, Slots, Priorities
<1>2. CASE [QueueNext]_queueVars
  BY <1>2, QueueStepInv
<1> QED BY <1>1, <1>2, QueueFollows

(* What ending a turn leaves behind.                                       *)
LEMMA EndEffect ==
    ASSUME WikiInv, NEW outcome \in RenderOutcomes, End(outcome)
    PROVE  /\ work' = NoWork /\ asked' = asked /\ healthy' \in BOOLEAN
           /\ healthy' => outcome # "failed"
           /\ work.by # "refresh" => UNCHANGED queueVars /\ (healthy' => healthy)
           /\ work.by = "refresh" => running' = None /\ (Idle' => pending = None)
<1>1. healthy \in BOOLEAN
  BY DEF WikiInv, WikiTypeOK
<1>2. work.by = "refresh" => running' = None /\ (Idle' => pending = None)
  BY DEF End, Finish, Schedule, Idle
<1> QED BY <1>1, <1>2, Zenon DEF End

LEMMA FailEffect ==
    ASSUME WikiInv, Fail
    PROVE  work' = NoWork /\ asked' = asked /\ healthy' = FALSE
<1> QED BY EndEffect DEF Fail, RenderOutcomes

LEMMA NoWorkTyped == NoWork \in Works /\ NoWork.by = "nobody" /\ NoWork.step = "idle"
                     /\ NoWork.staging = None /\ NoWork.backup = None
BY DEF NoWork, NoPrint, Fingerprint, Works, Steps, Dirs, Prints

LEMMA GoToEffect ==
    ASSUME work \in Works, NEW step \in Steps, GoTo(step)
    PROVE  /\ work' \in Works /\ work'.step = step /\ work'.by = work.by
           /\ work'.seen = work.seen /\ work'.staging = work.staging
           /\ work'.backup = work.backup
BY DEF GoTo, Works

LEMMA Rendered ==
    ASSUME WikiInv, NEW whole \in BOOLEAN, NEW print \in Prints
    PROVE  /\ Site(whole, print) \in Sites /\ Site(whole, print) # None
           /\ Site(whole, print).pages = source.pages
           /\ Site(whole, print).whole = whole /\ Site(whole, print).print = print
<1>1. source.pages \in Nat /\ source.talk \in Nat
  BY PublicationAssumption DEF WikiInv, WikiTypeOK
<1> QED BY <1>1, PublicationAssumption DEF Site, Sites

LEMMA PrintsTyped ==
    ASSUME WikiInv
    PROVE  /\ AppPrint \in Prints /\ AppPrint.by = "app" /\ AppPrint.pages = source.pages
           /\ CorePrint \in Prints /\ CorePrint.by = "core"
           /\ NoPrint \in Prints /\ NoPrint.by = "none"
<1>1. source.pages \in Nat /\ source.talk \in Nat
  BY PublicationAssumption DEF WikiInv, WikiTypeOK
<1> QED BY <1>1 DEF AppPrint, CorePrint, NoPrint, Fingerprint, Prints

LEMMA TypesKept ==
    ASSUME WikiInv, WikiNext, QueueInv' PROVE WikiTypeOK'
<1> USE NoWorkTyped DEF WikiTypeOK, dirs, counters, observers
<1>1. /\ QueueTypeOK' /\ work \in Works /\ {site, current, previous, next} \subseteq Dirs
      /\ work.by = "refresh" => running # None
      /\ asked \in 0 .. MaxEdits /\ healthy \in BOOLEAN
      /\ publishes \in 0 .. MaxPublishes /\ crashes \in 0 .. MaxCrashes
  BY DEF QueueInv, WikiInv
<1>2. /\ MaxEdits \in Nat /\ MaxPublishes \in Nat /\ MaxCrashes \in Nat
      /\ source \in [pages : 0 .. MaxEdits, talk : 0 .. MaxEdits]
  BY PublicationAssumption DEF WikiInv
<1>3. Rest \in Dirs /\ None \in Dirs
  BY PrintsTyped DEF Rest, Dirs, Sites
<1>4. work.staging \in Dirs /\ work.backup \in Dirs
  BY <1>1 DEF Works
<1>5. ASSUME Fail PROVE work' = NoWork /\ asked' = asked /\ healthy' = FALSE
  BY <1>5, FailEffect
<1>6. ASSUME UNCHANGED queueVars PROVE running' = running
  BY <1>6 DEF queueVars
<1>7. ASSUME NEW step \in Steps, GoTo(step) PROVE work' \in Works /\ work'.by = work.by
  BY <1>1, <1>7, GoToEffect
<1>8. {"publish", "rename", "print", "stage", "copy", "drop", "shift", "promote"} \subseteq Steps
  BY DEF Steps
<1>9. ASSUME NEW part \in {"pages", "talk"}, Edit(part) PROVE WikiTypeOK'
  BY <1>1, <1>2, <1>6, <1>9 DEF Edit
<1>10. CASE RequestRefresh
  BY <1>1, <1>2, <1>10 DEF RequestRefresh, Request
<1>11. CASE QueueStep
  BY <1>1, <1>2, <1>11 DEF QueueStep, wikiVars, TimerFires, StartScheduledRequest, StaleTimer,
     CanStart, Busy, Tick
<1>12. CASE BeginRefresh
  <2>1. work' \in Works /\ running' = running /\ running # None
    BY <1>6, <1>12, PrintsTyped DEF BeginRefresh, Works, Steps, NoWork
  <2> QED BY <1>1, <1>2, <1>3, <1>12, <2>1 DEF BeginRefresh
<1>13. CASE RefreshRender
  <2>1. Site(TRUE, work.seen) \in Dirs
    BY <1>1, Rendered DEF Works, Dirs
  <2>2. ASSUME work' = [work EXCEPT !.step = "set aside", !.staging = Site(TRUE, work.seen)]
        PROVE  work' \in Works /\ work'.by = work.by
    BY <1>1, <2>1, <2>2 DEF Works, Steps
  <2> QED BY <1>1, <1>2, <1>5, <1>6, <1>13, <2>2 DEF RefreshRender
<1>14. CASE SetAsideSite
  <2>1. work' \in Works /\ work'.by = work.by
    BY <1>1, <1>14 DEF SetAsideSite, Works, Steps
  <2> QED BY <1>1, <1>2, <1>3, <1>6, <1>14, <2>1 DEF SetAsideSite
<1>15. CASE InstallSite
  BY <1>1, <1>2, <1>4, <1>5, <1>6, <1>7, <1>8, <1>15 DEF InstallSite
<1>16. CASE BeginPublish
  <2>1. work' \in Works /\ work'.by = "publish"
    BY <1>16 DEF BeginPublish, Works, Steps, NoWork
  <2> QED BY <1>1, <1>2, <1>6, <1>16, <2>1 DEF BeginPublish
<1>17. CASE CoreRender
  <2>1. ASSUME NEW whole \in BOOLEAN,
               work' = [work EXCEPT !.step = "remove", !.staging = Site(whole, NoPrint)]
        PROVE  work' \in Works /\ work'.by = work.by
    <3>1. Site(whole, NoPrint) \in Dirs
      BY Rendered, PrintsTyped DEF Dirs
    <3> QED BY <1>1, <2>1, <3>1 DEF Works, Steps
  <2> QED BY <1>1, <1>2, <1>5, <1>6, <1>17, <2>1 DEF CoreRender
<1>18. CASE CoreRemove
  BY <1>1, <1>2, <1>3, <1>6, <1>7, <1>8, <1>18 DEF CoreRemove
<1>19. CASE CoreRename
  BY <1>1, <1>2, <1>4, <1>6, <1>7, <1>8, <1>19 DEF CoreRename
<1>20. CASE WriteFingerprint
  <2>1. site' \in Dirs
    <3>1. site # None
      BY <1>20 DEF WriteFingerprint, WikiInv, TurnInv
    <3> QED BY <1>1, <1>20, <3>1, PrintsTyped DEF WriteFingerprint, Dirs, Sites
  <2> QED BY <1>1, <1>2, <1>5, <1>6, <1>7, <1>8, <1>20, <2>1 DEF WriteFingerprint
<1>21. CASE ValidateSite
  BY <1>1, <1>2, <1>5, <1>6, <1>7, <1>8, <1>21 DEF ValidateSite
<1>22. CASE StageSite
  <2>1. next' \in Dirs
    <3>1. site # None
      BY <1>22 DEF StageSite, WikiInv, MirrorInv, MirrorSteps, Whole
    <3> QED BY <1>1, <1>22, <3>1 DEF StageSite, Dirs, Sites
  <2> QED BY <1>1, <1>2, <1>6, <1>7, <1>8, <1>22, <2>1 DEF StageSite
<1>23. CASE CopySite
  BY <1>1, <1>2, <1>5, <1>6, <1>7, <1>8, <1>23 DEF CopySite
<1>24. CASE DropPrevious
  BY <1>1, <1>2, <1>3, <1>6, <1>7, <1>8, <1>24 DEF DropPrevious
<1>25. CASE ShiftCurrent
  BY <1>1, <1>2, <1>3, <1>6, <1>7, <1>8, <1>25 DEF ShiftCurrent
<1>26. CASE PromoteNext
  <2>1. work' = NoWork /\ asked' = asked /\ healthy' \in BOOLEAN
    BY <1>1, <1>5, <1>26, EndEffect DEF PromoteNext, RenderOutcomes
  <2> QED BY <1>1, <1>2, <1>3, <1>26, <2>1 DEF PromoteNext
<1>27. CASE StartLocalWeb
  BY <1>1, <1>2, <1>3, <1>6, <1>27 DEF StartLocalWeb
<1>28. CASE Crash
  <2>1. work' \in Works /\ ~(work'.by = "refresh")
    BY <1>28 DEF Crash
  <2>2. asked' \in 0 .. MaxEdits /\ crashes' \in 0 .. MaxCrashes
    BY <1>1, <1>2, <1>28 DEF Crash
  <2>3. UNCHANGED <<source, site, current, previous, next, publishes>>
    BY <1>28 DEF Crash
  <2>4. healthy' \in BOOLEAN
    BY <1>28 DEF Crash
  <2> HIDE NoWorkTyped
  <2> QED BY <1>1, <1>2, <2>1, <2>2, <2>3, <2>4
<1> QED BY <1>9, <1>10, <1>11, <1>12, <1>13, <1>14, <1>15, <1>16, <1>17, <1>18, <1>19, <1>20,
           <1>21, <1>22, <1>23, <1>24, <1>25, <1>26, <1>27, <1>28 DEF WikiNext, Mirror

(* Whose turn it is bounds what it does.                                   *)
LEMMA TurnKept ==
    ASSUME WikiInv, WikiNext PROVE TurnInv'
<1> USE NoWorkTyped DEF TurnInv
<1>1. TurnInv /\ work \in Works
  BY DEF WikiInv, WikiTypeOK
<1>2. ASSUME work' = NoWork PROVE TurnInv'
  BY <1>2
<1>3. ASSUME NEW step \in Steps, GoTo(step)
      PROVE  work'.step = step /\ work'.by = work.by /\ work'.staging = work.staging
  BY <1>1, <1>3, GoToEffect
<1>4. {"publish", "rename", "print", "stage", "copy", "drop", "shift", "promote"} \subseteq Steps
  BY DEF Steps
<1>5. ASSUME Fail \/ Crash PROVE TurnInv'
  BY <1>2, <1>5, FailEffect DEF Crash
<1>6. ASSUME work' = work, work.step = "print" => site' = site PROVE TurnInv'
  BY <1>1, <1>6
<1>7. CASE BeginRefresh
  BY <1>7 DEF BeginRefresh, NoWork
<1>8. CASE RefreshRender
  <2>1. CASE work' = [work EXCEPT !.step = "set aside", !.staging = Site(TRUE, work.seen)]
    <3>1. Site(TRUE, work.seen) # None
      BY <1>1, Rendered DEF Works
    <3> QED BY <1>1, <1>8, <2>1, <3>1 DEF RefreshRender, Works
  <2> QED BY <1>5, <1>8, <2>1 DEF RefreshRender
<1>9. CASE SetAsideSite
  BY <1>1, <1>9 DEF SetAsideSite, Works
<1>10. CASE InstallSite
  BY <1>1, <1>3, <1>4, <1>5, <1>10 DEF InstallSite
<1>11. CASE BeginPublish
  BY <1>11 DEF BeginPublish, NoWork
<1>12. CASE CoreRender
  <2>1. ASSUME NEW whole \in BOOLEAN,
               work' = [work EXCEPT !.step = "remove", !.staging = Site(whole, NoPrint)]
        PROVE  TurnInv'
    <3>1. Site(whole, NoPrint) # None
      BY Rendered, PrintsTyped
    <3> QED BY <1>1, <1>12, <2>1, <3>1 DEF CoreRender, Works
  <2> QED BY <1>5, <1>12, <2>1 DEF CoreRender
<1>13. CASE CoreRemove
  BY <1>1, <1>3, <1>4, <1>13 DEF CoreRemove
<1>14. CASE CoreRename
  BY <1>1, <1>3, <1>4, <1>14 DEF CoreRename
<1>15. CASE WriteFingerprint
  BY <1>1, <1>3, <1>4, <1>5, <1>15 DEF WriteFingerprint
<1>16. CASE Mirror
  <2>1. ASSUME End("published") \/ End("skipped") PROVE TurnInv'
    BY <1>2, <2>1 DEF End
  <2> QED BY <1>1, <1>3, <1>4, <1>5, <1>16, <2>1
          DEF Mirror, ValidateSite, StageSite, CopySite, DropPrevious, ShiftCurrent, PromoteNext
<1>17. CASE \/ \E part \in {"pages", "talk"} : Edit(part)
            \/ RequestRefresh \/ QueueStep \/ StartLocalWeb
  BY <1>6, <1>17 DEF Edit, RequestRefresh, QueueStep, StartLocalWeb, wikiVars, dirs
<1> QED BY <1>5, <1>7, <1>8, <1>9, <1>10, <1>11, <1>12, <1>13, <1>14, <1>15, <1>16, <1>17
        DEF WikiNext

(* Only what is whole reaches the mirror.                                  *)
LEMMA MirrorKept ==
    ASSUME WikiInv, WikiNext PROVE MirrorInv'
<1> USE NoWorkTyped DEF MirrorInv, MirrorSteps, Whole
<1>1. MirrorInv /\ work \in Works /\ TurnInv
  BY DEF WikiInv, WikiTypeOK
<1>2. ASSUME work' = NoWork, UNCHANGED <<current, previous>> PROVE MirrorInv'
  BY <1>1, <1>2 DEF OnlyValidSitesAreServed
<1>3. ASSUME NEW step \in Steps, GoTo(step) PROVE work'.step = step
  BY <1>1, <1>3, GoToEffect
<1>4. {"publish", "rename", "print", "stage", "copy", "drop", "shift", "promote"} \subseteq Steps
  BY DEF Steps
<1>5. ASSUME Fail, UNCHANGED <<current, previous>> PROVE MirrorInv'
  BY <1>2, <1>5, FailEffect
<1>6. ASSUME work'.step \notin MirrorSteps, UNCHANGED <<current, previous>> PROVE MirrorInv'
  BY <1>1, <1>6 DEF OnlyValidSitesAreServed
<1>7. CASE BeginRefresh
  BY <1>1, <1>7 DEF BeginRefresh, NoWork, OnlyValidSitesAreServed
<1>8. CASE RefreshRender
  BY <1>1, <1>5, <1>6, <1>8 DEF RefreshRender, Works, dirs
<1>9. CASE SetAsideSite
  BY <1>1, <1>6, <1>9 DEF SetAsideSite, Works
<1>10. CASE InstallSite
  BY <1>3, <1>4, <1>5, <1>6, <1>10 DEF InstallSite
<1>11. CASE BeginPublish
  BY <1>6, <1>11 DEF BeginPublish, NoWork, dirs
<1>12. CASE CoreRender
  BY <1>1, <1>5, <1>6, <1>12 DEF CoreRender, Works, dirs
<1>13. CASE CoreRemove \/ CoreRename \/ WriteFingerprint
  BY <1>3, <1>4, <1>5, <1>6, <1>13 DEF CoreRemove, CoreRename, WriteFingerprint
<1>14. CASE ValidateSite
  BY <1>1, <1>3, <1>4, <1>5, <1>14
  DEF ValidateSite, Publishable, dirs, OnlyValidSitesAreServed
<1>15. CASE StageSite \/ CopySite
  BY <1>1, <1>3, <1>4, <1>5, <1>15 DEF StageSite, CopySite, OnlyValidSitesAreServed
<1>16. CASE DropPrevious \/ ShiftCurrent
  BY <1>1, <1>3, <1>4, <1>16 DEF DropPrevious, ShiftCurrent, OnlyValidSitesAreServed
<1>17. CASE PromoteNext
  <2>1. work' = NoWork
    BY <1>17, FailEffect DEF PromoteNext, End
  <2> QED BY <1>1, <1>2, <1>17, <2>1 DEF PromoteNext, OnlyValidSitesAreServed
<1>18. CASE Crash
  BY <1>2, <1>18 DEF Crash, dirs
<1>19. CASE StartLocalWeb
  BY <1>1, <1>19 DEF StartLocalWeb, OnlyValidSitesAreServed
<1>20. CASE \/ \E part \in {"pages", "talk"} : Edit(part)
            \/ RequestRefresh \/ QueueStep
  BY <1>1, <1>20 DEF Edit, RequestRefresh, QueueStep, wikiVars, dirs, OnlyValidSitesAreServed
<1> QED BY <1>7, <1>8, <1>9, <1>10, <1>11, <1>12, <1>13, <1>14, <1>15, <1>16, <1>17, <1>18,
           <1>19, <1>20 DEF WikiNext, Mirror

(* Sources only get newer.                                                 *)
LEMMA SourcesGrow ==
    ASSUME WikiInv, NEW part \in {"pages", "talk"}, Edit(part)
    PROVE  source'.pages \in Nat /\ source.pages <= source'.pages
<1>1. source \in [pages : Nat, talk : Nat]
  BY PublicationAssumption DEF WikiInv, WikiTypeOK
<1> QED BY <1>1 DEF Edit

(* Fingerprints stay honest.                                               *)
LEMMA PrintKept ==
    ASSUME WikiInv, WikiNext PROVE PrintInv'
<1> USE NoWorkTyped DEF PrintInv, Honest
<1>1. PrintInv /\ work \in Works /\ TurnInv /\ RefreshInv /\ {site, next} \subseteq Dirs
  BY DEF WikiInv, WikiTypeOK
<1>2. source.pages \in Nat /\ source.talk \in Nat /\ asked \in Nat
  BY PublicationAssumption DEF WikiInv, WikiTypeOK
<1>3. ASSUME NEW step \in Steps, GoTo(step)
      PROVE  work'.staging = work.staging /\ work'.backup = work.backup
  BY <1>1, <1>3, GoToEffect
<1>4. {"publish", "rename", "print", "stage", "copy", "drop", "shift", "promote"} \subseteq Steps
  BY DEF Steps
<1>5. ASSUME work' = NoWork, Honest(site'), asked' = asked, source' = source PROVE PrintInv'
  BY <1>1, <1>5
<1>6. ASSUME Fail, Honest(site'), source' = source PROVE PrintInv'
  BY <1>5, <1>6, FailEffect
<1>7. ASSUME work'.staging \in {work.staging, None}, work'.backup \in {work.backup, None},
             site' \in {site, None}, UNCHANGED <<source, observers>>
      PROVE  PrintInv'
  BY <1>1, <1>7 DEF observers
<1>8. ASSUME NEW part \in {"pages", "talk"}, Edit(part) PROVE PrintInv'
  <2>1. source.pages <= source'.pages /\ source'.pages \in Nat
    BY <1>8, SourcesGrow
  <2> QED BY <1>1, <1>2, <1>8, <2>1 DEF Edit, dirs, observers
<1>9. CASE RequestRefresh
  BY <1>1, <1>2, <1>9 DEF RequestRefresh, dirs
<1>10. CASE QueueStep \/ StartLocalWeb
  BY <1>7, <1>10 DEF QueueStep, StartLocalWeb, wikiVars, dirs
<1>11. CASE BeginRefresh
  BY <1>1, <1>11 DEF BeginRefresh, NoWork, observers
<1>12. CASE RefreshRender
  <2>1. work.seen \in Prints /\ work.by = "refresh"
    BY <1>1, <1>12 DEF Works, RefreshRender
  <2>2. Honest(Site(TRUE, work.seen))
    BY <1>1, <2>1, Rendered DEF RefreshInv
  <2>3. CASE work' = [work EXCEPT !.step = "set aside", !.staging = Site(TRUE, work.seen)]
             /\ UNCHANGED observers
    BY <1>1, <1>12, <2>2, <2>3 DEF RefreshRender, Works, dirs, observers
  <2> QED BY <1>1, <1>6, <1>12, <2>3 DEF RefreshRender, dirs
<1>13. CASE SetAsideSite
  BY <1>1, <1>13 DEF SetAsideSite, Works, observers
<1>14. CASE InstallSite
  BY <1>1, <1>3, <1>4, <1>6, <1>14 DEF InstallSite, observers
<1>15. CASE BeginPublish
  BY <1>7, <1>15 DEF BeginPublish, NoWork, dirs
<1>16. CASE CoreRender
  <2>1. ASSUME NEW whole \in BOOLEAN, UNCHANGED observers,
               work' = [work EXCEPT !.step = "remove", !.staging = Site(whole, NoPrint)]
        PROVE  PrintInv'
    <3>1. Honest(Site(whole, NoPrint))
      BY Rendered, PrintsTyped
    <3> QED BY <1>1, <1>16, <2>1, <3>1 DEF CoreRender, Works, dirs, observers
  <2> QED BY <1>1, <1>6, <1>16, <2>1 DEF CoreRender, dirs
<1>17. CASE CoreRemove
  BY <1>3, <1>4, <1>7, <1>17 DEF CoreRemove
<1>18. CASE CoreRename
  BY <1>1, <1>3, <1>4, <1>18 DEF CoreRename, observers
<1>19. CASE WriteFingerprint
  <2>1. Honest(site')
    BY <1>1, <1>19, PrintsTyped DEF WriteFingerprint, TurnInv, Dirs, Sites
  <2> QED BY <1>1, <1>3, <1>4, <1>6, <1>19, <2>1 DEF WriteFingerprint, observers
<1>20. CASE ValidateSite \/ StageSite \/ CopySite \/ DropPrevious \/ ShiftCurrent
  BY <1>1, <1>3, <1>4, <1>6, <1>7, <1>20
  DEF ValidateSite, StageSite, CopySite, DropPrevious, ShiftCurrent, dirs
<1>21. CASE PromoteNext
  <2>1. work' = NoWork /\ asked' = asked
    BY <1>21, FailEffect DEF PromoteNext, End
  <2> QED BY <1>1, <1>5, <1>21, <2>1 DEF PromoteNext
<1>22. CASE Crash
  BY <1>1, <1>2, <1>22 DEF Crash, dirs
<1> QED BY <1>8, <1>9, <1>10, <1>11, <1>12, <1>13, <1>14, <1>15, <1>16, <1>17, <1>18, <1>19,
           <1>20, <1>21, <1>22 DEF WikiNext, Mirror

(* A refresh covers what was asked before it began.                        *)
LEMMA RefreshKept ==
    ASSUME WikiInv, WikiNext PROVE RefreshInv'
<1>1. /\ RefreshInv /\ TurnInv /\ PrintInv /\ work \in Works /\ {site, next} \subseteq Dirs
      /\ work.by = "refresh" => running # None
  BY DEF WikiInv, WikiTypeOK
<1>2. source.pages \in Nat /\ asked \in Nat
  BY PublicationAssumption DEF WikiInv, WikiTypeOK
<1> USE NoWorkTyped DEF RefreshInv, MirrorSteps, Whole
<1>3. ASSUME NEW step \in Steps, GoTo(step)
      PROVE  /\ work'.step = step /\ work'.by = work.by /\ work'.seen = work.seen
             /\ work'.staging = work.staging
  BY <1>1, <1>3, GoToEffect
<1>4. {"publish", "rename", "print", "stage", "copy", "drop", "shift", "promote"} \subseteq Steps
  BY DEF Steps
<1>5. ASSUME work'.by # "refresh" PROVE RefreshInv'
  BY <1>5
<1>6. ASSUME Fail \/ Crash PROVE RefreshInv'
  BY <1>5, <1>6, FailEffect DEF Crash
<1>7. ASSUME NEW part \in {"pages", "talk"}, Edit(part) PROVE RefreshInv'
  <2>1. source.pages <= source'.pages /\ source'.pages \in Nat
    BY <1>7, SourcesGrow
  <2>2. work.seen.pages \in Nat
    BY <1>1 DEF Works, Prints
  <2>3. UNCHANGED <<work, site, asked, pending>>
    BY <1>7 DEF Edit, dirs, observers, queueVars
  <2>4. work.by = "refresh" => work.seen.pages <= source'.pages
    <3>1. work.by = "refresh" => work.seen.pages <= source.pages
      BY <1>1
    <3> QED BY <1>2, <2>1, <2>2, <3>1
  <2> QED BY <1>1, <2>3, <2>4
<1>8. CASE RequestRefresh
  <2>1. work.by = "refresh" => pending' # None
    BY <1>1, <1>8, QueueAssumption DEF RequestRefresh, Request, Busy, Merge, Priorities
  <2> QED BY <1>1, <1>8, <2>1 DEF RequestRefresh, dirs
<1>9. CASE QueueStep
  <2>1. pending' = pending
    BY <1>9 DEF QueueStep, TimerFires, StartScheduledRequest, StaleTimer, Tick
  <2> QED BY <1>1, <1>9, <2>1 DEF QueueStep, wikiVars, dirs, observers
<1>10. CASE BeginRefresh
  <2>1. work'.seen = AppPrint /\ work'.step \in {"publish", "render"}
        /\ (work'.step = "publish" => Unchanged)
    BY <1>10 DEF BeginRefresh, NoWork
  <2>2. Unchanged => source.pages <= site.pages
    BY <1>1, PrintsTyped DEF Unchanged, PrintInv, Honest
  <2>3. work'.seen.by = "app" /\ work'.seen.pages = source.pages
    BY <2>1, PrintsTyped
  <2>4. asked <= source.pages /\ UNCHANGED <<asked, source, site>>
    BY <1>1, <1>10 DEF PrintInv, BeginRefresh, observers
  <2>5. pending' = None => asked' <= work'.seen.pages
    BY <2>3, <2>4
  <2>6. work'.step = "publish" => work'.seen.pages <= site'.pages
    BY <2>1, <2>2, <2>3, <2>4
  <2>7. work'.seen.pages <= source'.pages
    BY <1>2, <2>3, <2>4
  <2> HIDE NoWorkTyped
  <2> QED BY <2>1, <2>3, <2>5, <2>6, <2>7
<1>11. CASE RefreshRender
  <2>1. CASE work' = [work EXCEPT !.step = "set aside", !.staging = Site(TRUE, work.seen)]
             /\ UNCHANGED <<queueVars, observers>>
    <3>1. Site(TRUE, work.seen).pages = source.pages
      BY <1>1, Rendered DEF Works
    <3> QED BY <1>1, <1>11, <2>1, <3>1 DEF RefreshRender, Works, dirs, observers, queueVars
  <2> QED BY <1>6, <1>11, <2>1 DEF RefreshRender
<1>12. CASE SetAsideSite
  <2>1. /\ work'.by = work.by /\ work'.seen = work.seen /\ work'.staging = work.staging
        /\ work'.step = "install"
    BY <1>1, <1>12 DEF SetAsideSite, Works
  <2> QED BY <1>1, <1>12, <2>1 DEF SetAsideSite, observers, queueVars
<1>13. CASE InstallSite
  <2>1. CASE site' = work.staging /\ GoTo("publish") /\ UNCHANGED <<queueVars, observers>>
    BY <1>1, <1>3, <1>4, <1>13, <2>1 DEF InstallSite, observers, queueVars
  <2> QED BY <1>6, <1>13, <2>1 DEF InstallSite
<1>14. CASE BeginPublish \/ CoreRender
  BY <1>1, <1>5, <1>6, <1>14 DEF BeginPublish, CoreRender, NoWork, Works
<1>15. CASE CoreRemove \/ CoreRename \/ WriteFingerprint
  BY <1>1, <1>3, <1>4, <1>5, <1>6, <1>15 DEF CoreRemove, CoreRename, WriteFingerprint, TurnInv
<1>16. CASE ValidateSite
  <2>1. CASE GoTo("stage") /\ UNCHANGED <<queueVars, observers>>
    BY <1>1, <1>3, <1>4, <1>16, <2>1 DEF ValidateSite, dirs, observers, queueVars
  <2> QED BY <1>6, <1>16, <2>1 DEF ValidateSite
<1>17. CASE StageSite
  BY <1>1, <1>3, <1>4, <1>17 DEF StageSite, observers, queueVars
<1>18. CASE CopySite
  <2>1. CASE GoTo("drop") /\ UNCHANGED <<queueVars, observers>>
    BY <1>1, <1>3, <1>4, <1>18, <2>1 DEF CopySite, observers, queueVars
  <2> QED BY <1>6, <1>18, <2>1 DEF CopySite
<1>19. CASE DropPrevious \/ ShiftCurrent
  BY <1>1, <1>3, <1>4, <1>19 DEF DropPrevious, ShiftCurrent, observers, queueVars
<1>20. CASE PromoteNext
  <2>1. work' = NoWork
    BY <1>20, FailEffect DEF PromoteNext, End
  <2> QED BY <1>5, <2>1
<1>21. CASE StartLocalWeb
  BY <1>1, <1>21 DEF StartLocalWeb, observers, queueVars
<1> QED BY <1>6, <1>7, <1>8, <1>9, <1>10, <1>11, <1>12, <1>13, <1>14, <1>15, <1>16, <1>17, <1>18,
           <1>19, <1>20, <1>21 DEF WikiNext, Mirror

(* What the browser sees keeps covering what was asked.                    *)
LEMMA HealthyKept ==
    ASSUME WikiInv, WikiNext PROVE HealthyInv'
<1> USE NoWorkTyped DEF HealthyInv, Whole
<1>1. /\ HealthyInv /\ RefreshInv /\ TurnInv /\ MirrorInv /\ PrintInv /\ work \in Works
      /\ {site, current, next} \subseteq Dirs
      /\ work.by = "refresh" => running # None
  BY DEF WikiInv, WikiTypeOK
<1>2. source.pages \in Nat /\ asked \in Nat
  BY PublicationAssumption DEF WikiInv, WikiTypeOK
<1>3. ASSUME NEW step \in Steps, GoTo(step)
      PROVE  work'.step = step /\ work'.by = work.by /\ work'.staging = work.staging
  BY <1>1, <1>3, GoToEffect
<1>4. {"publish", "rename", "print", "stage", "copy", "drop", "shift", "promote"} \subseteq Steps
  BY DEF Steps
<1>5. ASSUME Fail \/ Crash PROVE HealthyInv'
  BY <1>5, FailEffect DEF Crash
<1>6. ASSUME UNCHANGED queueVars PROVE Idle' = Idle
  BY <1>6 DEF queueVars, Idle
<1>7. work.by = "refresh" => ~Idle
  BY <1>1 DEF Idle
<1>8. ASSUME NEW part \in {"pages", "talk"}, Edit(part) PROVE HealthyInv'
  BY <1>1, <1>6, <1>8 DEF Edit, dirs, observers
<1>9. CASE RequestRefresh
  <2>1. ~Idle'
    BY <1>1, <1>9, QueueAssumption
    DEF RequestRefresh, Request, Busy, Merge, Schedule, Priorities, Idle
  <2> QED BY <2>1
<1>10. CASE QueueStep
  <2>1. Idle' => Idle
    BY <1>10 DEF QueueStep, TimerFires, StartScheduledRequest, CanStart, StaleTimer, Tick, Idle
  <2> QED BY <1>1, <1>10, <2>1 DEF QueueStep, wikiVars, dirs, observers
<1>11. CASE BeginRefresh
  <2>1. ~Idle'
    BY <1>6, <1>11 DEF BeginRefresh, Idle
  <2> QED BY <2>1
<1>12. CASE RefreshRender \/ SetAsideSite \/ InstallSite
  <2>1. Fail \/ ~Idle'
    BY <1>1, <1>6, <1>7, <1>12 DEF RefreshRender, SetAsideSite, InstallSite, TurnInv
  <2> QED BY <1>5, <2>1
<1>13. CASE BeginPublish
  <2>1. work.step # "promote" /\ work'.step # "promote" /\ work'.staging = None
    BY <1>13 DEF BeginPublish, Free, NoWork
  <2> QED BY <1>1, <1>6, <1>13, <2>1 DEF BeginPublish, dirs, observers
<1>14. CASE CoreRender
  <2>1. ASSUME NEW whole \in BOOLEAN, UNCHANGED <<queueVars, observers>>,
               work' = [work EXCEPT !.step = "remove", !.staging = Site(whole, NoPrint)]
        PROVE  HealthyInv'
    <3>1. Site(whole, NoPrint).pages = source.pages
      BY Rendered, PrintsTyped
    <3>2. work.step # "promote" /\ work'.step # "promote" /\ work'.staging = Site(whole, NoPrint)
      BY <1>1, <1>14, <2>1 DEF CoreRender, Works
    <3> QED BY <1>1, <1>6, <1>14, <2>1, <3>1, <3>2 DEF CoreRender, PrintInv, dirs, observers
  <2> QED BY <1>5, <1>14, <2>1 DEF CoreRender
<1>15. CASE CoreRemove \/ CoreRename
  BY <1>1, <1>3, <1>4, <1>6, <1>15 DEF CoreRemove, CoreRename, observers
<1>16. CASE WriteFingerprint
  <2>1. site # None /\ site'.pages = site.pages /\ (Whole(site)' => Whole(site))
    BY <1>1, <1>16 DEF WriteFingerprint, TurnInv, Dirs, Sites
  <2>2. CASE GoTo("publish") /\ UNCHANGED <<queueVars, observers>>
    BY <1>1, <1>3, <1>4, <1>6, <1>16, <2>1, <2>2 DEF WriteFingerprint, observers
  <2> QED BY <1>5, <1>16, <2>2 DEF WriteFingerprint
<1>17. CASE ValidateSite
  <2>1. CASE GoTo("stage") /\ UNCHANGED <<queueVars, observers>>
    BY <1>1, <1>3, <1>4, <1>6, <1>17, <2>1 DEF ValidateSite, dirs, observers
  <2> QED BY <1>5, <1>17, <2>1 DEF ValidateSite
<1>18. CASE StageSite \/ CopySite \/ DropPrevious
  <2>1. Fail \/ /\ \E step \in {"copy", "drop", "shift"} : GoTo(step)
                /\ UNCHANGED <<queueVars, observers, site, current>>
    BY <1>18 DEF StageSite, CopySite, DropPrevious
  <2>2. work.step # "promote"
    BY <1>18 DEF StageSite, CopySite, DropPrevious
  <2> QED BY <1>1, <1>3, <1>4, <1>5, <1>6, <2>1, <2>2 DEF observers
<1>19. CASE ShiftCurrent
  BY <1>1, <1>3, <1>4, <1>6, <1>19 DEF ShiftCurrent, observers
<1>20. CASE PromoteNext
  <2>1. SUFFICES ASSUME ~Fail, Idle', healthy' PROVE HealthyInv'
    BY <1>5
  <2>2. PICK outcome \in RenderOutcomes : End(outcome)
    BY <1>20, <2>1 DEF PromoteNext, RenderOutcomes
  <2>3. /\ work' = NoWork /\ asked' = asked
        /\ work.by # "refresh" => UNCHANGED queueVars /\ healthy
        /\ work.by = "refresh" => pending = None
    BY <2>1, <2>2, EndEffect, WikiInv
  <2>4. Whole(site) /\ site' = site /\ current' = site
    BY <1>1, <1>20, <2>1 DEF PromoteNext, MirrorInv, MirrorSteps
  <2>5. asked <= site.pages
    <3>1. CASE work.by = "refresh"
      <4>1. asked <= work.seen.pages /\ work.seen.pages <= site.pages
        BY <1>1, <1>20, <2>3, <2>4, <3>1 DEF PromoteNext, RefreshInv, MirrorSteps
      <4>2. work.seen.pages \in Nat /\ site.pages \in Nat
        BY <1>1, <2>4 DEF Works, Prints, Dirs, Sites
      <4> QED BY <1>2, <4>1, <4>2
    <3>2. CASE work.by # "refresh"
      BY <1>1, <1>6, <2>1, <2>3, <2>4, <3>2
    <3> QED BY <3>1, <3>2
  <2> QED BY <2>3, <2>4, <2>5
<1>21. CASE StartLocalWeb
  BY <1>1, <1>6, <1>21 DEF StartLocalWeb, observers
<1> QED BY <1>5, <1>8, <1>9, <1>10, <1>11, <1>12, <1>13, <1>14, <1>15, <1>16, <1>17, <1>18,
           <1>19, <1>20, <1>21 DEF WikiNext, Mirror

LEMMA WikiInvariant == WikiSpec => []WikiInv
<1>1. ASSUME WikiInv, WikiNext PROVE WikiInv'
  <2>1. QueueInv'
    BY <1>1, QueueInvKept DEF WikiInv
  <2> QED BY <1>1, <2>1, TypesKept, TurnKept, MirrorKept, PrintKept, RefreshKept, HealthyKept
          DEF WikiInv
<1>2. ASSUME WikiInv, UNCHANGED vars PROVE WikiInv'
  <2>1. /\ UNCHANGED <<source, site, current, previous, next, work, publishes, crashes>>
        /\ UNCHANGED <<asked, healthy, queueVars>>
    BY <1>2 DEF vars, wikiVars, dirs, counters, observers
  <2>2. QueueInv'
    BY <1>2, <2>1, QueueStepInv DEF WikiInv
  <2>3. UNCHANGED <<running, pending, scheduled>>
    BY <2>1 DEF queueVars
  <2>4. WikiTypeOK'
    BY <1>2, <2>1, <2>2, <2>3 DEF WikiInv, QueueInv, WikiTypeOK
  <2>5. TurnInv' /\ MirrorInv' /\ PrintInv'
    BY <1>2, <2>1 DEF WikiInv, TurnInv, MirrorInv, OnlyValidSitesAreServed, PrintInv, Whole
  <2>6. RefreshInv' /\ HealthyInv'
    BY <1>2, <2>1, <2>3 DEF WikiInv, RefreshInv, HealthyInv, Idle, Whole
  <2> QED BY <2>2, <2>4, <2>5, <2>6 DEF WikiInv
<1>3. WikiInv /\ [WikiNext]_vars => WikiInv'
  BY <1>1, <1>2
<1> QED BY <1>3, WikiInitInv, PTL DEF WikiSpec

(* Queue, directories and the turn keep their types, and a refresh holds   *)
(* the publication queue only while the render queue waits for it.         *)
THEOREM WikiTypeInvariant == WikiSpec => []WikiTypeOK
<1>1. WikiInv => WikiTypeOK BY DEF WikiInv
<1> QED BY <1>1, WikiInvariant, PTL

(* With the publisher on the queue and kills between any two steps: no two *)
(* renders overlap, and a scheduled request keeps a live timer             *)
(* (WikiRenderQueue.swift, startScheduledRequest).                         *)
THEOREM PublishedRendersAreSingleFlight == WikiSpec => [](SingleFlight /\ ScheduledIsArmed)
<1>1. WikiInv => SingleFlight /\ ScheduledIsArmed
  BY DEF WikiInv, QueueInv, ActiveIsRunning, SingleFlight, ScheduledIsArmed
<1> QED BY <1>1, WikiInvariant, PTL

(* For any edits, publications and crashes, nothing the validator would    *)
(* reject is served.                                                       *)
THEOREM ServedSitesAreValid == WikiSpec => []OnlyValidSitesAreServed
<1>1. WikiInv => OnlyValidSitesAreServed BY DEF WikiInv, MirrorInv
<1> QED BY <1>1, WikiInvariant, PTL

(* For any edits, requests and crashes, a quiet daemon whose last refresh  *)
(* did not fail serves pages as recent as the last request.                *)
THEOREM ServedPagesCoverRequests == WikiSpec => []ServedCoversRequests
<1>1. WikiInv => ServedCoversRequests
  <2> SUFFICES ASSUME WikiInv, Idle, Free, healthy PROVE Whole(current) /\ current.pages >= asked
    BY DEF ServedCoversRequests
  <2>1. work.step # "promote"
    BY NoWorkTyped DEF Free
  <2>2. Whole(current) /\ asked <= current.pages
    BY <2>1 DEF WikiInv, HealthyInv
  <2>3. current.pages \in Nat /\ asked \in Nat
    BY <2>2, PublicationAssumption DEF WikiInv, WikiTypeOK, Whole, Dirs, Sites
  <2> QED BY <2>2, <2>3
<1> QED BY <1>1, WikiInvariant, PTL

(* A served site leaves current only as previous, with its whole successor *)
(* staged.                                                                 *)
THEOREM ServedSitesHaveSuccessors == WikiSpec => ServedSiteHasSuccessor
<1> DEFINE Succeeded == \/ Whole(current')
                        \/ current' = None /\ previous' = current /\ Whole(next')
<1>1. ASSUME WikiInv, WikiNext, Whole(current) PROVE Succeeded
  <2>1. current # None
    BY <1>1 DEF Whole
  <2>2. ASSUME UNCHANGED current PROVE Succeeded
    BY <1>1, <2>2
  <2>3. CASE ShiftCurrent
    BY <1>1, <2>1, <2>3 DEF ShiftCurrent, WikiInv, MirrorInv, MirrorSteps, Whole
  <2>4. CASE BeginRefresh \/ PromoteNext \/ StartLocalWeb
    BY <2>1, <2>2, <2>4 DEF BeginRefresh, PromoteNext, StartLocalWeb
  <2>5. CASE RefreshRender \/ SetAsideSite \/ InstallSite
    BY <2>2, <2>5 DEF RefreshRender, SetAsideSite, InstallSite, dirs
  <2>6. CASE BeginPublish \/ CoreRender \/ CoreRemove \/ CoreRename \/ WriteFingerprint
    BY <2>2, <2>6 DEF BeginPublish, CoreRender, CoreRemove, CoreRename, WriteFingerprint, dirs
  <2>7. CASE ValidateSite \/ StageSite \/ CopySite \/ DropPrevious
    BY <2>2, <2>7 DEF ValidateSite, StageSite, CopySite, DropPrevious, dirs
  <2>8. CASE Crash \/ RequestRefresh \/ QueueStep \/ \E part \in {"pages", "talk"} : Edit(part)
    BY <2>2, <2>8 DEF Crash, RequestRefresh, QueueStep, Edit, wikiVars, dirs
  <2> QED BY <1>1, <2>3, <2>4, <2>5, <2>6, <2>7, <2>8 DEF WikiNext, Mirror
<1>2. ASSUME WikiInv, [WikiNext]_vars PROVE [Whole(current) => Succeeded]_vars
  BY <1>1, <1>2
<1> QED BY <1>2, WikiInvariant, PTL DEF WikiSpec, ServedSiteHasSuccessor

(* For any delays, publications and kills, automatic renders start after   *)
(* backoff and cadence.                                                    *)
THEOREM PreparedRendersWait == WikiSpec => AutomaticWaits
<1>1. WikiInv /\ [WikiNext]_vars
        => [running = None /\ running' = "automatic" => backoff = 0 /\ cadence = 0]_queueVars
  <2>1. CASE Crash
    BY <2>1, QueueAssumption DEF Crash
  <2>2. CASE WikiNext /\ ~Crash
    <3>1. ASSUME WikiInv PROVE QueueInv /\ [QueueNext]_queueVars
      BY <2>2, <3>1, QueueFollows DEF WikiInv
    <3> QED BY <3>1, AutomaticStepWaits
  <2>3. CASE UNCHANGED vars
    BY <2>3 DEF vars
  <2> QED BY <2>1, <2>2, <2>3
<1> QED BY <1>1, WikiInvariant, PTL DEF WikiSpec, AutomaticWaits

(* And a manual request waits as manual until its render starts or the     *)
(* daemon is killed.                                                       *)
THEOREM ManualRequestsAreServed == WikiSpec => ManualIsServed
<1>1. WikiInv /\ [WikiNext]_vars
        => [ManualWaiting => \/ ManualWaiting' \/ ManualStarts
                             \/ crashes' = crashes + 1]_vars
  <2>1. CASE Crash
    BY <2>1, QueueAssumption DEF Crash
  <2>2. CASE WikiNext /\ ~Crash
    <3> SUFFICES ASSUME WikiInv, ManualWaiting PROVE ManualWaiting' \/ ManualStarts
      OBVIOUS
    <3>1. QueueInv /\ [QueueNext]_queueVars
      BY <2>2, QueueFollows DEF WikiInv
    <3>2. (ManualWaiting => ManualWaiting' \/ ManualStarts) \/ UNCHANGED queueVars
      BY <3>1, ManualStepKeeps
    <3>3. CASE UNCHANGED queueVars
      BY <3>3 DEF queueVars, ManualWaiting
    <3> QED BY <3>2, <3>3
  <2>3. CASE UNCHANGED vars
    BY <2>3
  <2> QED BY <2>1, <2>2, <2>3
<1> QED BY <1>1, WikiInvariant, PTL DEF WikiSpec, ManualIsServed
=============================================================================
