-------------------------- MODULE WikiRenderQueue --------------------------
(***************************************************************************)
(* The queue in front of the wiki renderer (WikiRenderQueue.swift).  A     *)
(* serial dispatch queue guards the state, so each handler is one action.  *)
(* A request is scheduled behind a delay, merged with the one that waits,  *)
(* or kept pending behind the render that runs.  asyncAfter cannot be      *)
(* cancelled: every re-scheduling arms one more timer and bumps a token,   *)
(* and a timer whose token is no longer current does nothing.              *)
(* Durations count down in ticks: only what is left of them is ever read.  *)
(***************************************************************************)
EXTENDS Naturals, FiniteSets

CONSTANTS
    None,        \* no request
    Debounce,    \* debounceInterval
    Backoff,     \* failureBackoffInterval
    Cadence,     \* automaticMinimumInterval(); 0 stands for nil
    MaxRequests  \* bound: requests accepted

ASSUME QueueAssumption ==
    /\ {Debounce, Backoff, Cadence, MaxRequests} \subseteq Nat
    /\ None \notin {"automatic", "manual"}

VARIABLES
    scheduled,   \* scheduledRequest
    token,       \* scheduledToken
    pending,     \* pendingRequest
    running,     \* runningRequest
    backoff,     \* what is left until backoffUntil
    cadence,     \* what is left of the cadence since lastAutomaticStartedAt
    timers,      \* armed asyncAfter blocks: their token and what is left
    active,      \* activeRenders
    accepted,    \* acceptedCount
    covered      \* observer: acceptedCount when the last render started

queueVars == <<scheduled, token, pending, running, backoff, cadence, timers,
               active, accepted, covered>>

Priorities == {"automatic", "manual"}
RenderOutcomes == {"published", "failed", "skipped"}

Longest(S) == CHOOSE d \in S : \A e \in S : e <= d

Busy == running # None

MutMerge(existing, incoming) == incoming
Merge(existing, incoming) ==
    IF existing = "manual" THEN existing ELSE incoming

MutDelay(priority) ==
    IF priority = "manual" THEN 0 ELSE Longest({Debounce, backoff, cadence})
Delay(priority) ==
    IF priority = "manual" THEN 0 ELSE Longest({Debounce, backoff', cadence})

(* scheduleCurrentRequest: reads the backoff that finish has just set.     *)
MutSchedule(priority) ==
    /\ scheduled' = priority
    /\ token' = token + 1
    /\ timers' = IF scheduled = None
                 THEN timers \cup {[token |-> token + 1, left |-> Delay(priority)]}
                 ELSE timers
Schedule(priority) ==
    /\ scheduled' = priority
    /\ token' = token + 1
    /\ timers' = timers \cup {[token |-> token + 1, left |-> Delay(priority)]}

QueueInit ==
    /\ scheduled = None
    /\ token = 0
    /\ pending = None
    /\ running = None
    /\ backoff = 0
    /\ cadence = 0
    /\ timers = {}
    /\ active = 0
    /\ accepted = 0
    /\ covered = 0

Request(priority) ==
    /\ accepted < MaxRequests
    /\ accepted' = accepted + 1
    /\ UNCHANGED <<running, backoff, cadence, active, covered>>
    /\ \/ /\ Busy
          /\ pending' = Merge(pending, priority)
          /\ UNCHANGED <<scheduled, token, timers>>
       \/ /\ ~Busy
          /\ Schedule(Merge(scheduled, priority))
          /\ UNCHANGED pending

CanStart(t) ==
    /\ t.token = token
    /\ scheduled # None
    /\ ~Busy

(* startScheduledRequest, when the guard holds.                            *)
StartScheduledRequest(t) ==
    /\ t \in timers
    /\ t.left = 0
    /\ CanStart(t)
    /\ timers' = timers \ {t}
    /\ running' = scheduled
    /\ scheduled' = None
    /\ active' = active + 1
    /\ cadence' = IF scheduled = "automatic" THEN Cadence ELSE cadence
    /\ covered' = accepted
    /\ UNCHANGED <<token, pending, backoff, accepted>>

(* The guard's early return: the timer of a request that was re-scheduled. *)
StaleTimer(t) ==
    /\ t \in timers
    /\ t.left = 0
    /\ ~CanStart(t)
    /\ timers' = timers \ {t}
    /\ UNCHANGED <<scheduled, token, pending, running, backoff, cadence,
                   active, accepted, covered>>

Finish(outcome) ==
    /\ running # None
    /\ running' = None
    /\ active' = IF active > 0 THEN active - 1 ELSE 0
    /\ backoff' = IF outcome = "failed" THEN Backoff ELSE backoff
    /\ UNCHANGED <<cadence, accepted, covered>>
    /\ \/ /\ pending # None
          /\ pending' = None
          /\ Schedule(pending)
       \/ /\ pending = None
          /\ UNCHANGED <<scheduled, token, pending, timers>>

Sooner(d) == IF d > 0 THEN d - 1 ELSE 0

Tick ==
    /\ \E d \in {backoff, cadence} \cup {t.left : t \in timers} : d > 0
    /\ backoff' = Sooner(backoff)
    /\ cadence' = Sooner(cadence)
    /\ timers' = {[token |-> t.token, left |-> Sooner(t.left)] : t \in timers}
    /\ UNCHANGED <<scheduled, token, pending, running, active, accepted, covered>>

TimerFires == \E t \in timers : StartScheduledRequest(t) \/ StaleTimer(t)

QueueNext ==
    \/ \E priority \in Priorities : Request(priority)
    \/ TimerFires
    \/ \E outcome \in RenderOutcomes : Finish(outcome)
    \/ Tick

QueueSpec == QueueInit /\ [][QueueNext]_queueVars

-----------------------------------------------------------------------------
Slots == Priorities \cup {None}
Idle == scheduled = None /\ pending = None /\ running = None

(* Types, and the shape of the three slots the handlers rely on: a request *)
(* is scheduled only while none runs and pending only while one does.      *)
QueueTypeOK ==
    /\ scheduled \in Slots /\ pending \in Slots /\ running \in Slots
    /\ token \in Nat /\ active \in Nat /\ accepted \in Nat /\ covered \in Nat
    /\ backoff \in 0 .. Backoff /\ cadence \in 0 .. Cadence
    /\ timers \subseteq [token : Nat, left : Nat]
    /\ running # None => scheduled = None
    /\ pending # None => running # None

(* At most one render runs, whatever requests, stale timers and failures   *)
(* come in between (maxConcurrentRenders stays 1).                         *)
SingleFlight == active <= 1

(* No wake-up is lost: a scheduled request always has a timer of its       *)
(* current token, although each re-scheduling makes the earlier one stale. *)
ScheduledIsArmed ==
    scheduled # None => \E t \in timers : t.token = token

(* An automatic render never starts inside the failure backoff or before   *)
(* the cadence is over, also when it waited behind a render that failed.   *)
AutomaticWaits ==
    [][running = None /\ running' = "automatic" => backoff = 0 /\ cadence = 0]_queueVars

(* A waiting manual request is never demoted or dropped by the requests    *)
(* merged into it: it waits as manual until a manual render starts.        *)
ManualWaiting == "manual" \in {scheduled, pending}
ManualStarts == running = None /\ scheduled = "manual" /\ running' = "manual"
ManualIsKept ==
    [][ManualWaiting => ManualWaiting' \/ ManualStarts]_queueVars
=============================================================================
