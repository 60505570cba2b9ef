------------------------------ MODULE AgentMail ------------------------------
(***************************************************************************)
(* The mail store of crates/onecontext-agent-mail/src/lib.rs.  Its state   *)
(* is a set of append-only JSONL ledgers that every operation reads back   *)
(* with "the last record of an id wins"; each ledger is here the function  *)
(* from ids to their last record.                                          *)
(*                                                                         *)
(* Mutating operations run in separate processes under one exclusive file  *)
(* lock.  An operation appends to several ledgers one after the other, so  *)
(* it is a chain of steps: op holds what the lock holder has left to do,   *)
(* the directory changes between its steps, and a kill (MailCrash) leaves  *)
(* the appends made so far and frees the lock.  The check that starts an   *)
(* operation is one step with its first append: between the two nothing    *)
(* but the directory and the clock can move.                               *)
(***************************************************************************)
EXTENDS AgentDirectory

CONSTANTS
    Messages,      \* message ids
    Keys,          \* idempotency keys
    Payloads,      \* what message_payload_sha256 tells apart
    To,            \* recipients of a payload (to and cc, parsed, as a set)
    Limit,         \* max_open_deliveries_per_recipient of every send
    WakeTimes,     \* the wake times snooze is called with
    Outcomes,      \* outcomes a dispatcher reports for a steering attempt
    RetryDelay,    \* default_next_dispatch_at: how long a failure waits
    NoAgent, NoPayload, NoRecord

Recipients == Roles \cup Agents
DeliveryIds == Messages \X Recipients     \* stable_delivery_id
NotifIds == DeliveryIds \X Agents         \* stable_notification_id

ASSUME MailAssumption ==
    /\ To \in [Payloads -> SUBSET Recipients]
    /\ Limit \in Nat
    /\ WakeTimes \subseteq Times
    /\ Outcomes \subseteq {"Sent", "Failed"}
    /\ RetryDelay \in Nat \ {0}
    /\ NoAgent \notin Agents /\ NoAgent \notin Roles
    /\ NoPayload \notin Payloads
    /\ NoRecord \notin [msg : Messages, payload : Payloads]

VARIABLES
    stored,        \* payload of each message file
    idempotency,   \* idempotency.jsonl: the message a key was accepted for
    deliveries,    \* deliveries.jsonl
    claims,        \* claims.jsonl: the last event logged for a delivery
    deadLetters,   \* dead-letter.jsonl: deliveries refused for capacity
    notifs,        \* the notification outbox
    attempts,      \* the notification attempts ledger
    op             \* what the holder of the mutation lock has left to do

mailVars == <<stored, idempotency, deliveries, claims, deadLetters, notifs,
              attempts, op>>
vars == <<dirVars, mailVars>>

OpenStates == {"Unread", "Read", "Claimed", "Snoozed"}
FinalStates == {"Done", "Archived", "Rejected"}     \* DeadLetter: never written
MarkStates == {"Read"} \cup FinalStates

Delivery(state, by, until) ==
    [state |-> state, claimedBy |-> by, until |-> until]
Absent == Delivery("Absent", NoAgent, 0)
DeliveryRecords ==
    {Absent} \cup [state : OpenStates \cup FinalStates,
                  claimedBy : Agents \cup {NoAgent}, until : Times]

(* until and next are 0 for None: a time that has always passed.           *)
Notification(state, count, next) ==
    [state |-> state, attempts |-> count, next |-> next]
NoNotif == Notification("Absent", 0, 0)
NotifRecords ==
    [state : {"Absent", "Pending", "Acknowledged", "Suppressed"},
     attempts : Nat, next : 0 .. (MaxTime + RetryDelay)]

NoEvent == [agent |-> NoAgent, state |-> "Absent"]

Free == [kind |-> "free"]

Sending(m, todo, notify) ==
    IF todo = {} /\ notify = {} THEN Free
    ELSE [kind |-> "send", msg |-> m, todo |-> todo, notify |-> notify]

Suppressing(notify) ==
    IF notify = {} THEN Free ELSE [kind |-> "suppress", notify |-> notify]

Ops ==
    {Free}
      \cup [kind : {"accept"}, key : Keys, msg : Messages, payload : Payloads]
      \cup [kind : {"send"}, msg : Messages, todo : SUBSET Recipients,
            notify : SUBSET NotifIds]
      \cup [kind : {"poll", "dispatch"}, agent : Agents,
            notify : SUBSET NotifIds]
      \cup [kind : {"event"}, id : DeliveryIds, agent : Agents]
      \cup [kind : {"suppress"}, notify : SUBSET NotifIds]
      \cup [kind : {"attempt"}, notif : NotifIds, at : Times,
            outcome : Outcomes]

MailTypeOK ==
    /\ DirTypeOK
    /\ stored \in [Messages -> Payloads \cup {NoPayload}]
    /\ idempotency \in
         [Keys -> [msg : Messages, payload : Payloads] \cup {NoRecord}]
    /\ deliveries \in [DeliveryIds -> DeliveryRecords]
    /\ claims \in
         [DeliveryIds -> [agent : Agents \cup {NoAgent},
                          state : {"Absent"} \cup OpenStates \cup FinalStates]]
    /\ deadLetters \subseteq DeliveryIds
    /\ notifs \in [NotifIds -> NotifRecords]
    /\ attempts \subseteq [notif : NotifIds, at : Times, outcome : Outcomes]
    /\ op \in Ops

MailInit ==
    /\ DirInit
    /\ stored = [m \in Messages |-> NoPayload]
    /\ idempotency = [k \in Keys |-> NoRecord]
    /\ deliveries = [d \in DeliveryIds |-> Absent]
    /\ claims = [d \in DeliveryIds |-> NoEvent]
    /\ deadLetters = {}
    /\ notifs = [n \in NotifIds |-> NoNotif]
    /\ attempts = {}
    /\ op = Free

-----------------------------------------------------------------------------
IsOpen(d) == deliveries[d].state \in OpenStates
Exists(d) == deliveries[d].state # "Absent"
OpenFor(r) == {d \in DeliveryIds : d[2] = r /\ IsOpen(d)}
FreeFor(a, d) == deliveries[d].claimedBy \in {NoAgent, a}
HasRow(n) == notifs[n].state # "Absent"
Registered(a) == agents[a].state = "Active"     \* neither unknown nor retired

(* delivery_actionable_for_agent for an open delivery d of the ledger.     *)
Actionable(a, d) == IsOpen(d) /\ CanSee(a, d[2]) /\ FreeFor(a, d)

(* ensure_delivery_notifications: one row per agent it targets, unless the *)
(* outbox has a row of that id.  The delivery is the one just read or      *)
(* written.                                                                *)
Targets(d, delivery) ==
    {n \in {d} \X Agents :
       /\ delivery.state \in OpenStates
       /\ Registered(n[2]) /\ CanSee(n[2], d[2])
       /\ delivery.claimedBy \in {NoAgent, n[2]}
       /\ ~HasRow(n)}

(* ensure_agent_notifications: the rows the outbox lacks for one agent.    *)
MutMissing(a) == {}
Missing(a) ==
    {n \in DeliveryIds \X {a} : Actionable(a, n[1]) /\ ~HasRow(n)}

(* InboxRow::is_due_at.                                                    *)
Due(d) == deliveries[d].state = "Snoozed" => deliveries[d].until <= now

(* pending_due_notifications_for_agent: what a poll hands to the agent.    *)
PendingDue(a) ==
    {n \in DeliveryIds \X {a} :
       notifs[n].state = "Pending" /\ IsOpen(n[1]) /\ FreeFor(a, n[1])
         /\ Due(n[1])}

(* pending_due_dispatch_notifications_for_agent: never tried, or failed    *)
(* and past its retry time.                                                *)
MutUngated(n) == TRUE
RetryDue(n) ==
    notifs[n].attempts = 0 \/ (notifs[n].next # 0 /\ notifs[n].next <= now)
DispatchDue(a) == {n \in PendingDue(a) : RetryDue(n)}

-----------------------------------------------------------------------------
(* send_mail and accept_message_unlocked.  A key seen before with another  *)
(* payload is an error and changes nothing.                                *)
AcceptMessage(k, m, p) ==
    /\ op = Free
    /\ idempotency[k] = NoRecord
    /\ stored' = [stored EXCEPT ![m] = p]          \* write_message
    /\ op' = [kind |-> "accept", key |-> k, msg |-> m, payload |-> p]
    /\ UNCHANGED <<dirVars, idempotency, deliveries, claims, deadLetters,
                   notifs, attempts>>

AppendIdempotency ==
    /\ op.kind = "accept"
    /\ idempotency' = [idempotency EXCEPT ![op.key] =
                          [msg |-> op.msg, payload |-> op.payload]]
    /\ op' = Sending(op.msg, To[op.payload], {})
    /\ UNCHANGED <<dirVars, stored, deliveries, claims, deadLetters, notifs,
                   attempts>>

(* DuplicateSamePayload: the retry (whose own id m may be new) delivers    *)
(* the message the key was accepted for.                                   *)
MutRetryId(k, m) == m
RetryId(k, m) == idempotency[k].msg

ResendMessage(k, m, p) ==
    /\ op = Free
    /\ idempotency[k] # NoRecord
    /\ idempotency[k].payload = p
    /\ op' = Sending(RetryId(k, m), To[p], {})
    /\ UNCHANGED <<dirVars, stored, idempotency, deliveries, claims,
                   deadLetters, notifs, attempts>>

(* One recipient of send_mail: already delivered, refused, or appended.    *)
(* The code takes recipients in string order; the order has no effect on   *)
(* the others, so any is allowed.                                          *)
MutFull(r) == Cardinality(OpenFor(r)) > Limit
Full(r) == Cardinality(OpenFor(r)) >= Limit

MutAlreadyDelivered(d) == IsOpen(d) /\ deliveries[d].claimedBy = NoAgent
AlreadyDelivered(d) == Exists(d)

Deliver(r) ==
    LET d == <<op.msg, r>>
        rest == op.todo \ {r}
        fresh == Delivery("Unread", NoAgent, 0)
    IN /\ op.kind = "send"
       /\ op.notify = {}
       /\ r \in op.todo
       /\ \/ /\ AlreadyDelivered(d)
             /\ op' = Sending(op.msg, rest, Targets(d, deliveries[d]))
             /\ UNCHANGED <<deliveries, deadLetters>>
          \/ /\ ~AlreadyDelivered(d) /\ Full(r)
             /\ deadLetters' = deadLetters \cup {d}
             /\ op' = Sending(op.msg, rest, {})
             /\ UNCHANGED deliveries
          \/ /\ ~AlreadyDelivered(d) /\ ~Full(r)
             /\ deliveries' = [deliveries EXCEPT ![d] = fresh]
             /\ op' = Sending(op.msg, rest, Targets(d, fresh))
             /\ UNCHANGED deadLetters
       /\ UNCHANGED <<dirVars, stored, idempotency, claims, notifs, attempts>>

(* The rows ensure_*_notifications found missing, one append at a time.    *)
AppendNotification(n) ==
    /\ op.kind \in {"send", "poll", "dispatch"}
    /\ n \in op.notify
    /\ notifs' = [notifs EXCEPT ![n] = Notification("Pending", 0, 0)]
    /\ op' = IF op.kind = "send"
             THEN Sending(op.msg, op.todo, op.notify \ {n})
             ELSE [op EXCEPT !.notify = @ \ {n}]
    /\ UNCHANGED <<dirVars, stored, idempotency, deliveries, claims,
                   deadLetters, attempts>>

-----------------------------------------------------------------------------
(* The common checks of claim_delivery, mark_delivery and snooze_delivery. *)
MutMayWork(a, d) == Live(a) /\ Exists(d) /\ CanSee(a, d[2]) /\ IsOpen(d)
MayWork(a, d) ==
    /\ Live(a)
    /\ Exists(d) /\ CanSee(a, d[2])
    /\ IsOpen(d)
    /\ FreeFor(a, d)

(* transition_delivery_with_snooze: delivery, claim event, suppressions.   *)
Transition(a, d, state, by, until) ==
    /\ deliveries' = [deliveries EXCEPT ![d] = Delivery(state, by, until)]
    /\ op' = [kind |-> "event", id |-> d, agent |-> a]
    /\ UNCHANGED <<dirVars, stored, idempotency, claims, deadLetters, notifs,
                   attempts>>

(* Claiming again what one has Claimed returns the record unchanged.       *)
ClaimDelivery(a, d) ==
    /\ op = Free
    /\ MayWork(a, d)
    /\ deliveries[d].state # "Claimed"
    /\ Transition(a, d, "Claimed", a, 0)

(* Only Read may be marked on a delivery nobody claimed, and it claims     *)
(* nothing.                                                                *)
MarkAllowed(d, state) == deliveries[d].claimedBy # NoAgent \/ state = "Read"

MarkDelivery(a, d, state) ==
    /\ op = Free
    /\ MayWork(a, d)
    /\ MarkAllowed(d, state)
    /\ Transition(a, d, state,
                  IF state = "Read" THEN deliveries[d].claimedBy ELSE a, 0)

SnoozeDelivery(a, d, until) ==
    /\ op = Free
    /\ MayWork(a, d)
    /\ Transition(a, d, "Snoozed", a, until)

(* suppress_competing_notifications: the other agents' pending rows.       *)
MutCompeting(a, d) ==
    {n \in {d} \X Agents : notifs[n].state = "Pending"}
Competing(a, d) ==
    {n \in {d} \X Agents : n[2] # a /\ notifs[n].state = "Pending"}

AppendClaim ==
    LET delivery == deliveries[op.id]
    IN /\ op.kind = "event"
       /\ claims' = [claims EXCEPT ![op.id] =
                       [agent |-> op.agent, state |-> delivery.state]]
       /\ op' = IF delivery.claimedBy = op.agent
                THEN Suppressing(Competing(op.agent, op.id))
                ELSE Free
       /\ UNCHANGED <<dirVars, stored, idempotency, deliveries, deadLetters,
                      notifs, attempts>>

Suppress(n) ==
    /\ op.kind = "suppress"
    /\ n \in op.notify
    /\ notifs' = [notifs EXCEPT ![n].state = "Suppressed"]
    /\ op' = Suppressing(op.notify \ {n})
    /\ UNCHANGED <<dirVars, stored, idempotency, deliveries, claims,
                   deadLetters, attempts>>

-----------------------------------------------------------------------------
(* notification_poll is for live agents; notification_dispatch_queue, the  *)
(* supervisor's, for any that is not retired.  PollReturn hands out        *)
(* PendingDue or DispatchDue and unlocks.                                  *)
NotificationPoll(a) ==
    /\ op = Free
    /\ Live(a)
    /\ op' = [kind |-> "poll", agent |-> a, notify |-> Missing(a)]
    /\ UNCHANGED <<dirVars, stored, idempotency, deliveries, claims,
                   deadLetters, notifs, attempts>>

NotificationDispatchQueue(a) ==
    /\ op = Free
    /\ Registered(a)
    /\ op' = [kind |-> "dispatch", agent |-> a, notify |-> Missing(a)]
    /\ UNCHANGED <<dirVars, stored, idempotency, deliveries, claims,
                   deadLetters, notifs, attempts>>

PollReturn ==
    /\ op.kind \in {"poll", "dispatch"}
    /\ op.notify = {}
    /\ op' = Free
    /\ UNCHANGED <<dirVars, stored, idempotency, deliveries, claims,
                   deadLetters, notifs, attempts>>

(* An acknowledged or suppressed row is returned as it is.                 *)
AcknowledgeNotification(a, n) ==
    /\ op = Free
    /\ Live(a)
    /\ n[2] = a
    /\ notifs[n].state = "Pending"
    /\ notifs' = [notifs EXCEPT ![n].state = "Acknowledged"]
    /\ UNCHANGED <<dirVars, stored, idempotency, deliveries, claims,
                   deadLetters, attempts, op>>

(* record_notification_attempt, by a dispatcher that steered the agent for *)
(* any row it was once handed.  The attempt id is (row, time, outcome): an *)
(* attempt already logged is returned and nothing is appended.             *)
MutLogged(attempt) == FALSE
Logged(attempt) == attempt \in attempts

RecordAttempt(n, outcome) ==
    LET attempt == [notif |-> n, at |-> now, outcome |-> outcome]
    IN /\ op = Free
       /\ ~Logged(attempt)
       /\ notifs[n].state = "Pending"
       /\ IsOpen(n[1]) /\ FreeFor(n[2], n[1])
       /\ attempts' = attempts \cup {attempt}
       /\ op' = [kind |-> "attempt", notif |-> n, at |-> now,
                 outcome |-> outcome]
       /\ UNCHANGED <<dirVars, stored, idempotency, deliveries, claims,
                      deadLetters, notifs>>

NextDispatch(at, outcome) ==
    IF outcome = "Failed" THEN at + RetryDelay ELSE 0

AppendAttemptResult ==
    /\ op.kind = "attempt"
    /\ notifs' = [notifs EXCEPT ![op.notif] =
                     Notification(@.state, @.attempts + 1,
                                  NextDispatch(op.at, op.outcome))]
    /\ op' = Free
    /\ UNCHANGED <<dirVars, stored, idempotency, deliveries, claims,
                   deadLetters, attempts>>

(* The lock holder is killed; the operating system drops its lock.         *)
MailCrash ==
    /\ op # Free
    /\ op' = Free
    /\ UNCHANGED <<dirVars, stored, idempotency, deliveries, claims,
                   deadLetters, notifs, attempts>>

Directory == DirNext /\ UNCHANGED mailVars

SendSteps ==
    \/ AppendIdempotency
    \/ \E r \in Recipients : Deliver(r)
    \/ \E n \in NotifIds : AppendNotification(n)

WorkSteps == AppendClaim \/ \E n \in NotifIds : Suppress(n)

NotifySteps == PollReturn \/ AppendAttemptResult

MailNext ==
    \/ Directory
    \/ \E k \in Keys, m \in Messages, p \in Payloads :
         AcceptMessage(k, m, p) \/ ResendMessage(k, m, p)
    \/ \E a \in Agents, d \in DeliveryIds :
         \/ ClaimDelivery(a, d)
         \/ \E state \in MarkStates : MarkDelivery(a, d, state)
         \/ \E until \in WakeTimes : SnoozeDelivery(a, d, until)
    \/ \E a \in Agents :
         \/ NotificationPoll(a)
         \/ NotificationDispatchQueue(a)
         \/ \E n \in NotifIds : AcknowledgeNotification(a, n)
    \/ \E n \in NotifIds, outcome \in Outcomes : RecordAttempt(n, outcome)
    \/ SendSteps
    \/ WorkSteps
    \/ NotifySteps
    \/ MailCrash

MailSpec == MailInit /\ [][MailNext]_vars

(* A process that holds the lock keeps running unless it is killed, agents *)
(* poll for ever, the file lock starves nobody, and kills do not hit every *)
(* one of infinitely many polls.                                           *)
MailFairness ==
    /\ WF_vars(SendSteps \/ WorkSteps \/ NotifySteps)
    /\ \A a \in Agents : SF_vars(NotificationPoll(a))
    /\ SF_vars(\E n \in NotifIds : AppendNotification(n))

FairMailSpec == MailSpec /\ MailFairness

-----------------------------------------------------------------------------
(* The store seen as MailWork: a delivery is finished in a final state and *)
(* owned by the agent its last record names.                               *)
Phase(d) ==
    IF ~Exists(d) THEN "none" ELSE IF IsOpen(d) THEN "open" ELSE "finished"

Work == INSTANCE MailWork WITH
          Items <- DeliveryIds, Workers <- Agents, NoWorker <- NoAgent,
          phase <- [d \in DeliveryIds |-> Phase(d)],
          owner <- [d \in DeliveryIds |-> deliveries[d].claimedBy]

(* Under every interleaving, crash, duplicate send and competing claim, a  *)
(* delivery is posted once, owned by at most one agent for good, finished  *)
(* only by it and never reopened ("Claims are exclusive per delivery").    *)
ImplementsWork == Work!WorkSpec

(* No mailbox exceeds the open-delivery limit its senders pass, whatever   *)
(* sends are retried or killed half way ("Unlimited queues with no         *)
(* overload state" is the smell the protocol names).                       *)
CapacityRespected ==
    \A r \in Recipients : Cardinality(OpenFor(r)) <= Limit

(* A delivery exists only for a message the idempotency ledger accepted,   *)
(* under the payload that names its recipient, with the message file in    *)
(* place: a retry under a known key never delivers a second message, and a *)
(* crash during accept leaves nothing deliverable.                         *)
DeliveredWasAccepted ==
    \A d \in DeliveryIds :
      Exists(d) =>
        /\ stored[d[1]] # NoPayload
        /\ \E k \in Keys :
             /\ idempotency[k] # NoRecord
             /\ idempotency[k].msg = d[1]
             /\ d[2] \in To[idempotency[k].payload]

(* A wakeup is suppressed only when another agent owns the delivery: no    *)
(* agent that could still take the work has lost its notification to it.   *)
SuppressedMeansTaken ==
    \A n \in NotifIds :
      notifs[n].state = "Suppressed" =>
        deliveries[n[1]].claimedBy \notin {NoAgent, n[2]}

(* The claim log never names a loser: an event that takes or finishes work *)
(* names the agent the delivery ledger names, however the log lags behind. *)
ClaimEvidence ==
    \A d \in DeliveryIds :
      claims[d].state \notin {"Absent", "Unread", "Read"} =>
        deliveries[d].claimedBy = claims[d].agent

(* What a poll returns (it is about to, with op.notify empty) leaves out   *)
(* no due delivery the agent may work on, unless the agent acknowledged    *)
(* its wakeup: mail whose notifications were never written, because the    *)
(* sender died or the agent joined later, is found again.                  *)
PollComplete ==
    op.kind = "poll" /\ op.notify = {} =>
      \A d \in DeliveryIds :
        LET n == <<d, op.agent>>
        IN Actionable(op.agent, d) /\ Due(d) =>
             n \in PendingDue(op.agent) \/ notifs[n].state = "Acknowledged"

(* Mail is never silently lost to a live agent: a delivery it may work on  *)
(* from some point on is offered to it by poll after poll, or was          *)
(* acknowledged by it, although senders and polls are killed half way.     *)
MailSurfaces ==
    \A a \in Agents, d \in DeliveryIds :
      <>[](Live(a) /\ Actionable(a, d) /\ Due(d)) =>
        \/ <>[](notifs[<<d, a>>].state = "Acknowledged")
        \/ []<>(/\ op.kind = "poll" /\ op.agent = a /\ op.notify = {}
                /\ <<d, a>> \in PendingDue(a))

(* Dispatch attempts are evidence-backed: the outbox never counts an       *)
(* attempt the attempts ledger does not hold.                              *)
EvidenceBacked ==
    \A n \in NotifIds :
      notifs[n].attempts <= Cardinality({x \in attempts : x.notif = n})

(* Dispatch is retry-gated: a row handed to the dispatcher was either      *)
(* never counted as tried or has a logged failure RetryDelay old.          *)
RetryGated ==
    op.kind = "dispatch" /\ op.notify = {} =>
      \A n \in DispatchDue(op.agent) :
        notifs[n].attempts > 0 =>
          \E x \in attempts :
            x.notif = n /\ x.outcome = "Failed" /\ x.at + RetryDelay <= now
==============================================================================
