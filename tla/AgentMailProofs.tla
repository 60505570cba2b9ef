--------------------------- MODULE AgentMailProofs ---------------------------
(***************************************************************************)
(* Theorems about AgentMail and the directory under it, for any agents,    *)
(* roles, messages, keys, payloads, limits, lease lengths and processes.   *)
(* Type correctness comes first; the other results rest on it.             *)
(***************************************************************************)
EXTENDS AgentMail, FiniteSetTheorems, TLAPS

-----------------------------------------------------------------------------
(* The directory.                                                          *)

(* Every step of a directory process keeps the shape of the state.         *)
LEMMA DirTypeStep ==
  ASSUME DirTypeOK, [DirNext]_dirVars
  PROVE  DirTypeOK'
<1> USE DirectoryAssumption
<1>1. ASSUME NEW c \in Clients, NEW a \in Agents, IdentifyAgent(c, a)
      PROVE  DirTypeOK'
  <2>1. PICK granted \in Grants :
          client' = [client EXCEPT ![c] =
                       [stage |-> "record", agent |-> a,
                        record |-> [state |-> "Active", granted |-> granted],
                        expires |-> Expiry]]
    BY <1>1 DEF IdentifyAgent
  <2>2. [state |-> "Active", granted |-> granted] \in Written
    BY DEF Written
  <2>3. Expiry \in LeaseTimes
    BY DEF DirTypeOK, Expiry, LeaseTimes, Times
  <2>4. client' \in [Clients -> ClientStates]
    BY <2>1, <2>2, <2>3 DEF DirTypeOK, ClientStates
  <2> QED
    BY <1>1, <2>4 DEF DirTypeOK, IdentifyAgent
<1>2. ASSUME NEW c \in Clients, NEW a \in Agents, HeartbeatAgent(c, a)
      PROVE  DirTypeOK'
  <2>1. Expiry \in LeaseTimes
    BY DEF DirTypeOK, Expiry, LeaseTimes, Times
  <2>2. agents[a] \in Written
    BY <1>2 DEF DirTypeOK, HeartbeatAgent, AgentRecords, Unknown
  <2>3. client' \in [Clients -> ClientStates]
    BY <1>2, <2>1, <2>2 DEF DirTypeOK, HeartbeatAgent, ClientStates
  <2> QED
    BY <1>2, <2>3 DEF DirTypeOK, HeartbeatAgent
<1>3. ASSUME NEW c \in Clients, NEW a \in Agents, RetireAgent(c, a)
      PROVE  DirTypeOK'
  <2>1. [agents[a] EXCEPT !.state = "Retired"] \in Written
    BY <1>3 DEF DirTypeOK, RetireAgent, AgentRecords, Written, Unknown
  <2>2. now \in LeaseTimes
    BY DEF DirTypeOK, LeaseTimes, Times
  <2>3. client' \in [Clients -> ClientStates]
    BY <1>3, <2>1, <2>2 DEF DirTypeOK, RetireAgent, ClientStates
  <2> QED
    BY <1>3, <2>3 DEF DirTypeOK, RetireAgent
<1>4. ASSUME NEW c \in Clients, AppendAgent(c)
      PROVE  DirTypeOK'
  <2>1. client[c] \in ClientStates /\ client[c] # IdleClient
    BY <1>4 DEF DirTypeOK, AppendAgent, IdleClient
  <2>2. client[c].record \in AgentRecords /\ client[c].agent \in Agents
    BY <2>1 DEF ClientStates, AgentRecords
  <2>3. [client[c] EXCEPT !.stage = "lease"] \in ClientStates
    BY <2>1 DEF ClientStates
  <2> QED
    BY <1>4, <2>2, <2>3 DEF DirTypeOK, AppendAgent
<1>5. ASSUME NEW c \in Clients, AppendLease(c)
      PROVE  DirTypeOK'
  <2>1. client[c] \in ClientStates /\ client[c] # IdleClient
    BY <1>5 DEF DirTypeOK, AppendLease, IdleClient
  <2>2. client[c].expires \in LeaseTimes /\ client[c].agent \in Agents
    BY <2>1 DEF ClientStates
  <2>3. IdleClient \in ClientStates
    BY DEF ClientStates
  <2> QED
    BY <1>5, <2>2, <2>3 DEF DirTypeOK, AppendLease
<1>6. ASSUME NEW c \in Clients, ClientCrash(c)
      PROVE  DirTypeOK'
  BY <1>6 DEF DirTypeOK, ClientCrash, ClientStates
<1>7. CASE Tick
  BY <1>7 DEF DirTypeOK, Tick, Times
<1>8. CASE UNCHANGED dirVars
  BY <1>8 DEF DirTypeOK, dirVars
<1> QED
  BY <1>1, <1>2, <1>3, <1>4, <1>5, <1>6, <1>7, <1>8 DEF DirNext

(* The state of the directory always has its declared shape.               *)
THEOREM DirTypeInvariant == DirSpec => []DirTypeOK
<1>1. DirInit => DirTypeOK
  BY DirectoryAssumption
     DEF DirInit, DirTypeOK, AgentRecords, Unknown, LeaseTimes, Times,
         ClientStates
<1>2. DirTypeOK /\ [DirNext]_dirVars => DirTypeOK'
  BY DirTypeStep
<1> QED
  BY <1>1, <1>2, PTL DEF DirSpec

(* A retired agent with no earlier identify in flight stays retired and no *)
(* identify of it starts: each action on its own.                          *)
LEMMA QuietRetirementStep ==
  ASSUME DirTypeOK, [DirNext]_dirVars, NEW a \in Agents,
         agents[a].state = "Retired", ~IdentifyInFlight(a)
  PROVE  agents'[a].state = "Retired" /\ ~IdentifyInFlight(a)'
<1>1. ASSUME NEW c \in Clients, NEW b \in Agents, IdentifyAgent(c, b)
      PROVE  agents'[a].state = "Retired" /\ ~IdentifyInFlight(a)'
  <2>1. b # a
    BY <1>1 DEF IdentifyAgent, Retired
  <2>2. client'[c].agent = b
    BY <1>1 DEF IdentifyAgent, DirTypeOK
  <2>3. \A d \in Clients \ {c} : client'[d] = client[d]
    BY <1>1 DEF IdentifyAgent, DirTypeOK
  <2> QED
    BY <1>1, <2>1, <2>2, <2>3 DEF IdentifyAgent, IdentifyInFlight
<1>2. ASSUME NEW c \in Clients, NEW b \in Agents, HeartbeatAgent(c, b)
      PROVE  agents'[a].state = "Retired" /\ ~IdentifyInFlight(a)'
  <2>1. client'[c].stage = "lease"
    BY <1>2 DEF HeartbeatAgent, DirTypeOK
  <2>2. \A d \in Clients \ {c} : client'[d] = client[d]
    BY <1>2 DEF HeartbeatAgent, DirTypeOK
  <2> QED
    BY <1>2, <2>1, <2>2 DEF HeartbeatAgent, IdentifyInFlight
<1>3. ASSUME NEW c \in Clients, NEW b \in Agents, RetireAgent(c, b)
      PROVE  agents'[a].state = "Retired" /\ ~IdentifyInFlight(a)'
  <2>1. client'[c].record.state = "Retired"
    BY <1>3 DEF RetireAgent, DirTypeOK, AgentRecords, Written, Unknown
  <2>2. \A d \in Clients \ {c} : client'[d] = client[d]
    BY <1>3 DEF RetireAgent, DirTypeOK
  <2> QED
    BY <1>3, <2>1, <2>2 DEF RetireAgent, IdentifyInFlight
<1>4. ASSUME NEW c \in Clients, AppendAgent(c)
      PROVE  agents'[a].state = "Retired" /\ ~IdentifyInFlight(a)'
  <2>1. client[c] \in ClientStates /\ client[c] # IdleClient
    BY <1>4 DEF DirTypeOK, AppendAgent, IdleClient
  <2>2. client'[c].stage = "lease"
    BY <1>4, <2>1 DEF AppendAgent, DirTypeOK, ClientStates
  <2>3. \A d \in Clients \ {c} : client'[d] = client[d]
    BY <1>4 DEF AppendAgent, DirTypeOK
  <2>4. ~IdentifyInFlight(a)'
    BY <2>2, <2>3 DEF IdentifyInFlight
  <2>5. CASE client[c].agent = a
    <3>1. client[c].record.state \in {"Active", "Retired"}
      BY <2>1 DEF ClientStates, Written
    <3>2. client[c].record.state # "Active"
      BY <1>4, <2>5 DEF AppendAgent, IdentifyInFlight
    <3> QED
      BY <1>4, <2>4, <2>5, <3>1, <3>2 DEF AppendAgent, DirTypeOK
  <2>6. CASE client[c].agent # a
    BY <1>4, <2>4, <2>6 DEF AppendAgent, DirTypeOK
  <2> QED
    BY <2>5, <2>6
<1>5. ASSUME NEW c \in Clients, AppendLease(c)
      PROVE  agents'[a].state = "Retired" /\ ~IdentifyInFlight(a)'
  <2>1. client'[c].stage = "idle"
    BY <1>5 DEF AppendLease, DirTypeOK, IdleClient
  <2>2. \A d \in Clients \ {c} : client'[d] = client[d]
    BY <1>5 DEF AppendLease, DirTypeOK
  <2> QED
    BY <1>5, <2>1, <2>2 DEF AppendLease, IdentifyInFlight
<1>6. ASSUME NEW c \in Clients, ClientCrash(c)
      PROVE  agents'[a].state = "Retired" /\ ~IdentifyInFlight(a)'
  <2>1. client'[c].stage = "idle"
    BY <1>6 DEF ClientCrash, DirTypeOK, IdleClient
  <2>2. \A d \in Clients \ {c} : client'[d] = client[d]
    BY <1>6 DEF ClientCrash, DirTypeOK
  <2> QED
    BY <1>6, <2>1, <2>2 DEF ClientCrash, IdentifyInFlight
<1>7. CASE Tick
  BY <1>7 DEF Tick, IdentifyInFlight
<1>8. CASE UNCHANGED dirVars
  BY <1>8 DEF dirVars, IdentifyInFlight
<1> QED
  BY <1>1, <1>2, <1>3, <1>4, <1>5, <1>6, <1>7, <1>8 DEF DirNext

(* A retired agent comes back only through an identify that had already    *)
(* read the directory when it was retired: identify_agent's unlocked       *)
(* check-then-append is the whole of the hole.                             *)
THEOREM RetirementIsFinalOnceQuiet == DirSpec => RetiredIsFinalOnceQuiet
<1>1. DirTypeOK /\ [DirNext]_dirVars =>
        [\A a \in Agents :
           agents[a].state = "Retired" /\ ~IdentifyInFlight(a)
             => /\ agents'[a].state = "Retired"
                /\ ~IdentifyInFlight(a)']_dirVars
  BY QuietRetirementStep
<1> QED
  BY <1>1, DirTypeInvariant, PTL DEF DirSpec, RetiredIsFinalOnceQuiet

-----------------------------------------------------------------------------
(* The mail store.                                                         *)

(* The remainder of a send, or of a suppression, is an operation.          *)
LEMMA SendingIsOp ==
  ASSUME NEW m \in Messages, NEW todo \in SUBSET Recipients,
         NEW notify \in SUBSET NotifIds
  PROVE  Sending(m, todo, notify) \in Ops
BY DEF Sending, Ops

LEMMA SuppressingIsOp ==
  ASSUME NEW notify \in SUBSET NotifIds
  PROVE  Suppressing(notify) \in Ops
BY DEF Suppressing, Ops

(* What the lock holder carries, by kind of operation.                     *)
LEMMA OpFields ==
  ASSUME op \in Ops
  PROVE  /\ op.kind = "accept" =>
              op.key \in Keys /\ op.msg \in Messages /\ op.payload \in Payloads
         /\ op.kind = "send" =>
              /\ op.msg \in Messages /\ op.todo \subseteq Recipients
              /\ op.notify \subseteq NotifIds
         /\ op.kind \in {"poll", "dispatch"} =>
              op.agent \in Agents /\ op.notify \subseteq NotifIds
         /\ op.kind = "event" => op.id \in DeliveryIds /\ op.agent \in Agents
         /\ op.kind = "suppress" => op.notify \subseteq NotifIds
         /\ op.kind = "attempt" =>
              op.notif \in NotifIds /\ op.at \in Times /\ op.outcome \in Outcomes
BY DEF Ops, Free

(* A delivery id is a message and a recipient, a row a delivery and agent. *)
LEMMA TargetsAreRows ==
  ASSUME NEW d \in DeliveryIds, NEW delivery
  PROVE  Targets(d, delivery) \subseteq NotifIds
BY DEF Targets, NotifIds

LEMMA MissingAreRows ==
  ASSUME NEW a \in Agents
  PROVE  Missing(a) \subseteq NotifIds
BY DEF Missing, NotifIds

LEMMA CompetingAreRows ==
  ASSUME NEW a \in Agents, NEW d \in DeliveryIds
  PROVE  Competing(a, d) \subseteq NotifIds
BY DEF Competing, NotifIds

LEMMA FreshDelivery ==
  Delivery("Unread", NoAgent, 0) \in DeliveryRecords
BY DirectoryAssumption DEF Delivery, DeliveryRecords, OpenStates, Times

LEMMA FreshNotification ==
  Notification("Pending", 0, 0) \in NotifRecords
BY DirectoryAssumption, MailAssumption DEF Notification, NotifRecords

-----------------------------------------------------------------------------
(* Type correctness, one step per action.                                  *)
LEMMA MailTypeInit == MailInit => MailTypeOK
<1> SUFFICES ASSUME MailInit PROVE MailTypeOK
  OBVIOUS
<1>1. DirTypeOK
  BY DirectoryAssumption
     DEF MailInit, DirInit, DirTypeOK, AgentRecords, Unknown, LeaseTimes,
         Times, ClientStates
<1>2. Absent \in DeliveryRecords /\ NoNotif \in NotifRecords
  BY DirectoryAssumption, MailAssumption
     DEF Absent, Delivery, DeliveryRecords, NoNotif, Notification,
         NotifRecords, Times
<1>3. deliveries \in [DeliveryIds -> DeliveryRecords]
  BY <1>2 DEF MailInit
<1>4. notifs \in [NotifIds -> NotifRecords]
  BY <1>2 DEF MailInit
<1>5. op \in Ops
  BY DEF MailInit, Ops
<1> QED
  BY <1>1, <1>3, <1>4, <1>5
     DEF MailInit, MailTypeOK, DeliveryRecords, NotifRecords, NoEvent

LEMMA SendTypeStep ==
  ASSUME MailTypeOK,
         \/ \E k \in Keys, m \in Messages, p \in Payloads :
              AcceptMessage(k, m, p) \/ ResendMessage(k, m, p)
         \/ SendSteps
  PROVE  MailTypeOK'
<1> USE DirectoryAssumption, MailAssumption
<1>0. op \in Ops
  BY DEF MailTypeOK
<1>1. ASSUME NEW k \in Keys, NEW m \in Messages, NEW p \in Payloads,
             AcceptMessage(k, m, p)
      PROVE  MailTypeOK'
  <2>1. op' \in Ops
    BY <1>1 DEF AcceptMessage, Ops
  <2> QED
    BY <1>1, <2>1 DEF AcceptMessage, MailTypeOK, dirVars, DirTypeOK
<1>2. ASSUME NEW k \in Keys, NEW m \in Messages, NEW p \in Payloads,
             ResendMessage(k, m, p)
      PROVE  MailTypeOK'
  <2>1. idempotency[k].msg \in Messages
    BY <1>2 DEF ResendMessage, MailTypeOK
  <2>2. op' \in Ops
    BY <1>2, <2>1, SendingIsOp DEF ResendMessage, RetryId
  <2> QED
    BY <1>2, <2>2 DEF ResendMessage, MailTypeOK, dirVars, DirTypeOK
<1>3. ASSUME AppendIdempotency
      PROVE  MailTypeOK'
  <2>1. op.key \in Keys /\ op.msg \in Messages /\ op.payload \in Payloads
    BY <1>0, <1>3, OpFields DEF AppendIdempotency
  <2>2. op' \in Ops
    BY <1>3, <2>1, SendingIsOp DEF AppendIdempotency
  <2>3. idempotency' \in
          [Keys -> [msg : Messages, payload : Payloads] \cup {NoRecord}]
    BY <1>3, <2>1 DEF AppendIdempotency, MailTypeOK
  <2> QED
    BY <1>3, <2>2, <2>3 DEF AppendIdempotency, MailTypeOK, dirVars, DirTypeOK
<1>4. ASSUME NEW r \in Recipients, Deliver(r)
      PROVE  MailTypeOK'
  <2> DEFINE d == <<op.msg, r>>
             rest == op.todo \ {r}
             fresh == Delivery("Unread", NoAgent, 0)
  <2>1. op.msg \in Messages /\ rest \in SUBSET Recipients
    BY <1>0, <1>4, OpFields DEF Deliver
  <2>2. d \in DeliveryIds
    BY <2>1 DEF DeliveryIds
  <2>3. /\ Sending(op.msg, rest, Targets(d, deliveries[d])) \in Ops
        /\ Sending(op.msg, rest, Targets(d, fresh)) \in Ops
        /\ Sending(op.msg, rest, {}) \in Ops
    BY <2>1, <2>2, TargetsAreRows, SendingIsOp
  <2>4. op' \in Ops
    BY <1>4, <2>3 DEF Deliver
  <2>5. deliveries' \in [DeliveryIds -> DeliveryRecords]
    <3>1. \/ deliveries' = deliveries
          \/ deliveries' = [deliveries EXCEPT ![d] = fresh]
      BY <1>4 DEF Deliver
    <3>2. deliveries \in [DeliveryIds -> DeliveryRecords]
      BY DEF MailTypeOK, DeliveryRecords
    <3>3. fresh \in DeliveryRecords
      BY FreshDelivery
    <3> HIDE DEF d, fresh
    <3> QED
      BY <2>2, <3>1, <3>2, <3>3
  <2>6. deadLetters' \subseteq DeliveryIds
    BY <1>4, <2>2 DEF Deliver, MailTypeOK
  <2> QED
    BY <1>4, <2>4, <2>5, <2>6
       DEF Deliver, MailTypeOK, DeliveryRecords, dirVars, DirTypeOK
<1>5. ASSUME NEW n \in NotifIds, AppendNotification(n)
      PROVE  MailTypeOK'
  <2>1. notifs' \in [NotifIds -> NotifRecords]
    BY <1>5, FreshNotification DEF AppendNotification, MailTypeOK, NotifRecords
  <2>2. CASE op.kind = "send"
    <3>1. op' \in Ops
      BY <1>0, <1>5, <2>2, OpFields, SendingIsOp DEF AppendNotification
    <3> QED
      BY <1>5, <2>1, <3>1
         DEF AppendNotification, MailTypeOK, NotifRecords, dirVars, DirTypeOK
  <2>3. CASE op.kind \in {"poll", "dispatch"}
    <3>1. op' \in Ops
      BY <1>0, <1>5, <2>3 DEF AppendNotification, Ops, Free
    <3> QED
      BY <1>5, <2>1, <3>1
         DEF AppendNotification, MailTypeOK, NotifRecords, dirVars, DirTypeOK
  <2> QED
    BY <1>5, <2>2, <2>3 DEF AppendNotification
<1> QED
  BY <1>1, <1>2, <1>3, <1>4, <1>5 DEF SendSteps

LEMMA WorkTypeStep ==
  ASSUME MailTypeOK,
         \/ \E a \in Agents, d \in DeliveryIds :
              \/ ClaimDelivery(a, d)
              \/ \E state \in MarkStates : MarkDelivery(a, d, state)
              \/ \E until \in WakeTimes : SnoozeDelivery(a, d, until)
         \/ WorkSteps
  PROVE  MailTypeOK'
<1> USE DirectoryAssumption, MailAssumption
<1>0. op \in Ops /\ deliveries \in [DeliveryIds -> DeliveryRecords]
  BY DEF MailTypeOK, DeliveryRecords
<1>1. ASSUME NEW a \in Agents, NEW d \in DeliveryIds,
             NEW state \in OpenStates \cup FinalStates,
             NEW by \in Agents \cup {NoAgent}, NEW until \in Times,
             Transition(a, d, state, by, until)
      PROVE  MailTypeOK'
  <2>1. Delivery(state, by, until) \in DeliveryRecords
    BY DEF Delivery, DeliveryRecords
  <2>2. deliveries' \in [DeliveryIds -> DeliveryRecords]
    BY <1>0, <1>1, <2>1 DEF Transition
  <2>3. op' \in Ops
    BY <1>1 DEF Transition, Ops
  <2> QED
    BY <1>1, <2>2, <2>3
       DEF Transition, MailTypeOK, DeliveryRecords, dirVars, DirTypeOK
<1>2. ASSUME NEW a \in Agents, NEW d \in DeliveryIds, ClaimDelivery(a, d)
      PROVE  MailTypeOK'
  <2>1. Transition(a, d, "Claimed", a, 0)
    BY <1>2 DEF ClaimDelivery
  <2>2. "Claimed" \in OpenStates /\ 0 \in Times
    BY DEF OpenStates, Times
  <2> QED
    BY <1>1, <2>1, <2>2
<1>3. ASSUME NEW a \in Agents, NEW d \in DeliveryIds,
             NEW state \in MarkStates, MarkDelivery(a, d, state)
      PROVE  MailTypeOK'
  <2> DEFINE by == IF state = "Read" THEN deliveries[d].claimedBy ELSE a
  <2>1. Transition(a, d, state, by, 0)
    BY <1>3 DEF MarkDelivery
  <2>2. by \in Agents \cup {NoAgent}
    BY <1>0 DEF DeliveryRecords, Absent, Delivery
  <2>3. state \in OpenStates \cup FinalStates /\ 0 \in Times
    BY DEF MarkStates, OpenStates, Times
  <2> HIDE DEF by
  <2> QED
    BY <1>1, <2>1, <2>2, <2>3
<1>4. ASSUME NEW a \in Agents, NEW d \in DeliveryIds,
             NEW until \in WakeTimes, SnoozeDelivery(a, d, until)
      PROVE  MailTypeOK'
  <2>1. Transition(a, d, "Snoozed", a, until)
    BY <1>4 DEF SnoozeDelivery
  <2>2. "Snoozed" \in OpenStates /\ until \in Times
    BY DEF OpenStates
  <2> QED
    BY <1>1, <2>1, <2>2
<1>5. ASSUME AppendClaim
      PROVE  MailTypeOK'
  <2>1. op.id \in DeliveryIds /\ op.agent \in Agents
    BY <1>0, <1>5, OpFields DEF AppendClaim
  <2>2. op' \in Ops
    <3>1. Suppressing(Competing(op.agent, op.id)) \in Ops /\ Free \in Ops
      BY <2>1, CompetingAreRows, SuppressingIsOp DEF Ops
    <3> QED
      BY <1>5, <3>1 DEF AppendClaim
  <2>3. deliveries[op.id].state \in {"Absent"} \cup OpenStates \cup FinalStates
    BY <1>0, <2>1 DEF DeliveryRecords, Absent, Delivery
  <2> QED
    BY <1>5, <2>1, <2>2, <2>3 DEF AppendClaim, MailTypeOK, dirVars, DirTypeOK
<1>6. ASSUME NEW n \in NotifIds, Suppress(n)
      PROVE  MailTypeOK'
  <2>1. op' \in Ops
    BY <1>0, <1>6, OpFields, SuppressingIsOp DEF Suppress
  <2>2. notifs' \in [NotifIds -> NotifRecords]
    BY <1>6 DEF Suppress, MailTypeOK, NotifRecords
  <2> QED
    BY <1>6, <2>1, <2>2 DEF Suppress, MailTypeOK, NotifRecords, dirVars, DirTypeOK
<1> QED
  BY <1>2, <1>3, <1>4, <1>5, <1>6 DEF WorkSteps

LEMMA NotifyTypeStep ==
  ASSUME MailTypeOK,
         \/ \E a \in Agents :
              \/ NotificationPoll(a)
              \/ NotificationDispatchQueue(a)
              \/ \E n \in NotifIds : AcknowledgeNotification(a, n)
         \/ \E n \in NotifIds, outcome \in Outcomes : RecordAttempt(n, outcome)
         \/ NotifySteps
         \/ MailCrash
  PROVE  MailTypeOK'
<1> USE DirectoryAssumption, MailAssumption
<1>0. /\ op \in Ops /\ Free \in Ops
      /\ notifs \in [NotifIds -> NotifRecords]
  BY DEF MailTypeOK, NotifRecords, Ops
<1>1. ASSUME NEW a \in Agents, NotificationPoll(a)
      PROVE  MailTypeOK'
  <2>1. op' \in Ops
    BY <1>1, MissingAreRows DEF NotificationPoll, Ops
  <2> QED
    BY <1>1, <2>1 DEF NotificationPoll, MailTypeOK, dirVars, DirTypeOK
<1>2. ASSUME NEW a \in Agents, NotificationDispatchQueue(a)
      PROVE  MailTypeOK'
  <2>1. op' \in Ops
    BY <1>2, MissingAreRows DEF NotificationDispatchQueue, Ops
  <2> QED
    BY <1>2, <2>1 DEF NotificationDispatchQueue, MailTypeOK, dirVars, DirTypeOK
<1>3. ASSUME NEW a \in Agents, NEW n \in NotifIds, AcknowledgeNotification(a, n)
      PROVE  MailTypeOK'
  <2>1. notifs' \in [NotifIds -> NotifRecords]
    BY <1>0, <1>3 DEF AcknowledgeNotification, NotifRecords
  <2> QED
    BY <1>3, <2>1
       DEF AcknowledgeNotification, MailTypeOK, NotifRecords, dirVars, DirTypeOK
<1>4. ASSUME NEW n \in NotifIds, NEW outcome \in Outcomes,
             RecordAttempt(n, outcome)
      PROVE  MailTypeOK'
  <2>1. now \in Times
    BY DEF MailTypeOK, DirTypeOK
  <2>2. op' \in Ops
    BY <1>4, <2>1 DEF RecordAttempt, Ops
  <2>3. attempts' \subseteq [notif : NotifIds, at : Times, outcome : Outcomes]
    BY <1>4, <2>1 DEF RecordAttempt, MailTypeOK
  <2> QED
    BY <1>4, <2>2, <2>3 DEF RecordAttempt, MailTypeOK, dirVars, DirTypeOK
<1>5. ASSUME PollReturn \/ MailCrash
      PROVE  MailTypeOK'
  BY <1>0, <1>5 DEF PollReturn, MailCrash, MailTypeOK, dirVars, DirTypeOK
<1>6. ASSUME AppendAttemptResult
      PROVE  MailTypeOK'
  <2> DEFINE next == NextDispatch(op.at, op.outcome)
             count == notifs[op.notif].attempts + 1
             row == Notification(notifs[op.notif].state, count, next)
  <2>1. op.notif \in NotifIds /\ op.at \in Times
    BY <1>0, <1>6, OpFields DEF AppendAttemptResult
  <2>2. next \in 0 .. (MaxTime + RetryDelay)
    BY <2>1 DEF NextDispatch, Times
  <2>3. count \in Nat
    BY <1>0, <2>1 DEF NotifRecords
  <2>4. notifs' = [notifs EXCEPT ![op.notif] = row]
    BY <1>6 DEF AppendAttemptResult
  <2> HIDE DEF next, count
  <2>5. row \in NotifRecords
    BY <1>0, <2>1, <2>2, <2>3 DEF Notification, NotifRecords
  <2> HIDE DEF row
  <2>6. notifs' \in [NotifIds -> NotifRecords]
    BY <1>0, <2>1, <2>4, <2>5
  <2> QED
    BY <1>0, <1>6, <2>6
       DEF AppendAttemptResult, MailTypeOK, NotifRecords, dirVars, DirTypeOK
<1> QED
  BY <1>1, <1>2, <1>3, <1>4, <1>5, <1>6 DEF NotifySteps

LEMMA MailTypeStep == MailTypeOK /\ [MailNext]_vars => MailTypeOK'
<1> SUFFICES ASSUME MailTypeOK, [MailNext]_vars PROVE MailTypeOK'
  OBVIOUS
<1>1. CASE Directory
  <2>1. DirTypeOK'
    BY <1>1, DirTypeStep DEF Directory, MailTypeOK
  <2> QED
    BY <1>1, <2>1 DEF Directory, MailTypeOK, mailVars, Ops
<1>2. CASE UNCHANGED vars
  BY <1>2 DEF vars, dirVars, mailVars, MailTypeOK, DirTypeOK, Ops
<1> QED
  BY <1>1, <1>2, SendTypeStep, WorkTypeStep, NotifyTypeStep DEF MailNext

(* The ledgers, the directory and the lock holder's remaining work always  *)
(* have their declared shape.                                              *)
THEOREM MailTypeInvariant == MailSpec => []MailTypeOK
BY MailTypeInit, MailTypeStep, PTL DEF MailSpec

-----------------------------------------------------------------------------
(* AgentMail implements MailWork.  Only Deliver and Transition touch the   *)
(* delivery ledger; everything else is a stuttering step of MailWork.      *)
LEMMA UntouchedIsStutter ==
  ASSUME deliveries' = deliveries
  PROVE  UNCHANGED Work!workVars
BY DEF Work!workVars, Phase, Exists, IsOpen

(* A posted delivery is fresh, open and unowned.                           *)
LEMMA DeliverIsWork ==
  ASSUME MailTypeOK, NEW r \in Recipients, Deliver(r)
  PROVE  [Work!WorkNext]_(Work!workVars)
<1> DEFINE fresh == Delivery("Unread", NoAgent, 0)
<1>1. PICK d \in DeliveryIds : d = <<op.msg, r>>
  BY OpFields DEF Deliver, MailTypeOK, DeliveryIds
<1>2. CASE deliveries' = deliveries
  BY <1>2, UntouchedIsStutter
<1>3. CASE deliveries' # deliveries
  <2>1. ~Exists(d) /\ deliveries' = [deliveries EXCEPT ![d] = fresh]
    BY <1>1, <1>3 DEF Deliver, AlreadyDelivered
  <2>2. fresh.state = "Unread" /\ fresh.claimedBy = NoAgent
    BY DEF Delivery
  <2> HIDE DEF fresh
  <2>3. deliveries \in [DeliveryIds -> DeliveryRecords]
    BY DEF MailTypeOK
  <2>4. deliveries[d].claimedBy = NoAgent
    BY <2>1, <2>3
       DEF Exists, DeliveryRecords, OpenStates, FinalStates, Absent, Delivery
  <2>5. /\ deliveries'[d].state = "Unread"
        /\ deliveries'[d].claimedBy = NoAgent
        /\ \A x \in DeliveryIds \ {d} : deliveries'[x] = deliveries[x]
    BY <2>1, <2>2, <2>3
  <2>6. Phase(d) = "none"
    BY <2>1 DEF Phase
  <2>7. Phase(d)' = "open"
    BY <2>5 DEF Phase, Exists, IsOpen, OpenStates
  <2>8. \A x \in DeliveryIds \ {d} : Phase(x)' = Phase(x)
    BY <2>5 DEF Phase, Exists, IsOpen
  <2>9. Work!Post(d)
    BY <2>4, <2>5, <2>6, <2>7, <2>8 DEF Work!Post
  <2> QED
    BY <2>9 DEF Work!WorkNext
<1> QED
  BY <1>2, <1>3

(* A transition that keeps the work open leaves its owner or takes it for  *)
(* the actor.                                                              *)
LEMMA OpenTransitionIsWork ==
  ASSUME MailTypeOK, NEW a \in Agents, NEW d \in DeliveryIds,
         NEW state \in OpenStates, NEW by \in {deliveries[d].claimedBy, a},
         NEW until, MayWork(a, d), Transition(a, d, state, by, until)
  PROVE  [Work!WorkNext]_(Work!workVars)
<1>1. deliveries \in [DeliveryIds -> DeliveryRecords]
  BY DEF MailTypeOK
<1>2. /\ deliveries'[d].state = state /\ deliveries'[d].claimedBy = by
      /\ \A x \in DeliveryIds \ {d} : deliveries'[x] = deliveries[x]
  BY <1>1 DEF Transition, Delivery
<1>3. Phase(d) = "open" /\ Phase(d)' = "open"
  BY <1>2 DEF MayWork, Phase, Exists, IsOpen, OpenStates
<1>4. \A x \in DeliveryIds \ {d} : Phase(x)' = Phase(x)
  BY <1>2 DEF Phase, Exists, IsOpen
<1>5. CASE by = deliveries[d].claimedBy
  BY <1>2, <1>3, <1>4, <1>5 DEF Work!workVars
<1>6. CASE by # deliveries[d].claimedBy
  <2>1. deliveries[d].claimedBy = NoAgent /\ by = a
    BY <1>6 DEF MayWork, FreeFor
  <2>2. Work!Take(d, a)
    BY <1>2, <1>3, <1>4, <2>1 DEF Work!Take
  <2> QED
    BY <2>2 DEF Work!WorkNext
<1> QED
  BY <1>5, <1>6

(* A transition that finishes the work is the owner's.                     *)
LEMMA FinalTransitionIsWork ==
  ASSUME MailTypeOK, NEW a \in Agents, NEW d \in DeliveryIds,
         NEW state \in FinalStates, NEW until,
         deliveries[d].claimedBy # NoAgent,
         MayWork(a, d), Transition(a, d, state, a, until)
  PROVE  [Work!WorkNext]_(Work!workVars)
<1>1. deliveries \in [DeliveryIds -> DeliveryRecords]
  BY DEF MailTypeOK
<1>2. /\ deliveries'[d].state = state /\ deliveries'[d].claimedBy = a
      /\ \A x \in DeliveryIds \ {d} : deliveries'[x] = deliveries[x]
  BY <1>1 DEF Transition, Delivery
<1>3. deliveries[d].claimedBy = a
  BY DEF MayWork, FreeFor
<1>4. Phase(d) = "open" /\ Phase(d)' = "finished"
  BY <1>2 DEF MayWork, Phase, Exists, IsOpen, OpenStates, FinalStates
<1>5. \A x \in DeliveryIds \ {d} : Phase(x)' = Phase(x)
  BY <1>2 DEF Phase, Exists, IsOpen
<1>6. Work!Finish(d, a)
  BY <1>2, <1>3, <1>4, <1>5 DEF Work!Finish
<1> QED
  BY <1>6 DEF Work!WorkNext

LEMMA MailStepIsWork ==
  MailTypeOK /\ [MailNext]_vars => [Work!WorkNext]_(Work!workVars)
<1> SUFFICES ASSUME MailTypeOK, [MailNext]_vars
             PROVE  [Work!WorkNext]_(Work!workVars)
  OBVIOUS
<1>1. ASSUME NEW a \in Agents, NEW d \in DeliveryIds, ClaimDelivery(a, d)
      PROVE  [Work!WorkNext]_(Work!workVars)
  <2>1. "Claimed" \in OpenStates
    BY DEF OpenStates
  <2> QED
    BY <1>1, <2>1, OpenTransitionIsWork DEF ClaimDelivery
<1>2. ASSUME NEW a \in Agents, NEW d \in DeliveryIds, NEW until \in WakeTimes,
             SnoozeDelivery(a, d, until)
      PROVE  [Work!WorkNext]_(Work!workVars)
  <2>1. "Snoozed" \in OpenStates
    BY DEF OpenStates
  <2> QED
    BY <1>2, <2>1, OpenTransitionIsWork DEF SnoozeDelivery
<1>3. ASSUME NEW a \in Agents, NEW d \in DeliveryIds, NEW state \in MarkStates,
             MarkDelivery(a, d, state)
      PROVE  [Work!WorkNext]_(Work!workVars)
  <2>1. CASE state = "Read"
    <3>1. "Read" \in OpenStates
      BY DEF OpenStates
    <3>2. Transition(a, d, "Read", deliveries[d].claimedBy, 0) /\ MayWork(a, d)
      BY <1>3, <2>1 DEF MarkDelivery
    <3> QED
      BY <3>1, <3>2, OpenTransitionIsWork
  <2>2. CASE state # "Read"
    <3>1. state \in FinalStates
      BY <2>2 DEF MarkStates
    <3>2. /\ Transition(a, d, state, a, 0) /\ MayWork(a, d)
          /\ deliveries[d].claimedBy # NoAgent
      BY <1>3, <2>2 DEF MarkDelivery, MarkAllowed
    <3> QED
      BY <3>1, <3>2, FinalTransitionIsWork
  <2> QED
    BY <2>1, <2>2
<1>4. CASE Directory \/ MailCrash \/ WorkSteps \/ NotifySteps \/ UNCHANGED vars
  <2>1. deliveries' = deliveries
    BY <1>4
       DEF Directory, MailCrash, WorkSteps, AppendClaim, Suppress, NotifySteps,
           PollReturn, AppendAttemptResult, vars, mailVars
  <2> QED
    BY <2>1, UntouchedIsStutter
<1>5. ASSUME NEW k \in Keys, NEW m \in Messages, NEW p \in Payloads,
             AcceptMessage(k, m, p) \/ ResendMessage(k, m, p)
      PROVE  [Work!WorkNext]_(Work!workVars)
  BY <1>5, UntouchedIsStutter DEF AcceptMessage, ResendMessage
<1>6. CASE SendSteps
  <2>1. CASE AppendIdempotency
    BY <2>1, UntouchedIsStutter DEF AppendIdempotency
  <2>2. CASE \E r \in Recipients : Deliver(r)
    BY <2>2, DeliverIsWork
  <2>3. CASE \E n \in NotifIds : AppendNotification(n)
    BY <2>3, UntouchedIsStutter DEF AppendNotification
  <2> QED
    BY <1>6, <2>1, <2>2, <2>3 DEF SendSteps
<1>7. ASSUME NEW a \in Agents,
             \/ NotificationPoll(a)
             \/ NotificationDispatchQueue(a)
             \/ \E n \in NotifIds : AcknowledgeNotification(a, n)
      PROVE  [Work!WorkNext]_(Work!workVars)
  BY <1>7, UntouchedIsStutter
     DEF NotificationPoll, NotificationDispatchQueue, AcknowledgeNotification
<1>8. ASSUME NEW n \in NotifIds, NEW outcome \in Outcomes,
             RecordAttempt(n, outcome)
      PROVE  [Work!WorkNext]_(Work!workVars)
  BY <1>8, UntouchedIsStutter DEF RecordAttempt
<1> QED
  BY <1>1, <1>2, <1>3, <1>4, <1>5, <1>6, <1>7, <1>8 DEF MailNext

(* The mail store implements MailWork: under every interleaving of agents, *)
(* senders, pollers and kills a delivery is posted once, owned by at most  *)
(* one agent for good, finished only by its owner and never reopened.      *)
THEOREM MailImplementsWork == MailSpec => ImplementsWork
<1>1. MailInit => Work!WorkInit
  BY DEF MailInit, Work!WorkInit, Phase, Exists, IsOpen, Absent, Delivery
<1> QED
  BY <1>1, MailStepIsWork, MailTypeInvariant, PTL
     DEF MailSpec, ImplementsWork, Work!WorkSpec

-----------------------------------------------------------------------------
(* The store leaves the directory to the directory's own processes.        *)
LEMMA MailStepIsDirectory ==
  ASSUME [MailNext]_vars
  PROVE  [DirNext]_dirVars
<1>1. CASE UNCHANGED vars
  BY <1>1 DEF vars
<1>2. CASE Directory
  BY <1>2 DEF Directory
<1>3. ASSUME NEW k \in Keys, NEW m \in Messages, NEW p \in Payloads,
             AcceptMessage(k, m, p) \/ ResendMessage(k, m, p)
      PROVE  UNCHANGED dirVars
  BY <1>3 DEF AcceptMessage, ResendMessage
<1>4. ASSUME NEW a \in Agents, NEW d \in DeliveryIds,
             \/ ClaimDelivery(a, d)
             \/ \E state \in MarkStates : MarkDelivery(a, d, state)
             \/ \E until \in WakeTimes : SnoozeDelivery(a, d, until)
      PROVE  UNCHANGED dirVars
  BY <1>4 DEF ClaimDelivery, MarkDelivery, SnoozeDelivery, Transition
<1>5. ASSUME NEW a \in Agents,
             \/ NotificationPoll(a)
             \/ NotificationDispatchQueue(a)
             \/ \E n \in NotifIds : AcknowledgeNotification(a, n)
      PROVE  UNCHANGED dirVars
  BY <1>5 DEF NotificationPoll, NotificationDispatchQueue, AcknowledgeNotification
<1>6. CASE SendSteps
  BY <1>6 DEF SendSteps, AppendIdempotency, Deliver, AppendNotification
<1>7. CASE WorkSteps \/ NotifySteps \/ MailCrash
  BY <1>7 DEF WorkSteps, AppendClaim, Suppress, NotifySteps, PollReturn,
     AppendAttemptResult, MailCrash
<1>8. ASSUME NEW n \in NotifIds, NEW outcome \in Outcomes, RecordAttempt(n, outcome)
      PROVE  UNCHANGED dirVars
  BY <1>8 DEF RecordAttempt
<1> QED
  BY <1>1, <1>2, <1>3, <1>4, <1>5, <1>6, <1>7, <1>8 DEF MailNext

(* Under the store the directory is the directory: no send, claim, poll,   *)
(* dispatch or kill of the lock holder touches agents or leases, so what   *)
(* holds of the directory alone holds of it here.                          *)
THEOREM MailKeepsTheDirectory == MailSpec => DirSpec
<1>1. MailInit => DirInit
  BY DEF MailInit
<1> QED
  BY <1>1, MailStepIsDirectory, PTL DEF MailSpec, DirSpec

(* With the whole store running: a retired agent with no earlier identify  *)
(* in flight stays retired (identify_agent).                               *)
THEOREM RetirementIsFinalInTheStore == MailSpec => RetiredIsFinalOnceQuiet
  BY MailKeepsTheDirectory, RetirementIsFinalOnceQuiet

-----------------------------------------------------------------------------
(* What the delivery ledger keeps from one step to the next: an owner      *)
(* stays, and a delivery that changes was open or absent.                  *)
LEMMA OwnersStay ==
  ASSUME MailTypeOK, [MailNext]_vars, NEW d \in DeliveryIds,
         deliveries[d].claimedBy # NoAgent
  PROVE  deliveries'[d].claimedBy = deliveries[d].claimedBy
<1>1. [Work!WorkNext]_(Work!workVars)
  BY MailStepIsWork
<1>2. CASE UNCHANGED Work!workVars
  BY <1>2 DEF Work!workVars
<1>3. ASSUME NEW i \in DeliveryIds, Work!Post(i)
      PROVE  deliveries'[d].claimedBy = deliveries[d].claimedBy
  BY <1>3 DEF Work!Post
<1>4. ASSUME NEW i \in DeliveryIds, NEW w \in Agents,
             Work!Take(i, w) \/ Work!Finish(i, w)
      PROVE  deliveries'[d].claimedBy = deliveries[d].claimedBy
  BY <1>4 DEF Work!Take, Work!Finish
<1> QED
  BY <1>1, <1>2, <1>3, <1>4 DEF Work!WorkNext

(* SuppressedMeansTaken, strengthened by what a suppression under way will *)
(* still write.                                                            *)
SuppressionInv ==
    /\ SuppressedMeansTaken
    /\ op.kind = "suppress" =>
         \A n \in op.notify : deliveries[n[1]].claimedBy \notin {NoAgent, n[2]}

LEMMA SuppressionStep ==
  MailTypeOK /\ SuppressionInv /\ [MailNext]_vars => SuppressionInv'
<1> SUFFICES ASSUME MailTypeOK, SuppressionInv, [MailNext]_vars
             PROVE  SuppressionInv'
  OBVIOUS
<1>0. \A n \in NotifIds : n[1] \in DeliveryIds
  BY DEF NotifIds
<1>1. ASSUME NEW n \in NotifIds,
             deliveries[n[1]].claimedBy \notin {NoAgent, n[2]}
      PROVE  deliveries'[n[1]].claimedBy \notin {NoAgent, n[2]}
  BY <1>0, <1>1, OwnersStay
<1>2. op \in Ops /\ notifs \in [NotifIds -> NotifRecords]
  BY DEF MailTypeOK
<1>3. ASSUME \A n \in NotifIds :
               notifs'[n].state = "Suppressed" => notifs[n].state = "Suppressed",
             op'.kind = "suppress" => op' = op
      PROVE  SuppressionInv'
  BY <1>1, <1>2, <1>3, OpFields DEF SuppressionInv, SuppressedMeansTaken
<1>4. CASE AppendClaim
  <2>1. op.id \in DeliveryIds /\ op.agent \in Agents
    BY <1>2, <1>4, OpFields DEF AppendClaim
  <2>2. op'.kind = "suppress" =>
          /\ deliveries[op.id].claimedBy = op.agent
          /\ op'.notify = Competing(op.agent, op.id)
    BY <1>4 DEF AppendClaim, Suppressing, Free
  <2>3. \A n \in Competing(op.agent, op.id) : n[1] = op.id /\ n[2] # op.agent
    BY DEF Competing
  <2>4. notifs' = notifs /\ deliveries' = deliveries
    BY <1>4 DEF AppendClaim
  <2> QED
    BY <2>1, <2>2, <2>3, <2>4, MailAssumption
       DEF SuppressionInv, SuppressedMeansTaken
<1>5. ASSUME NEW n \in NotifIds, Suppress(n)
      PROVE  SuppressionInv'
  <2>1. deliveries[n[1]].claimedBy \notin {NoAgent, n[2]}
    BY <1>5 DEF Suppress, SuppressionInv
  <2>2. \A x \in NotifIds \ {n} : notifs'[x] = notifs[x]
    BY <1>2, <1>5 DEF Suppress
  <2>3. op'.kind = "suppress" => op'.notify \subseteq op.notify
    BY <1>5 DEF Suppress, Suppressing, Free
  <2>4. deliveries' = deliveries /\ op.kind = "suppress"
    BY <1>5 DEF Suppress
  <2> QED
    BY <2>1, <2>2, <2>3, <2>4 DEF SuppressionInv, SuppressedMeansTaken
<1>6. CASE Directory \/ UNCHANGED vars
  BY <1>3, <1>6 DEF Directory, vars, mailVars
<1>7. CASE SendSteps
  <2>1. CASE AppendIdempotency
    BY <1>3, <2>1 DEF AppendIdempotency, Sending, Free
  <2>2. ASSUME NEW r \in Recipients, Deliver(r)
        PROVE  SuppressionInv'
    <3>1. notifs' = notifs /\ op'.kind # "suppress"
      BY <2>2 DEF Deliver, Sending, Free
    <3> QED
      BY <1>3, <3>1
  <2>3. ASSUME NEW n \in NotifIds, AppendNotification(n)
        PROVE  SuppressionInv'
    <3>1. op'.kind # "suppress"
      BY <1>2, <2>3 DEF AppendNotification, Sending, Free, Ops
    <3>2. \A x \in NotifIds :
            notifs'[x].state = "Suppressed" => notifs[x].state = "Suppressed"
      BY <1>2, <2>3 DEF AppendNotification, Notification
    <3> QED
      BY <1>3, <3>1, <3>2
  <2> QED
    BY <1>7, <2>1, <2>2, <2>3 DEF SendSteps
<1>8. ASSUME NEW k \in Keys, NEW m \in Messages, NEW p \in Payloads,
             AcceptMessage(k, m, p) \/ ResendMessage(k, m, p)
      PROVE  SuppressionInv'
  BY <1>3, <1>8 DEF AcceptMessage, ResendMessage, Sending, Free
<1>9. ASSUME NEW a \in Agents, NEW d \in DeliveryIds,
             \/ ClaimDelivery(a, d)
             \/ \E state \in MarkStates : MarkDelivery(a, d, state)
             \/ \E until \in WakeTimes : SnoozeDelivery(a, d, until)
      PROVE  SuppressionInv'
  BY <1>3, <1>9 DEF ClaimDelivery, MarkDelivery, SnoozeDelivery, Transition
<1>10. ASSUME NEW a \in Agents,
              \/ NotificationPoll(a)
              \/ NotificationDispatchQueue(a)
              \/ \E n \in NotifIds : AcknowledgeNotification(a, n)
       PROVE  SuppressionInv'
  <2>1. CASE NotificationPoll(a) \/ NotificationDispatchQueue(a)
    BY <1>3, <2>1 DEF NotificationPoll, NotificationDispatchQueue
  <2>2. ASSUME NEW n \in NotifIds, AcknowledgeNotification(a, n)
        PROVE  SuppressionInv'
    <3>1. \A x \in NotifIds :
            notifs'[x].state = "Suppressed" => notifs[x].state = "Suppressed"
      BY <1>2, <2>2 DEF AcknowledgeNotification, NotifRecords
    <3> QED
      BY <1>3, <2>2, <3>1 DEF AcknowledgeNotification
  <2> QED
    BY <1>10, <2>1, <2>2
<1>11. CASE PollReturn \/ MailCrash
  BY <1>3, <1>11 DEF PollReturn, MailCrash, Free
<1>12. CASE AppendAttemptResult
  <2>1. op.notif \in NotifIds
    BY <1>2, <1>12, OpFields DEF AppendAttemptResult
  <2>2. \A x \in NotifIds : notifs'[x].state = notifs[x].state
    BY <1>2, <1>12, <2>1 DEF AppendAttemptResult, Notification, NotifRecords
  <2> QED
    BY <1>3, <1>12, <2>2 DEF AppendAttemptResult, Free
<1>13. ASSUME NEW n \in NotifIds, NEW outcome \in Outcomes,
              RecordAttempt(n, outcome)
       PROVE  SuppressionInv'
  BY <1>3, <1>13 DEF RecordAttempt
<1> QED
  BY <1>4, <1>5, <1>6, <1>7, <1>8, <1>9, <1>10, <1>11, <1>12, <1>13
     DEF MailNext, WorkSteps, NotifySteps

(* No agent that could still take a delivery has lost its wakeup for it.   *)
THEOREM SuppressionIsSafe == MailSpec => []SuppressedMeansTaken
<1>1. MailInit => SuppressionInv
  BY DEF MailInit, SuppressionInv, SuppressedMeansTaken, NoNotif, Notification,
         Free
<1>2. SuppressionInv => SuppressedMeansTaken
  BY DEF SuppressionInv
<1> QED
  BY <1>1, <1>2, SuppressionStep, MailTypeInvariant, PTL DEF MailSpec

-----------------------------------------------------------------------------
(* ClaimEvidence, strengthened by what the event still to be logged says.  *)
ClaimInv ==
    /\ \A d \in DeliveryIds :
         claims[d].state \notin {"Absent", "Unread", "Read"} =>
           claims[d].agent # NoAgent /\ deliveries[d].claimedBy = claims[d].agent
    /\ (op.kind = "event"
          /\ deliveries[op.id].state \notin {"Absent", "Unread", "Read"})
         => deliveries[op.id].claimedBy = op.agent

LEMMA ClaimStep ==
  MailTypeOK /\ ClaimInv /\ [MailNext]_vars => ClaimInv'
<1> SUFFICES ASSUME MailTypeOK, ClaimInv, [MailNext]_vars
             PROVE  ClaimInv'
  OBVIOUS
<1>1. op \in Ops /\ deliveries \in [DeliveryIds -> DeliveryRecords]
  BY DEF MailTypeOK
<1>2. ASSUME claims' = claims,
             op'.kind = "event" => op' = op /\ deliveries' = deliveries
      PROVE  ClaimInv'
  <2>1. \A d \in DeliveryIds :
          claims'[d].state \notin {"Absent", "Unread", "Read"} =>
            /\ claims'[d].agent # NoAgent
            /\ deliveries'[d].claimedBy = claims'[d].agent
    BY <1>2, OwnersStay DEF ClaimInv
  <2> QED
    BY <1>2, <2>1 DEF ClaimInv
<1>3. ASSUME NEW a \in Agents, NEW d \in DeliveryIds, NEW state, NEW by,
             NEW until, Transition(a, d, state, by, until),
             state = "Read" \/ by = a
      PROVE  ClaimInv'
  <2>1. \A x \in DeliveryIds :
          claims'[x].state \notin {"Absent", "Unread", "Read"} =>
            /\ claims'[x].agent # NoAgent
            /\ deliveries'[x].claimedBy = claims'[x].agent
    BY <1>3, OwnersStay DEF ClaimInv, Transition
  <2>2. op' = [kind |-> "event", id |-> d, agent |-> a]
    BY <1>3 DEF Transition
  <2>3. deliveries'[d].state = state /\ deliveries'[d].claimedBy = by
    BY <1>1, <1>3 DEF Transition, Delivery
  <2> QED
    BY <1>3, <2>1, <2>2, <2>3 DEF ClaimInv
<1>4. ASSUME NEW a \in Agents, NEW d \in DeliveryIds,
             \/ ClaimDelivery(a, d)
             \/ \E state \in MarkStates : MarkDelivery(a, d, state)
             \/ \E until \in WakeTimes : SnoozeDelivery(a, d, until)
      PROVE  ClaimInv'
  <2>1. CASE ClaimDelivery(a, d)
    BY <1>3, <2>1 DEF ClaimDelivery
  <2>2. ASSUME NEW state \in MarkStates, MarkDelivery(a, d, state)
        PROVE  ClaimInv'
    <3> DEFINE by == IF state = "Read" THEN deliveries[d].claimedBy ELSE a
    <3>1. Transition(a, d, state, by, 0) /\ (state = "Read" \/ by = a)
      BY <2>2 DEF MarkDelivery
    <3> HIDE DEF by
    <3> QED
      BY <1>3, <3>1
  <2>3. ASSUME NEW until \in WakeTimes, SnoozeDelivery(a, d, until)
        PROVE  ClaimInv'
    BY <1>3, <2>3 DEF SnoozeDelivery
  <2> QED
    BY <1>4, <2>1, <2>2, <2>3
<1>5. CASE AppendClaim
  <2>1. op.id \in DeliveryIds /\ op.agent \in Agents /\ op.kind = "event"
    BY <1>1, <1>5, OpFields DEF AppendClaim
  <2>2. op'.kind # "event" /\ deliveries' = deliveries
    BY <1>5 DEF AppendClaim, Suppressing, Free
  <2>3. claims'[op.id] = [agent |-> op.agent, state |-> deliveries[op.id].state]
    BY <1>5, <2>1 DEF AppendClaim, MailTypeOK
  <2>4. \A d \in DeliveryIds \ {op.id} : claims'[d] = claims[d]
    BY <1>5 DEF AppendClaim, MailTypeOK
  <2>5. op.agent # NoAgent
    BY <2>1, MailAssumption
  <2> QED
    BY <2>1, <2>2, <2>3, <2>4, <2>5 DEF ClaimInv
<1>6. ASSUME NEW n \in NotifIds, Suppress(n)
      PROVE  ClaimInv'
  BY <1>2, <1>6 DEF Suppress, Suppressing, Free
<1>7. CASE Directory \/ UNCHANGED vars
  BY <1>2, <1>7 DEF Directory, vars, mailVars
<1>8. CASE SendSteps
  <2>1. CASE AppendIdempotency
    BY <1>2, <2>1 DEF AppendIdempotency, Sending, Free
  <2>2. ASSUME NEW r \in Recipients, Deliver(r)
        PROVE  ClaimInv'
    <3>1. claims' = claims /\ op'.kind # "event"
      BY <2>2 DEF Deliver, Sending, Free
    <3> QED
      BY <1>2, <3>1
  <2>3. ASSUME NEW n \in NotifIds, AppendNotification(n)
        PROVE  ClaimInv'
    <3>1. claims' = claims /\ op'.kind # "event"
      BY <1>1, <2>3 DEF AppendNotification, Sending, Free, Ops
    <3> QED
      BY <1>2, <3>1
  <2> QED
    BY <1>8, <2>1, <2>2, <2>3 DEF SendSteps
<1>9. ASSUME NEW k \in Keys, NEW m \in Messages, NEW p \in Payloads,
             AcceptMessage(k, m, p) \/ ResendMessage(k, m, p)
      PROVE  ClaimInv'
  BY <1>2, <1>9 DEF AcceptMessage, ResendMessage, Sending, Free
<1>10. ASSUME NEW a \in Agents,
              \/ NotificationPoll(a)
              \/ NotificationDispatchQueue(a)
              \/ \E n \in NotifIds : AcknowledgeNotification(a, n)
       PROVE  ClaimInv'
  BY <1>2, <1>10
     DEF NotificationPoll, NotificationDispatchQueue, AcknowledgeNotification,
         Free
<1>11. CASE NotifySteps \/ MailCrash
  BY <1>2, <1>11
     DEF NotifySteps, PollReturn, AppendAttemptResult, MailCrash, Free
<1>12. ASSUME NEW n \in NotifIds, NEW outcome \in Outcomes,
              RecordAttempt(n, outcome)
       PROVE  ClaimInv'
  BY <1>2, <1>12 DEF RecordAttempt
<1> QED
  BY <1>4, <1>5, <1>6, <1>7, <1>8, <1>9, <1>10, <1>11, <1>12
     DEF MailNext, WorkSteps

(* The claim log never names a loser.                                      *)
THEOREM ClaimLogIsEvidence == MailSpec => []ClaimEvidence
<1>1. MailInit => ClaimInv
  BY DEF MailInit, ClaimInv, NoEvent, Free
<1>2. ClaimInv => ClaimEvidence
  BY DEF ClaimInv, ClaimEvidence
<1> QED
  BY <1>1, <1>2, ClaimStep, MailTypeInvariant, PTL DEF MailSpec

-----------------------------------------------------------------------------
(* CapacityRespected, with the finiteness its cardinalities need.          *)
CapacityInv ==
    \A r \in Recipients :
      IsFiniteSet(OpenFor(r)) /\ Cardinality(OpenFor(r)) <= Limit

LEMMA CapacityStep ==
  MailTypeOK /\ CapacityInv /\ [MailNext]_vars => CapacityInv'
<1> SUFFICES ASSUME MailTypeOK, CapacityInv, [MailNext]_vars,
                    NEW r \in Recipients
             PROVE  (IsFiniteSet(OpenFor(r)) /\ Cardinality(OpenFor(r)) <= Limit)'
  BY DEF CapacityInv
<1> DEFINE Before == {d \in DeliveryIds : d[2] = r /\ IsOpen(d)}
           After == {d \in DeliveryIds : d[2] = r /\ IsOpen(d)'}
<1>1. /\ IsFiniteSet(Before) /\ Cardinality(Before) \in Nat
      /\ Cardinality(Before) <= Limit
  BY FS_CardinalityType DEF CapacityInv, OpenFor
<1>2. SUFFICES IsFiniteSet(After) /\ Cardinality(After) <= Limit
  BY DEF OpenFor
<1>3. ASSUME After \subseteq Before
      PROVE  IsFiniteSet(After) /\ Cardinality(After) <= Limit
  <2> HIDE DEF Before, After
  <2>1. /\ IsFiniteSet(After) /\ Cardinality(After) <= Cardinality(Before)
        /\ Cardinality(After) \in Nat
    BY <1>1, <1>3, FS_Subset, FS_CardinalityType
  <2> QED
    BY <1>1, <2>1, MailAssumption
<1>4. CASE \E q \in Recipients : Deliver(q)
  <2>1. PICK q \in Recipients : Deliver(q)
    BY <1>4
  <2>2. PICK d \in DeliveryIds : d = <<op.msg, q>>
    BY <2>1, OpFields DEF Deliver, MailTypeOK, DeliveryIds
  <2>3. \A x \in DeliveryIds \ {d} : deliveries'[x] = deliveries[x]
    BY <2>1, <2>2 DEF Deliver, MailTypeOK
  <2>4. CASE deliveries' = deliveries \/ q # r
    <3>1. After \subseteq Before
      BY <2>2, <2>3, <2>4 DEF IsOpen
    <3> QED
      BY <1>3, <3>1
  <2>5. CASE deliveries' # deliveries /\ q = r
    <3>1. Cardinality(Before) < Limit
      <4>1. ~(Cardinality(Before) >= Limit)
        BY <2>1, <2>5 DEF Deliver, Full, OpenFor
      <4> HIDE DEF Before
      <4> QED
        BY <1>1, <4>1, MailAssumption
    <3>2. After \subseteq Before \cup {d}
      BY <2>3 DEF IsOpen
    <3> HIDE DEF Before, After
    <3>3. /\ IsFiniteSet(Before \cup {d})
          /\ Cardinality(Before \cup {d}) <= Cardinality(Before) + 1
      BY <1>1, FS_AddElement
    <3>4. /\ IsFiniteSet(After)
          /\ Cardinality(After) <= Cardinality(Before \cup {d})
          /\ Cardinality(After) \in Nat /\ Cardinality(Before \cup {d}) \in Nat
      BY <3>2, <3>3, FS_Subset, FS_CardinalityType
    <3> QED
      BY <1>1, <3>1, <3>3, <3>4, MailAssumption
  <2> QED
    BY <2>4, <2>5
<1>5. ASSUME NEW a \in Agents, NEW d \in DeliveryIds, NEW state, NEW by,
             NEW until, MayWork(a, d), Transition(a, d, state, by, until)
      PROVE  IsFiniteSet(After) /\ Cardinality(After) <= Limit
  <2>1. \A x \in DeliveryIds \ {d} : deliveries'[x] = deliveries[x]
    BY <1>5 DEF Transition, MailTypeOK
  <2>2. After \subseteq Before
    BY <1>5, <2>1 DEF IsOpen, MayWork
  <2> QED
    BY <1>3, <2>2
<1>6. CASE \E a \in Agents, d \in DeliveryIds :
             \/ ClaimDelivery(a, d)
             \/ \E state \in MarkStates : MarkDelivery(a, d, state)
             \/ \E until \in WakeTimes : SnoozeDelivery(a, d, until)
  BY <1>5, <1>6 DEF ClaimDelivery, MarkDelivery, SnoozeDelivery
<1>7. CASE deliveries' = deliveries
  BY <1>3, <1>7 DEF IsOpen
<1>8. \/ deliveries' = deliveries
      \/ \E q \in Recipients : Deliver(q)
      \/ \E a \in Agents, d \in DeliveryIds :
           \/ ClaimDelivery(a, d)
           \/ \E state \in MarkStates : MarkDelivery(a, d, state)
           \/ \E until \in WakeTimes : SnoozeDelivery(a, d, until)
  BY DEF MailNext, Directory, AcceptMessage, ResendMessage, NotificationPoll,
         NotificationDispatchQueue, AcknowledgeNotification, RecordAttempt,
         SendSteps, AppendIdempotency, AppendNotification, WorkSteps,
         AppendClaim, Suppress, NotifySteps, PollReturn, AppendAttemptResult,
         MailCrash, vars, mailVars
<1> QED
  BY <1>4, <1>6, <1>7, <1>8

(* No mailbox exceeds the limit, whatever is retried or killed half way.   *)
THEOREM CapacityIsRespected == MailSpec => []CapacityRespected
<1>1. MailInit => CapacityInv
  <2> SUFFICES ASSUME MailInit, NEW r \in Recipients
               PROVE  IsFiniteSet(OpenFor(r)) /\ Cardinality(OpenFor(r)) <= Limit
    BY DEF CapacityInv
  <2>1. OpenFor(r) = {}
    BY DEF MailInit, OpenFor, IsOpen, OpenStates, Absent, Delivery
  <2> QED
    BY <2>1, FS_EmptySet, MailAssumption
<1>2. CapacityInv => CapacityRespected
  BY DEF CapacityInv, CapacityRespected
<1> QED
  BY <1>1, <1>2, CapacityStep, MailTypeInvariant, PTL DEF MailSpec
-----------------------------------------------------------------------------
(* DeliveredWasAccepted, strengthened by what the lock holder has still to *)
(* deliver: a key is recorded once, after the message file it names, and   *)
(* only recipients of the recorded payload are left in a send.             *)
Accepted ==
    {d \in DeliveryIds :
       /\ stored[d[1]] # NoPayload
       /\ \E k \in Keys :
            /\ idempotency[k] # NoRecord
            /\ idempotency[k].msg = d[1]
            /\ d[2] \in To[idempotency[k].payload]}

AcceptedInv ==
    /\ \A k \in Keys :
         idempotency[k] # NoRecord => stored[idempotency[k].msg] # NoPayload
    /\ op.kind = "accept" =>
         stored[op.msg] # NoPayload /\ idempotency[op.key] = NoRecord
    /\ op.kind = "send" => \A r \in op.todo : <<op.msg, r>> \in Accepted
    /\ \A d \in DeliveryIds : Exists(d) => d \in Accepted

(* Message files and keys are written in a send only, and never taken back.*)
Keeps ==
    /\ \A m \in Messages : stored[m] # NoPayload => stored'[m] # NoPayload
    /\ \A k \in Keys : idempotency[k] # NoRecord => idempotency'[k] = idempotency[k]

LEMMA AcceptedStays ==
  ASSUME Keeps
  PROVE  Accepted \subseteq Accepted'
  BY DEF Keeps, Accepted, DeliveryIds

(* An operation that is not a send, or has nothing to deliver.             *)
LEMMA OtherAccepted ==
  ASSUME MailTypeOK, AcceptedInv, UNCHANGED <<stored, idempotency>>,
         op'.kind \in {"accept", "send"} => op' = op,
         \A d \in DeliveryIds : Exists(d)' => Exists(d)
  PROVE  AcceptedInv'
  BY DEF AcceptedInv, Accepted

LEMMA AcceptStep ==
  ASSUME MailTypeOK, AcceptedInv, NEW k \in Keys, NEW m \in Messages, NEW p \in Payloads,
         AcceptMessage(k, m, p)
  PROVE  AcceptedInv'
<1>1. /\ stored'[m] # NoPayload /\ idempotency' = idempotency
      /\ \A x \in Messages : stored[x] # NoPayload => stored'[x] # NoPayload
  BY MailAssumption DEF AcceptMessage, MailTypeOK
<1>2. /\ op' = [kind |-> "accept", key |-> k, msg |-> m, payload |-> p]
      /\ deliveries' = deliveries /\ idempotency[k] = NoRecord
  BY DEF AcceptMessage
<1>3. Keeps
  BY <1>1 DEF Keeps
<1>4. \A d \in DeliveryIds : Exists(d)' => d \in Accepted'
  BY <1>2, <1>3, AcceptedStays DEF AcceptedInv, Exists, DeliveryIds
<1>5. \A x \in Keys :
        idempotency'[x] # NoRecord => stored'[idempotency'[x].msg] # NoPayload
  BY <1>1 DEF AcceptedInv, MailTypeOK
<1> QED BY <1>1, <1>2, <1>4, <1>5 DEF AcceptedInv

LEMMA RecordStep ==
  ASSUME MailTypeOK, AcceptedInv, AppendIdempotency
  PROVE  AcceptedInv'
<1> DEFINE record == [msg |-> op.msg, payload |-> op.payload]
<1>1. /\ op.key \in Keys /\ op.msg \in Messages /\ op.payload \in Payloads
      /\ op.kind = "accept"
  BY OpFields DEF AppendIdempotency, MailTypeOK
<1>2. record # NoRecord
  BY <1>1, MailAssumption
<1>3. /\ stored' = stored /\ deliveries' = deliveries
      /\ idempotency' = [idempotency EXCEPT ![op.key] = record]
      /\ op' = Sending(op.msg, To[op.payload], {})
  BY DEF AppendIdempotency
<1>4. /\ idempotency'[op.key] = record
      /\ \A k \in Keys \ {op.key} : idempotency'[k] = idempotency[k]
  BY <1>1, <1>3 DEF MailTypeOK
<1>5. Keeps /\ stored[op.msg] # NoPayload
  BY <1>1, <1>3, <1>4 DEF Keeps, AcceptedInv
<1>6. record.msg = op.msg /\ record.payload = op.payload
  OBVIOUS
<1> HIDE DEF record
<1>7. \A r \in To[op.payload] : <<op.msg, r>> \in Accepted'
  <2>1. \A r \in To[op.payload] : <<op.msg, r>> \in DeliveryIds
    BY <1>1, MailAssumption DEF DeliveryIds
  <2> QED BY <1>1, <1>2, <1>3, <1>4, <1>5, <1>6, <2>1 DEF Accepted
<1>8. /\ op'.kind # "accept"
      /\ op'.kind = "send" => op'.msg = op.msg /\ op'.todo = To[op.payload]
  BY <1>3 DEF Sending, Free
<1>9. \A d \in DeliveryIds : Exists(d)' => d \in Accepted'
  BY <1>3, <1>5, AcceptedStays DEF AcceptedInv, Exists, DeliveryIds
<1>10. \A k \in Keys :
         idempotency'[k] # NoRecord => stored'[idempotency'[k].msg] # NoPayload
  BY <1>1, <1>3, <1>4, <1>5, <1>6 DEF AcceptedInv
<1>11. op'.kind = "send" => \A r \in op'.todo : <<op'.msg, r>> \in Accepted'
  BY <1>7, <1>8 DEF Accepted
<1> QED BY <1>8, <1>9, <1>10, <1>11 DEF AcceptedInv, Accepted

LEMMA ResendStep ==
  ASSUME MailTypeOK, AcceptedInv, NEW k \in Keys, NEW m \in Messages, NEW p \in Payloads,
         ResendMessage(k, m, p)
  PROVE  AcceptedInv'
<1>1. /\ UNCHANGED <<stored, idempotency, deliveries>>
      /\ idempotency[k] # NoRecord /\ idempotency[k].payload = p
      /\ op' = Sending(idempotency[k].msg, To[p], {})
  BY DEF ResendMessage, RetryId
<1>2. \A r \in To[p] : <<idempotency[k].msg, r>> \in Accepted
  <2>1. idempotency[k].msg \in Messages
    BY <1>1 DEF MailTypeOK
  <2>2. \A r \in To[p] : <<idempotency[k].msg, r>> \in DeliveryIds
    BY <2>1, MailAssumption DEF DeliveryIds
  <2> QED BY <1>1, <2>2 DEF Accepted, AcceptedInv
<1>3. /\ op'.kind # "accept"
      /\ op'.kind = "send" => op'.msg = idempotency[k].msg /\ op'.todo = To[p]
  BY <1>1 DEF Sending, Free
<1>4. op'.kind = "send" => \A r \in op'.todo : <<op'.msg, r>> \in Accepted'
  BY <1>1, <1>2, <1>3 DEF Accepted
<1>5. \A d \in DeliveryIds : Exists(d)' => d \in Accepted'
  BY <1>1 DEF AcceptedInv, Accepted, Exists
<1> QED BY <1>1, <1>3, <1>4, <1>5 DEF AcceptedInv, Accepted

LEMMA DeliverStep ==
  ASSUME MailTypeOK, AcceptedInv, NEW r \in Recipients, Deliver(r)
  PROVE  AcceptedInv'
<1> DEFINE d == <<op.msg, r>>
<1>1. /\ op.msg \in Messages /\ r \in op.todo /\ d \in Accepted /\ d \in DeliveryIds
      /\ \A x \in op.todo : <<op.msg, x>> \in Accepted
  BY OpFields DEF Deliver, AcceptedInv, MailTypeOK, DeliveryIds
<1>2. UNCHANGED <<stored, idempotency>>
  BY DEF Deliver
<1>3. \A x \in DeliveryIds \ {d} : deliveries'[x] = deliveries[x]
  BY <1>1 DEF Deliver, MailTypeOK
<1>4. /\ op'.kind # "accept"
      /\ op'.kind = "send" => op'.msg = op.msg /\ op'.todo \subseteq op.todo
  BY DEF Deliver, Sending, Free
<1>5. \A x \in DeliveryIds : Exists(x)' => x \in Accepted'
  BY <1>1, <1>2, <1>3 DEF AcceptedInv, Accepted, Exists
<1>6. op'.kind = "send" => \A x \in op'.todo : <<op'.msg, x>> \in Accepted'
  BY <1>1, <1>2, <1>4 DEF Accepted
<1> QED BY <1>2, <1>4, <1>5, <1>6 DEF AcceptedInv

LEMMA NotifyStep ==
  ASSUME MailTypeOK, AcceptedInv, NEW n \in NotifIds, AppendNotification(n)
  PROVE  AcceptedInv'
<1>1. UNCHANGED <<stored, idempotency, deliveries>>
  BY DEF AppendNotification
<1>2. /\ op'.kind # "accept"
      /\ op'.kind = "send" =>
           op.kind = "send" /\ op'.msg = op.msg /\ op'.todo \subseteq op.todo
  BY DEF AppendNotification, Sending, Free, MailTypeOK, Ops
<1>3. op'.kind = "send" => \A x \in op'.todo : <<op'.msg, x>> \in Accepted'
  BY <1>1, <1>2 DEF Accepted, AcceptedInv
<1> QED BY <1>1, <1>2, <1>3 DEF AcceptedInv, Exists, Accepted

LEMMA WorkerStep ==
  ASSUME MailTypeOK, AcceptedInv, NEW a \in Agents, NEW d \in DeliveryIds,
         NEW state, NEW by, NEW until, MayWork(a, d), Transition(a, d, state, by, until)
  PROVE  AcceptedInv'
<1>1. \A x \in DeliveryIds \ {d} : deliveries'[x] = deliveries[x]
  BY DEF Transition, MailTypeOK
<1>2. \A x \in DeliveryIds : Exists(x)' => Exists(x)
  BY <1>1 DEF Exists, MayWork
<1> QED BY <1>2, OtherAccepted DEF Transition

LEMMA AcceptedStep ==
  MailTypeOK /\ AcceptedInv /\ [MailNext]_vars => AcceptedInv'
<1> SUFFICES ASSUME MailTypeOK, AcceptedInv, [MailNext]_vars
             PROVE  AcceptedInv'
  OBVIOUS
<1>1. ASSUME UNCHANGED <<stored, idempotency, deliveries>>,
             op'.kind \in {"accept", "send"} => op' = op
      PROVE  AcceptedInv'
  BY <1>1, OtherAccepted DEF Exists
<1>2. CASE Directory \/ UNCHANGED vars
  BY <1>1, <1>2 DEF Directory, vars, mailVars
<1>3. CASE SendSteps
  BY <1>3, RecordStep, DeliverStep, NotifyStep DEF SendSteps
<1>4. ASSUME NEW a \in Agents, NEW d \in DeliveryIds,
             \/ ClaimDelivery(a, d)
             \/ \E state \in MarkStates : MarkDelivery(a, d, state)
             \/ \E until \in WakeTimes : SnoozeDelivery(a, d, until)
      PROVE  AcceptedInv'
  BY <1>4, WorkerStep DEF ClaimDelivery, MarkDelivery, SnoozeDelivery
<1>5. ASSUME NEW a \in Agents,
             \/ NotificationPoll(a)
             \/ NotificationDispatchQueue(a)
             \/ \E n \in NotifIds : AcknowledgeNotification(a, n)
      PROVE  AcceptedInv'
  BY <1>1, <1>5
     DEF NotificationPoll, NotificationDispatchQueue, AcknowledgeNotification
<1>6. CASE WorkSteps
  BY <1>1, <1>6 DEF WorkSteps, AppendClaim, Suppress, Suppressing, Free
<1>7. CASE NotifySteps \/ MailCrash
  BY <1>1, <1>7 DEF NotifySteps, PollReturn, AppendAttemptResult, MailCrash, Free
<1>8. ASSUME NEW n \in NotifIds, NEW outcome \in Outcomes,
             RecordAttempt(n, outcome)
      PROVE  AcceptedInv'
  BY <1>1, <1>8 DEF RecordAttempt
<1> QED
  BY <1>2, <1>3, <1>4, <1>5, <1>6, <1>7, <1>8, AcceptStep, ResendStep DEF MailNext

(* A delivery exists only for an accepted message and one of its           *)
(* recipients, whatever is retried or killed half way.                     *)
THEOREM DeliveriesAreAccepted == MailSpec => []DeliveredWasAccepted
<1>1. MailInit => AcceptedInv
  BY DEF MailInit, AcceptedInv, Exists, Absent, Delivery, Free
<1>2. AcceptedInv => DeliveredWasAccepted
  BY DEF AcceptedInv, Accepted, DeliveredWasAccepted
<1> QED
  BY <1>1, <1>2, AcceptedStep, MailTypeInvariant, PTL DEF MailSpec

-----------------------------------------------------------------------------
(* EvidenceBacked and RetryGated, strengthened by the attempt that is      *)
(* logged but not counted yet, and by the failure behind each retry time.  *)
AttemptsFor(n) == {x \in attempts : x.notif = n}

EvidenceInv ==
    /\ IsFiniteSet(attempts)
    /\ \A n \in NotifIds :
         notifs[n].attempts <= Cardinality(AttemptsFor(n))
    /\ op.kind = "attempt" =>
         /\ notifs[op.notif].attempts + 1 <= Cardinality(AttemptsFor(op.notif))
         /\ [notif |-> op.notif, at |-> op.at, outcome |-> op.outcome] \in attempts
    /\ \A n \in NotifIds :
         notifs[n].next # 0 =>
           \E x \in attempts :
             x.notif = n /\ x.outcome = "Failed" /\ x.at + RetryDelay = notifs[n].next

LEMMA AttemptsAreFinite ==
  ASSUME IsFiniteSet(attempts), NEW n
  PROVE  IsFiniteSet(AttemptsFor(n)) /\ Cardinality(AttemptsFor(n)) \in Nat
  BY FS_Subset, FS_CardinalityType DEF AttemptsFor

(* A step that logs no attempt and counts none.                            *)
LEMMA UncountedStep ==
  ASSUME MailTypeOK, EvidenceInv, attempts' = attempts,
         op'.kind = "attempt" => op' = op,
         \A n \in NotifIds :
           \/ notifs'[n].attempts = notifs[n].attempts /\ notifs'[n].next = notifs[n].next
           \/ notifs'[n].attempts = 0 /\ notifs'[n].next = 0 /\ op'.kind # "attempt"
  PROVE  EvidenceInv'
<1>1. \A n : AttemptsFor(n)' = AttemptsFor(n)
  BY DEF AttemptsFor
<1>2. \A n \in NotifIds : Cardinality(AttemptsFor(n)) \in Nat
  BY AttemptsAreFinite DEF EvidenceInv
<1>3. \A n \in NotifIds : notifs'[n].attempts <= Cardinality(AttemptsFor(n)')
  BY <1>1, <1>2 DEF EvidenceInv
<1>4. op'.kind = "attempt" => op'.notif \in NotifIds
  BY OpFields DEF MailTypeOK
<1>5. op'.kind = "attempt" =>
        /\ notifs'[op'.notif].attempts + 1 <= Cardinality(AttemptsFor(op.notif)')
        /\ [notif |-> op'.notif, at |-> op'.at, outcome |-> op'.outcome] \in attempts'
  BY <1>1, <1>4 DEF EvidenceInv
<1> QED BY <1>1, <1>3, <1>5 DEF EvidenceInv

LEMMA LogStep ==
  ASSUME MailTypeOK, EvidenceInv, NEW n \in NotifIds, NEW outcome \in Outcomes,
         RecordAttempt(n, outcome)
  PROVE  EvidenceInv'
<1> DEFINE attempt == [notif |-> n, at |-> now, outcome |-> outcome]
           before == AttemptsFor(n)
<1>1. /\ attempts' = attempts \cup {attempt} /\ attempt \notin attempts
      /\ op'.kind = "attempt" /\ op'.notif = n /\ op'.at = now /\ op'.outcome = outcome
      /\ notifs' = notifs
  BY DEF RecordAttempt, Logged
<1>2. attempt.notif = n /\ attempt = [notif |-> op'.notif, at |-> op'.at, outcome |-> op'.outcome]
  BY <1>1
<1> HIDE DEF attempt
<1>3. IsFiniteSet(attempts')
  BY <1>1, FS_AddElement DEF EvidenceInv
<1>4. AttemptsFor(n)' = before \cup {attempt} /\ attempt \notin before
  BY <1>1, <1>2 DEF AttemptsFor
<1>5. \A x \in NotifIds \ {n} : AttemptsFor(x)' = AttemptsFor(x)
  BY <1>1, <1>2 DEF AttemptsFor
<1>6. Cardinality(AttemptsFor(n)') = Cardinality(before) + 1
  <2>1. IsFiniteSet(before)
    BY AttemptsAreFinite DEF EvidenceInv
  <2> QED BY <1>4, <2>1, FS_AddElement
<1>7. notifs[n].attempts <= Cardinality(before) /\ Cardinality(before) \in Nat
      /\ notifs[n].attempts \in Nat
  BY AttemptsAreFinite DEF EvidenceInv, MailTypeOK, NotifRecords
<1>8. \A x \in NotifIds : notifs'[x].attempts <= Cardinality(AttemptsFor(x)')
  BY <1>1, <1>5, <1>6, <1>7 DEF EvidenceInv
<1>9. notifs'[n].attempts + 1 <= Cardinality(AttemptsFor(n)')
  BY <1>1, <1>6, <1>7
<1>10. /\ notifs'[op'.notif].attempts + 1 <= Cardinality(AttemptsFor(op.notif)')
       /\ [notif |-> op'.notif, at |-> op'.at, outcome |-> op'.outcome] \in attempts'
  BY <1>1, <1>2, <1>9 DEF AttemptsFor
<1>11. \A x \in NotifIds :
         notifs'[x].next # 0 =>
           \E y \in attempts' :
             y.notif = x /\ y.outcome = "Failed" /\ y.at + RetryDelay = notifs'[x].next
  BY <1>1 DEF EvidenceInv
<1> QED BY <1>3, <1>8, <1>10, <1>11 DEF EvidenceInv

LEMMA CountStep ==
  ASSUME MailTypeOK, EvidenceInv, AppendAttemptResult
  PROVE  EvidenceInv'
<1> DEFINE n == op.notif
           next == NextDispatch(op.at, op.outcome)
<1>1. /\ n \in NotifIds /\ op.at \in Times /\ op.outcome \in Outcomes /\ op.kind = "attempt"
  BY OpFields DEF AppendAttemptResult, MailTypeOK
<1>2. /\ attempts' = attempts /\ op'.kind # "attempt"
      /\ notifs' = [notifs EXCEPT ![n] =
                      Notification(notifs[n].state, notifs[n].attempts + 1, next)]
  BY DEF AppendAttemptResult, Free
<1> HIDE DEF next
<1>3. /\ notifs'[n].attempts = notifs[n].attempts + 1 /\ notifs'[n].next = next
      /\ \A x \in NotifIds \ {n} : notifs'[x] = notifs[x]
  BY <1>1, <1>2 DEF MailTypeOK, Notification
<1>4. /\ notifs[n].attempts + 1 <= Cardinality(AttemptsFor(n))
      /\ [notif |-> n, at |-> op.at, outcome |-> op.outcome] \in attempts
  BY <1>1 DEF EvidenceInv
<1>5. next # 0 =>
        \E x \in attempts : x.notif = n /\ x.outcome = "Failed" /\ x.at + RetryDelay = next
  BY <1>4 DEF next, NextDispatch
<1>6. \A x : AttemptsFor(x)' = AttemptsFor(x)
  BY <1>2 DEF AttemptsFor
<1> HIDE DEF n
<1>7. \A x \in NotifIds : notifs'[x].attempts <= Cardinality(AttemptsFor(x)')
  BY <1>3, <1>4, <1>6 DEF EvidenceInv
<1>8. \A x \in NotifIds :
         notifs'[x].next # 0 =>
           \E y \in attempts' :
             y.notif = x /\ y.outcome = "Failed" /\ y.at + RetryDelay = notifs'[x].next
  BY <1>2, <1>3, <1>5 DEF EvidenceInv
<1> QED BY <1>2, <1>7, <1>8 DEF EvidenceInv

LEMMA EvidenceStep ==
  MailTypeOK /\ EvidenceInv /\ [MailNext]_vars => EvidenceInv'
<1> SUFFICES ASSUME MailTypeOK, EvidenceInv, [MailNext]_vars
             PROVE  EvidenceInv'
  OBVIOUS
<1>0. notifs \in [NotifIds -> NotifRecords]
  BY DEF MailTypeOK
<1>1. ASSUME UNCHANGED <<notifs, attempts>>, op'.kind = "attempt" => op' = op
      PROVE  EvidenceInv'
  BY <1>1, UncountedStep
<1>2. CASE Directory \/ UNCHANGED vars
  BY <1>1, <1>2 DEF Directory, vars, mailVars
<1>3. CASE SendSteps
  <2>1. CASE AppendIdempotency
    BY <1>1, <2>1 DEF AppendIdempotency, Sending, Free
  <2>2. ASSUME NEW r \in Recipients, Deliver(r)
        PROVE  EvidenceInv'
    <3>1. UNCHANGED <<notifs, attempts>> /\ op'.kind # "attempt"
      BY <2>2 DEF Deliver, Sending, Free
    <3> QED BY <1>1, <3>1
  <2>3. ASSUME NEW n \in NotifIds, AppendNotification(n)
        PROVE  EvidenceInv'
    <3>1. attempts' = attempts /\ op'.kind # "attempt"
      BY <2>3 DEF AppendNotification, Sending, Free, MailTypeOK, Ops
    <3>2. \A x \in NotifIds : notifs'[x] = notifs[x]
             \/ (notifs'[x].attempts = 0 /\ notifs'[x].next = 0)
      BY <1>0, <2>3 DEF AppendNotification, Notification
    <3> QED BY <3>1, <3>2, UncountedStep
  <2> QED BY <1>3, <2>1, <2>2, <2>3 DEF SendSteps
<1>4. ASSUME NEW k \in Keys, NEW m \in Messages, NEW p \in Payloads,
             AcceptMessage(k, m, p) \/ ResendMessage(k, m, p)
      PROVE  EvidenceInv'
  BY <1>1, <1>4 DEF AcceptMessage, ResendMessage, Sending, Free
<1>5. ASSUME NEW a \in Agents, NEW d \in DeliveryIds,
             \/ ClaimDelivery(a, d)
             \/ \E state \in MarkStates : MarkDelivery(a, d, state)
             \/ \E until \in WakeTimes : SnoozeDelivery(a, d, until)
      PROVE  EvidenceInv'
  BY <1>1, <1>5 DEF ClaimDelivery, MarkDelivery, SnoozeDelivery, Transition
<1>6. ASSUME NEW a \in Agents,
             \/ NotificationPoll(a)
             \/ NotificationDispatchQueue(a)
             \/ \E n \in NotifIds : AcknowledgeNotification(a, n)
      PROVE  EvidenceInv'
  <2>1. CASE NotificationPoll(a) \/ NotificationDispatchQueue(a)
    BY <1>1, <2>1 DEF NotificationPoll, NotificationDispatchQueue
  <2>2. ASSUME NEW n \in NotifIds, AcknowledgeNotification(a, n)
        PROVE  EvidenceInv'
    <3>1. \A x \in NotifIds : /\ notifs'[x].attempts = notifs[x].attempts
                              /\ notifs'[x].next = notifs[x].next
      BY <1>0, <2>2 DEF AcknowledgeNotification, NotifRecords
    <3> QED BY <2>2, <3>1, UncountedStep DEF AcknowledgeNotification
  <2> QED BY <1>6, <2>1, <2>2
<1>7. CASE AppendClaim
  BY <1>1, <1>7 DEF AppendClaim, Suppressing, Free
<1>8. ASSUME NEW n \in NotifIds, Suppress(n)
      PROVE  EvidenceInv'
  <2>1. \A x \in NotifIds : /\ notifs'[x].attempts = notifs[x].attempts
                            /\ notifs'[x].next = notifs[x].next
    BY <1>0, <1>8 DEF Suppress, NotifRecords
  <2>2. attempts' = attempts /\ op'.kind # "attempt"
    BY <1>8 DEF Suppress, Suppressing, Free
  <2> QED BY <2>1, <2>2, UncountedStep
<1>9. CASE PollReturn \/ MailCrash
  BY <1>1, <1>9 DEF PollReturn, MailCrash, Free
<1> QED
  BY <1>2, <1>3, <1>4, <1>5, <1>6, <1>7, <1>8, <1>9, LogStep, CountStep
     DEF MailNext, WorkSteps, NotifySteps

LEMMA EvidenceInit == MailInit => EvidenceInv
<1> SUFFICES ASSUME MailInit PROVE EvidenceInv
  OBVIOUS
<1>1. IsFiniteSet(attempts)
  BY FS_EmptySet DEF MailInit
<1>2. \A n \in NotifIds : notifs[n].attempts = 0 /\ notifs[n].next = 0
  BY DEF MailInit, NoNotif, Notification
<1>3. \A n \in NotifIds : Cardinality(AttemptsFor(n)) \in Nat
  BY <1>1, AttemptsAreFinite
<1>4. op.kind # "attempt"
  BY DEF MailInit, Free
<1> QED BY <1>1, <1>2, <1>3, <1>4 DEF EvidenceInv

(* The outbox never counts an attempt that the attempts ledger lacks.      *)
THEOREM AttemptsHaveEvidence == MailSpec => []EvidenceBacked
<1>1. EvidenceInv => EvidenceBacked
  BY DEF EvidenceInv, EvidenceBacked, AttemptsFor
<1> QED
  BY <1>1, EvidenceInit, EvidenceStep, MailTypeInvariant, PTL DEF MailSpec

(* What the dispatcher is handed a second time failed RetryDelay ago.      *)
THEOREM RetriesWait == MailSpec => []RetryGated
<1>1. MailTypeOK /\ EvidenceInv => RetryGated
  <2> SUFFICES ASSUME MailTypeOK, EvidenceInv, op.kind = "dispatch",
                      NEW n \in DispatchDue(op.agent), notifs[n].attempts > 0
               PROVE  \E x \in attempts :
                        x.notif = n /\ x.outcome = "Failed" /\ x.at + RetryDelay <= now
    BY DEF RetryGated
  <2>1. n \in NotifIds
    BY OpFields DEF DispatchDue, PendingDue, NotifIds, MailTypeOK
  <2>2. notifs[n].next # 0 /\ notifs[n].next <= now
    BY DEF DispatchDue, RetryDue
  <2> QED BY <2>1, <2>2 DEF EvidenceInv
<1> QED
  BY <1>1, EvidenceInit, EvidenceStep, MailTypeInvariant, PTL DEF MailSpec

-----------------------------------------------------------------------------
(* PollComplete, where the policy grants every agent the same at all       *)
(* times: what an agent comes to see while its poll is under way is found  *)
(* by the next one.  Strengthened by the rows that a poll has still to     *)
(* write.                                                                  *)
SteadyGrants == \A g, h \in Grants : g = h

GrantInv ==
    /\ \A a \in Agents : agents[a].state # "Unknown" => agents[a].granted \in Grants
    /\ \A c \in Clients :
         client[c].stage = "record" => client[c].record.granted \in Grants

PollInv ==
    op.kind = "poll" =>
      /\ agents[op.agent].state # "Unknown"
      /\ \A d \in DeliveryIds :
           Actionable(op.agent, d) =>
             \/ <<d, op.agent>> \in op.notify
             \/ notifs[<<d, op.agent>>].state \in {"Pending", "Acknowledged"}

LEMMA GrantStep ==
  MailTypeOK /\ GrantInv /\ [MailNext]_vars => GrantInv'
<1> SUFFICES ASSUME MailTypeOK, GrantInv, [MailNext]_vars
             PROVE  GrantInv'
  OBVIOUS
<1>0. agents \in [Agents -> AgentRecords] /\ client \in [Clients -> ClientStates]
  BY DEF MailTypeOK, DirTypeOK
<1>1. CASE UNCHANGED <<agents, client>>
  BY <1>1 DEF GrantInv
<1>2. ASSUME NEW c \in Clients, NEW a \in Agents,
             IdentifyAgent(c, a) \/ HeartbeatAgent(c, a) \/ RetireAgent(c, a)
      PROVE  GrantInv'
  <2>1. agents' = agents /\ \A x \in Clients \ {c} : client'[x] = client[x]
    BY <1>0, <1>2 DEF IdentifyAgent, HeartbeatAgent, RetireAgent
  <2>2. client'[c].stage = "record" => client'[c].record.granted \in Grants
    <3>1. CASE IdentifyAgent(c, a)
      BY <1>0, <3>1 DEF IdentifyAgent
    <3>2. CASE HeartbeatAgent(c, a)
      BY <1>0, <3>2 DEF HeartbeatAgent
    <3>3. CASE RetireAgent(c, a)
      <4>1. client'[c].record = [agents[a] EXCEPT !.state = "Retired"]
        BY <1>0, <3>3 DEF RetireAgent
      <4>2. [agents[a] EXCEPT !.state = "Retired"].granted = agents[a].granted
        BY <1>0 DEF AgentRecords, Unknown, Written
      <4> QED BY <3>3, <4>1, <4>2 DEF RetireAgent, GrantInv
    <3> QED BY <1>2, <3>1, <3>2, <3>3
  <2> QED BY <2>1, <2>2 DEF GrantInv
<1>3. ASSUME NEW c \in Clients, AppendAgent(c)
      PROVE  GrantInv'
  <2>1. client[c].stage = "record" /\ client[c].record.granted \in Grants
    BY <1>3 DEF AppendAgent, GrantInv
  <2>2. \A a \in Agents : agents'[a] = agents[a] \/ agents'[a] = client[c].record
    BY <1>0, <1>3 DEF AppendAgent
  <2>3. client'[c].stage = "lease" /\ \A x \in Clients \ {c} : client'[x] = client[x]
    BY <1>0, <1>3 DEF AppendAgent, ClientStates, IdleClient
  <2> QED BY <2>1, <2>2, <2>3 DEF GrantInv
<1>4. ASSUME NEW c \in Clients, AppendLease(c) \/ ClientCrash(c)
      PROVE  GrantInv'
  <2>1. /\ client'[c].stage = "idle" /\ agents' = agents
        /\ \A x \in Clients \ {c} : client'[x] = client[x]
    BY <1>0, <1>4 DEF AppendLease, ClientCrash, IdleClient
  <2> QED BY <2>1 DEF GrantInv
<1>5. CASE Tick
  BY <1>5, <1>1 DEF Tick
<1>6. UNCHANGED <<agents, client>> \/ Directory
  BY DEF MailNext, AcceptMessage, ResendMessage, ClaimDelivery, MarkDelivery,
         SnoozeDelivery, Transition, NotificationPoll, NotificationDispatchQueue,
         AcknowledgeNotification, RecordAttempt, SendSteps, AppendIdempotency, Deliver,
         AppendNotification, WorkSteps, AppendClaim, Suppress, NotifySteps, PollReturn,
         AppendAttemptResult, MailCrash, vars, dirVars
<1> QED BY <1>1, <1>2, <1>3, <1>4, <1>5, <1>6 DEF Directory, DirNext

(* While a poll is under way only the directory, the clock and its own     *)
(* appends move.                                                           *)
LEMMA PollStep ==
  ASSUME SteadyGrants
  PROVE  MailTypeOK /\ GrantInv /\ GrantInv' /\ SuppressedMeansTaken /\ PollInv
           /\ [MailNext]_vars => PollInv'
<1> SUFFICES ASSUME MailTypeOK, GrantInv, GrantInv', SuppressedMeansTaken, PollInv,
                    [MailNext]_vars
             PROVE  PollInv'
  OBVIOUS
<1>0. /\ notifs \in [NotifIds -> NotifRecords] /\ op \in Ops
      /\ agents \in [Agents -> AgentRecords] /\ client \in [Clients -> ClientStates]
      /\ \A d \in DeliveryIds, a \in Agents : <<d, a>> \in NotifIds
  BY DEF MailTypeOK, DirTypeOK, NotifIds
<1>1. CASE op'.kind # "poll"
  BY <1>1 DEF PollInv
<1>2. CASE UNCHANGED vars
  BY <1>2 DEF vars, dirVars, mailVars, PollInv, Actionable, IsOpen, CanSee, FreeFor
<1>3. CASE Directory /\ op.kind = "poll"
  <2>1. UNCHANGED <<deliveries, notifs, op>> /\ op.agent \in Agents
    BY <1>0, <1>3, OpFields DEF Directory, mailVars
  <2>2. agents'[op.agent].state # "Unknown"
    <3>1. ASSUME NEW c \in Clients, AppendAgent(c)
          PROVE  agents'[op.agent].state # "Unknown"
      <4>1. client[c].record.state # "Unknown"
        BY <1>0, <3>1 DEF AppendAgent, ClientStates, IdleClient, Written
      <4>2. agents'[op.agent] = agents[op.agent] \/ agents'[op.agent] = client[c].record
        BY <1>0, <2>1, <3>1 DEF AppendAgent
      <4> QED BY <1>3, <4>1, <4>2 DEF PollInv
    <3>2. CASE UNCHANGED agents
      BY <1>3, <3>2 DEF PollInv
    <3>3. (\E c \in Clients : AppendAgent(c)) \/ UNCHANGED agents
      BY <1>3 DEF Directory, DirNext, IdentifyAgent, HeartbeatAgent, RetireAgent,
                  AppendLease, ClientCrash, Tick
    <3> QED BY <3>1, <3>2, <3>3
  <2>3. agents'[op.agent].granted = agents[op.agent].granted
    BY <1>3, <2>1, <2>2 DEF GrantInv, PollInv, SteadyGrants
  <2>4. \A d \in DeliveryIds : Actionable(op.agent, d)' = Actionable(op.agent, d)
    BY <2>1, <2>3 DEF Actionable, IsOpen, CanSee, FreeFor
  <2> QED BY <1>3, <2>1, <2>2, <2>4 DEF PollInv
<1>4. ASSUME NEW a \in Agents, NotificationPoll(a)
      PROVE  PollInv'
  <2>1. /\ op'.kind = "poll" /\ op'.agent = a /\ op'.notify = Missing(a)
        /\ UNCHANGED <<dirVars, deliveries, notifs>> /\ agents[a].state # "Unknown"
    BY <1>4 DEF NotificationPoll, Live
  <2>2. \A d \in DeliveryIds :
          Actionable(a, d) =>
            <<d, a>> \in Missing(a) \/ notifs[<<d, a>>].state \in {"Pending", "Acknowledged"}
    <3> SUFFICES ASSUME NEW d \in DeliveryIds, Actionable(a, d), <<d, a>> \notin Missing(a)
                 PROVE  notifs[<<d, a>>].state \in {"Pending", "Acknowledged"}
      OBVIOUS
    <3>1. HasRow(<<d, a>>)
      BY DEF Missing
    <3>2. notifs[<<d, a>>].state # "Suppressed"
      BY <1>0 DEF SuppressedMeansTaken, Actionable, FreeFor
    <3> QED BY <1>0, <3>1, <3>2 DEF HasRow, NotifRecords
  <2>3. \A d \in DeliveryIds : Actionable(a, d)' <=> Actionable(a, d)
    BY <2>1 DEF dirVars, Actionable, IsOpen, CanSee, FreeFor
  <2> QED BY <2>1, <2>2, <2>3 DEF PollInv, dirVars, Actionable, IsOpen, CanSee, FreeFor
<1>5. ASSUME NEW n \in NotifIds, AppendNotification(n), op.kind = "poll"
      PROVE  PollInv'
  <2>1. /\ op'.kind = "poll" /\ op'.agent = op.agent /\ op'.notify = op.notify \ {n}
        /\ op.agent \in Agents
    BY <1>0, <1>5, OpFields DEF AppendNotification, Ops, Free
  <2>2. UNCHANGED <<dirVars, deliveries>>
    BY <1>5 DEF AppendNotification
  <2>3. notifs'[n].state = "Pending" /\ \A x \in NotifIds \ {n} : notifs'[x] = notifs[x]
    BY <1>0, <1>5 DEF AppendNotification, Notification
  <2> QED BY <1>0, <1>5, <2>1, <2>2, <2>3
          DEF PollInv, dirVars, Actionable, IsOpen, CanSee, FreeFor
<1>6. ASSUME NEW n \in NotifIds, AppendNotification(n), op.kind # "poll"
      PROVE  op'.kind # "poll"
  BY <1>0, <1>6 DEF AppendNotification, Sending, Free, Ops
<1>7. CASE Directory /\ op.kind # "poll"
  BY <1>1, <1>7 DEF Directory, mailVars
<1>8. ASSUME NEW r \in Recipients, Deliver(r)
      PROVE  op'.kind # "poll"
  BY <1>8 DEF Deliver, Sending, Free
<1>9. CASE AppendIdempotency \/ WorkSteps \/ NotifySteps \/ MailCrash
  BY <1>1, <1>9 DEF AppendIdempotency, WorkSteps, AppendClaim, Suppress, Suppressing,
     NotifySteps, PollReturn, AppendAttemptResult, MailCrash, Sending, Free
<1>10. ASSUME NEW k \in Keys, NEW m \in Messages, NEW p \in Payloads,
              AcceptMessage(k, m, p) \/ ResendMessage(k, m, p)
       PROVE  PollInv'
  BY <1>1, <1>10 DEF AcceptMessage, ResendMessage, Sending, Free
<1>11. ASSUME NEW a \in Agents, NEW d \in DeliveryIds,
              \/ ClaimDelivery(a, d)
              \/ \E state \in MarkStates : MarkDelivery(a, d, state)
              \/ \E until \in WakeTimes : SnoozeDelivery(a, d, until)
       PROVE  PollInv'
  BY <1>1, <1>11 DEF ClaimDelivery, MarkDelivery, SnoozeDelivery, Transition
<1>12. ASSUME NEW a \in Agents,
              \/ NotificationDispatchQueue(a)
              \/ \E n \in NotifIds : AcknowledgeNotification(a, n)
       PROVE  PollInv'
  BY <1>1, <1>12 DEF NotificationDispatchQueue, AcknowledgeNotification, Free
<1>13. ASSUME NEW n \in NotifIds, NEW outcome \in Outcomes, RecordAttempt(n, outcome)
       PROVE  PollInv'
  BY <1>1, <1>13 DEF RecordAttempt
<1> QED
  BY <1>1, <1>2, <1>3, <1>4, <1>5, <1>6, <1>7, <1>8, <1>9, <1>10, <1>11, <1>12, <1>13
     DEF MailNext, SendSteps

(* A poll leaves out no due delivery the agent may work on.                *)
THEOREM PollsAreComplete ==
  ASSUME SteadyGrants
  PROVE  MailSpec => []PollComplete
<1>1. MailInit => GrantInv /\ PollInv
  BY DEF MailInit, DirInit, GrantInv, PollInv, Unknown, IdleClient, Free
<1>2. MailTypeOK /\ PollInv => PollComplete
  <2> SUFFICES ASSUME MailTypeOK, PollInv, op.kind = "poll", op.notify = {},
                      NEW d \in DeliveryIds, Actionable(op.agent, d), Due(d)
               PROVE  LET n == <<d, op.agent>>
                      IN  n \in PendingDue(op.agent) \/ notifs[n].state = "Acknowledged"
    BY DEF PollComplete
  <2>1. notifs[<<d, op.agent>>].state \in {"Pending", "Acknowledged"}
    BY DEF PollInv
  <2> QED BY <2>1 DEF PendingDue, Actionable
<1> QED
  BY <1>1, <1>2, GrantStep, PollStep, SuppressionIsSafe, MailTypeInvariant, PTL
     DEF MailSpec
=============================================================================
