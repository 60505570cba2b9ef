--------------------------- MODULE AgentDirectory ---------------------------
(***************************************************************************)
(* The agent directory of the mail store (crates/onecontext-agent-mail).   *)
(* agents.jsonl and leases.jsonl are append-only ledgers whose last line   *)
(* for an agent wins, so each is a function from agents to its last        *)
(* record.  Every command line runs in a process of its own and the        *)
(* directory operations do NOT take the mutation lock: a client reads the  *)
(* ledgers, then appends an agent record, then appends a lease, and other  *)
(* clients run between those steps.  A client may be killed between them.  *)
(***************************************************************************)
EXTENDS Naturals, FiniteSets

CONSTANTS
    Agents,      \* agent ids; an agent's primary address is its id
    Roles,       \* role:// and list:// addresses an agent may be granted
    Grants,      \* the grant sets a policy may return for an identify request
    Clients,     \* processes that run directory commands
    TTL,         \* lease length asked for by identify and heartbeat
    MaxTime      \* bound: the clock stops here

ASSUME DirectoryAssumption ==
    /\ Grants \subseteq SUBSET Roles
    /\ TTL \in Nat
    /\ MaxTime \in Nat
    /\ Agents \cap Roles = {}

VARIABLES
    agents,      \* last record of each agent in agents.jsonl
    leases,      \* last lease_expires_at of each agent in leases.jsonl
    client,      \* what each directory process still has to append
    now          \* wall clock, shared by every process

dirVars == <<agents, leases, client, now>>

Times == 0 .. MaxTime
LeaseTimes == 0 .. (MaxTime + TTL)

(* Nothing writes AgentState::Stale, so a record is Active or Retired.     *)
Written == [state : {"Active", "Retired"}, granted : SUBSET Roles]
Unknown == [state |-> "Unknown", granted |-> {}]
AgentRecords == {Unknown} \cup Written

(* "record": an agent record and then a lease are left to append;          *)
(* "lease": only the lease is.                                             *)
IdleClient == [stage |-> "idle"]
ClientStates ==
    {IdleClient}
      \cup [stage : {"record", "lease"}, agent : Agents,
            record : Written, expires : LeaseTimes]

DirTypeOK ==
    /\ agents \in [Agents -> AgentRecords]
    /\ leases \in [Agents -> LeaseTimes]
    /\ client \in [Clients -> ClientStates]
    /\ now \in Times

DirInit ==
    /\ agents = [a \in Agents |-> Unknown]
    /\ leases = [a \in Agents |-> 0]
    /\ client = [c \in Clients |-> IdleClient]
    /\ now = 0

-----------------------------------------------------------------------------
(* require_live_agent: an Active record and a last lease not yet expired.  *)
Live(a) == agents[a].state = "Active" /\ leases[a] > now

(* delivery_visible_to_agent, for the record the directory now holds.      *)
CanSee(a, recipient) == recipient = a \/ recipient \in agents[a].granted

(* identify_agent and heartbeat_agent refuse a Retired record.             *)
MutRevivable(a) == FALSE
Retired(a) == agents[a].state = "Retired"

(* lease_expires_at of an identify or heartbeat issued now.                *)
Expiry == now + TTL

(***************************************************************************)
(* The read half of the three operations.  identify refuses a Retired      *)
(* record, heartbeat an unknown or Retired one, retire an unknown one;     *)
(* heartbeat leaves the record alone and goes straight to the lease.       *)
(***************************************************************************)
IdentifyAgent(c, a) ==
    /\ client[c] = IdleClient
    /\ ~Retired(a)
    /\ \E granted \in Grants :
         client' = [client EXCEPT ![c] =
                      [stage |-> "record", agent |-> a,
                       record |-> [state |-> "Active", granted |-> granted],
                       expires |-> Expiry]]
    /\ UNCHANGED <<agents, leases, now>>

HeartbeatAgent(c, a) ==
    /\ client[c] = IdleClient
    /\ agents[a].state # "Unknown" /\ ~Retired(a)
    /\ client' = [client EXCEPT ![c] =
                    [stage |-> "lease", agent |-> a, record |-> agents[a],
                     expires |-> Expiry]]
    /\ UNCHANGED <<agents, leases, now>>

RetireAgent(c, a) ==
    /\ client[c] = IdleClient
    /\ agents[a].state # "Unknown"
    /\ client' = [client EXCEPT ![c] =
                    [stage |-> "record", agent |-> a,
                     record |-> [agents[a] EXCEPT !.state = "Retired"],
                     expires |-> now]]
    /\ UNCHANGED <<agents, leases, now>>

(* append_agent: nothing is checked again before the record is written.    *)
AppendAgent(c) ==
    /\ client[c].stage = "record"
    /\ agents' = [agents EXCEPT ![client[c].agent] = client[c].record]
    /\ client' = [client EXCEPT ![c].stage = "lease"]
    /\ UNCHANGED <<leases, now>>

AppendLease(c) ==
    /\ client[c].stage = "lease"
    /\ leases' = [leases EXCEPT ![client[c].agent] = client[c].expires]
    /\ client' = [client EXCEPT ![c] = IdleClient]
    /\ UNCHANGED <<agents, now>>

(* The process is killed; what it had appended stays.                      *)
ClientCrash(c) ==
    /\ client[c] # IdleClient
    /\ client' = [client EXCEPT ![c] = IdleClient]
    /\ UNCHANGED <<agents, leases, now>>

Tick ==
    /\ now < MaxTime
    /\ now' = now + 1
    /\ UNCHANGED <<agents, leases, client>>

DirNext ==
    \/ \E c \in Clients, a \in Agents :
         IdentifyAgent(c, a) \/ HeartbeatAgent(c, a) \/ RetireAgent(c, a)
    \/ \E c \in Clients : AppendAgent(c) \/ AppendLease(c) \/ ClientCrash(c)
    \/ Tick

DirSpec == DirInit /\ [][DirNext]_dirVars

-----------------------------------------------------------------------------
(* A client that read agent a before it was retired and will write an      *)
(* Active record for it.                                                   *)
IdentifyInFlight(a) ==
    \E c \in Clients :
      /\ client[c].stage = "record"
      /\ client[c].agent = a
      /\ client[c].record.state = "Active"

(* The unlocked read of identify_agent is the only way back: once an agent *)
(* is retired and no identify that read it earlier is still running, it    *)
(* stays retired and no later identify or heartbeat can start one.         *)
RetiredIsFinalOnceQuiet ==
    [][\A a \in Agents :
         agents[a].state = "Retired" /\ ~IdentifyInFlight(a)
           => /\ agents'[a].state = "Retired"
              /\ ~IdentifyInFlight(a)']_dirVars
=============================================================================
