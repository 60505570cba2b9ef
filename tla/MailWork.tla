------------------------------- MODULE MailWork -------------------------------
(***************************************************************************)
(* What the mail store promises about a unit of work, without ledgers,     *)
(* locks or processes: an item is posted once, at most one worker ever     *)
(* owns it, only its owner finishes it, and a finished item never changes  *)
(* again.  ("Claims are exclusive per delivery", "A terminal delivery must *)
(* not be reopened by a late notification": docs/agent-mail-protocol.md.)  *)
(***************************************************************************)
CONSTANTS
    Items,        \* units of work
    Workers,      \* who may own one
    NoWorker      \* the owner of an item nobody took; not a worker

VARIABLES
    phase,        \* "none", "open" or "finished", per item
    owner         \* the worker that took the item, or NoWorker

workVars == <<phase, owner>>

WorkInit ==
    /\ phase = [i \in Items |-> "none"]
    /\ owner = [i \in Items |-> NoWorker]

Post(i) ==
    /\ phase[i] = "none"
    /\ phase' = [phase EXCEPT ![i] = "open"]
    /\ UNCHANGED owner

Take(i, w) ==
    /\ phase[i] = "open"
    /\ owner[i] = NoWorker
    /\ owner' = [owner EXCEPT ![i] = w]
    /\ UNCHANGED phase

Finish(i, w) ==
    /\ phase[i] = "open"
    /\ owner[i] = w
    /\ phase' = [phase EXCEPT ![i] = "finished"]
    /\ UNCHANGED owner

WorkNext ==
    \E i \in Items :
      Post(i) \/ \E w \in Workers : Take(i, w) \/ Finish(i, w)

WorkSpec == WorkInit /\ [][WorkNext]_workVars
=============================================================================
