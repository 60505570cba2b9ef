# 1Context: verification project

TLA+ models, TLC runs and TLAPS proofs for the parts of 1Context in which
several processes, or several steps of one process that may be killed, change
durable state. Everything is translated from the Rust and Swift sources; the
documents of the repository are used only to state what the code should do.

Contents: [system](#1-the-system), [modules](#2-modules-and-the-code),
[runs](#3-what-the-runs-show), [proofs](#4-what-is-proved),
[findings](#5-disagreements-with-the-documents),
[limits](#6-what-is-left-out), [plan](#7-plan).

## 1. The system

1Context is a macOS application: a menu bar process, a Swift daemon, and Rust
programs the daemon (or an agent, or a person) starts from a command line. It
captures what agents and users do, stores it as memory, lets agents write a
wiki, and serves the wiki in the browser.

| component | state it keeps | operations | what is hard | what makes it correct |
|---|---|---|---|---|
| Agent mail store (`onecontext-agent-mail`) | append-only JSONL ledgers (agents, leases, idempotency, deliveries, claims, dead letters, notifications, attempts) and message files | identify, heartbeat, retire; send; claim, mark, snooze; poll, dispatch, acknowledge, record attempt | processes share the files; directory operations take no lock; every operation is several appends and may be killed between them; senders retry | work is owned once and finished once; nothing is lost or sent twice; limits hold; attempts have evidence |
| Wiki render queue (`WikiRenderQueue.swift`) | scheduled, pending and running request, token, backoff, cadence | request, timer, finish | timers that cannot be cancelled, merging, failures | one render at a time, no request lost, delays respected |
| Wiki render coordinator (`WikiRenderCoordinator.swift`) | `user-wiki/site`, `wiki-site/{next,current,previous}` | refresh (skip or render), exchange the site, mirror it | directories are moved one by one; kills; another process touches `current` | only valid sites are served, and they are as new as what was asked for |
| Wiki daemon publisher (`onecontext-wiki-daemon`) | the same `site`, its fingerprints | publish status, publish | sources change while it renders | "nothing to publish" is true when it is said |
| Wiki core (`onecontext-wiki-core`) | `wiki.toml`, sources, talk files, tombstones, page ledger | open, edit, create, delete, restore; append to talk | one file lock for operations of several files, given up half way by a kill; people edit the sources without it | a page is whole, a checked edit loses nobody's text, a closed page and a protected span stand |
| Local web server (`LocalWeb.swift`) | support files in `current`, Caddy's state file | start, stop, status | runs in the menu bar process beside the daemon | does not disturb a publication |
| Agent harness store (`agent-harness/core`) | units, turns, receipts, a snapshot | call, start/complete turn, retire, adapter events | a lock file without recovery; receipt written before the snapshot; rebuild from receipts | a turn completes once; the rebuilt snapshot is the lost one |
| Managed Postgres supervisor (`memory-db/local_postgres`) | cluster directory, markers, bootstrap lock file | ensure, stop | lock file created and filled in two steps, removed when stale | one initialisation at a time; a half-made cluster is never used |
| Memory ingest daemon (`onecontext-memoryd`) | source cursors, write batches | ingest tick | crash between the durable write and the cursor | a source line is ingested once, cursors never skip |
| Capture bundles (`capture-core/bundle`, `retention`) | bundle directories by stage | write, export, plan and apply retention | a plan is stale when it is applied | a bundle being exported or pinned is never removed |
| Capture spool index (`capture-core/spool*`) | spool file and time index | append, read a window | index behind a growing file | a window read finds every record in it |
| Context engine scheduler (`context-engine`) | run state file, receipts | schedule phases, evaluate conditions, resume | crash and resume, three-valued conditions | a phase runs after what it needs, and once |
| App update (`SparkleUpdateController.swift`) | the session of the last check: what was found, accepted, begun, failed, how many retries are left | check at launch, by the user, by Sparkle's schedule, by a retry timer; the callbacks of an update cycle | the framework's cycles and the app's sessions overlap; one failure is reported twice; timers cannot be cancelled | a failure is repeated or reported, an accepted update is installed, the user hears the outcome |
| Supervision, sensors, parsers, planning, user interface | operating-system or third-party state, or none | | | see PROJECT.json, not modelled |

How they interact. The daemon talks to the wiki core and to memory through
child processes and JSON; the mail store, the harness store and the wiki core
are also used directly from command lines, so their only common ground is the
file system and advisory locks. A refresh of the wiki goes menu bar or timer →
daemon socket → render queue → publication queue → coordinator → renderer; a
publish goes socket or CLI → publication queue → wiki core child → coordinator's
mirror. Caddy serves `wiki-site/current` all the while.

## 2. Modules and the code

    AgentDirectory ──► AgentMail ──refines──► MailWork
    WikiRenderQueue ──► WikiPublication
    HarnessStore ──refines──► HarnessTurns
         └──► HarnessRecovery        └──► WikiCompany ◄── PhaseGraph
    PostgresBootstrap ──► MemoryIngest
    CaptureRetention        WikiPages        UpdateSession

An arrow to the right is EXTENDS: the larger module composes the smaller one
with the rest of the system. A `…Proofs` module holds the theorems of the module
it is named after (AgentMailProofs those of AgentDirectory too, WikiPublicationProofs
those of WikiRenderQueue); `MC*` modules only give model values.
Operators named `Mut…` are deliberately wrong variants of the definition below
them, used to confirm that each property can fail.

**AgentDirectory** (`agent-mail/src/lib.rs` 1064-1278, 2241-2261). `agents` and
`leases` are the last records of `agents.jsonl` and `leases.jsonl`. Identify,
heartbeat and retire run without the mutation lock, so each is three steps of a
`client` process: read and check, append the record, append the lease. A client
can be killed in between (`ClientCrash`).

**AgentMail** (same file, 850-2432). One variable per ledger, and `op`, what the
process holding the mutation lock has still to append. `AcceptMessage` …
`Deliver` … `AppendNotification` are the appends of `send_mail` in order;
`ClaimDelivery`, `MarkDelivery` and `SnoozeDelivery` start the chain delivery →
claim event → suppressions; a poll writes the rows it misses and returns;
`RecordAttempt` writes the attempts ledger, then the outbox. `MailCrash` ends the
chain anywhere. The check that opens an operation is one step with its first
append, because under the lock only the directory and the clock can move in
between. Two inputs deserve a note: the message id of a send is the caller's,
so a retry may carry another one, and an id may come back under another key;
`record_notification_attempt` is a function of the library that a dispatcher
calls with a row it was handed before.

**MailWork** is what a team would say of work items on a whiteboard: posted
once, taken once, finished by who took it, then fixed. `ImplementsWork` maps the
delivery ledger onto it.

**WikiRenderQueue** (`WikiRenderQueue.swift`). The state is guarded by a serial
dispatch queue, so every handler is one action. `timers` holds all armed
`asyncAfter` blocks, stale ones too. Times are what is left of them, in ticks;
`delay` reads the backoff that `finish` has just set, hence the primed variable
in `Delay`. `covered` is an observer.

**WikiPublication** (`WikiRenderCoordinator.swift`, `main.swift` of the daemon
1776-1842, `wiki-daemon/src/main.rs` 1552-1761). `work` is the turn on the
publication queue, a refresh or a publish, and its step. Each directory
operation is an action: set the site aside, move the new one in (and back when
that fails); remove, rename and fingerprint in the core; remove and copy `next`,
drop `previous`, move `current`, move `next`. `Edit` changes sources at any
moment, `StartLocalWeb` is the other process, `Crash` the kill of the daemon: the
queue and the turn are gone, the directories stay. A site is known by the
versions of the sources it shows, the fingerprint file in it and whether the
validator accepts it; what the core renders need not be valid, what the app
renders was validated. `End` joins the end of the turn with `finish` of the
render queue, which follows on another dispatch queue: nothing in between reads
what they change in an order that the join would hide, since a publish does not
touch the render queue and a request that slips in is scheduled either way.

**HarnessTurns, HarnessStore, HarnessRecovery**
(`agent-harness/core/src/lib.rs`). `HarnessTurns` is what the harness promises: a
unit is called once, under a parent that is not retired, runs one turn at a
time, and only its active turn is completed. `HarnessStore` has the files: the
snapshot (`store`), the receipts and the lock file. An operation is `Acquire`
(lock and load), one of `CallUnit` … `RecordAdapterEvent` (the check and the
receipt file), `Save`; `Fail` is a failed write, which drops the lock, or a death,
which leaves the lock file for ever, since no code removes another's.
`HarnessRecovery` adds a damaged snapshot and its replay from the receipts in the
order of their time stamps (`Replay`, a recursive function on sets of receipts that
takes the newest last), and a clock that is set back.

**PhaseGraph** (`context-engine/src/scheduler.rs` 366-530). `PhaseOrder` is the
queue of `analyze_phase_graph` (`Pop` is one turn of its loop); the reference
definition beside it says what invalid, cyclic and ordered phases are.

**WikiCompany** (`agent_execution.rs`, `harness_executor.rs`, `artifacts.rs`,
`run_state.rs`; `append_talk` of `wiki-core/src/lib.rs`). It EXTENDS HarnessTurns,
the abstract harness, and PhaseGraph: this is where harness, scheduler, wiki
core and mail meet. An `engine` is one invocation of
`execute_wiki_company_agents`; it loads the run state, plans, and takes each
runnable turn through start, worker, talk page, mail, completion, artifact and
save. Each call into another component is an action, because other invocations
run in between. A turn that is active already is either recent, and skipped,
or stale, and completed for a second attempt; the slow first worker may still
answer. `talk`, `mail` and `artifact` hold the attempt whose text is there, since
all three are keyed by the operation and a second attempt has another text.

**PostgresBootstrap** (`memory-db/src/local_postgres/supervisor.rs`). A process
takes the fast path or the lock, looks again, and goes through initdb,
configuration, server, readiness, the four parts, fingerprint, marker and probe;
a failed command drops the lock wherever it was. `cluster` is the data directory
with the two files that vouch for it, `server` the configuration the running
server read. Others may judge a lock file at any moment, between its creation and
the write of the pid too, and remove it by its path any time later, when it may be
another's: `misjudged` and `robbed` are histories of that, and the properties name
what they except by them.

**MemoryIngest** (`onecontext-memoryd.rs`, `local_adapters.rs`) EXTENDS
PostgresBootstrap: the daemon is one of its processes. A tick loads the cursor
file, reads the files of each source behind their cursors (`ReadFile`, within the
limits of events and lines), makes sure of the database by the bootstrap's own
actions, writes chunk by chunk and saves the cursors. A record is known by its
file, its line and where the slice began that was read, because the line number
in `record_discriminator` counts from there.

**CaptureRetention** (`capture-core/src/bundle/`, `retention.rs`). `export` is what
each exporter does next, `sweep` what each sweeper has listed (class by class, as
`list_bundles` does) and has still to apply. Any write makes the directories
above it, so a partial bundle that a sweep moved away begins again, empty but for
that file (`Touched`). Ages are abstracted: any listed directory may be old enough
(`PlanSweep`), of the times only the order of the `ready_at` stamps is kept, which the
ranking needs. Deleting a directory takes two steps (`deleting` is the directory a
sweeper is at), and between them the sweeper may die or the deletion fail: what is
left then stays, and may be the READY file, the manifest or both without the
other files (`cut` is the history of it).

**WikiPages** (`wiki-core/src/lib.rs`). `registry` is `wiki.toml`: what a page
occupies (route, talk route, path), whether it is enabled and in the navigation,
which a page whose `nav_section` is hidden never is (`shown`).
A `source` is known by its text, which stands for its hash, by a span an operator
protects in it, if any, and by who wrote it. A `caller` is a process with the
library: `OpenPage` takes no lock, the other operations hold
`page-lifecycle.lock` (`lock`) from `Begin…` to `Finish` and write one file per
action, in the order of the code. `Die` is a kill or a failed write; it may
leave a source torn, since sources are not written atomically and `wiki.toml`
is. `EditDirectly` is a person with an editor. `direct`, `cut` and `unborn` are
histories: the properties need them to name the exceptions exactly.

**UpdateSession** (`SparkleUpdateController.swift`, the menu's update flow in
`OneContextMenuBar/main.swift`). `session` is the reducer's, `cycle` what Sparkle is
doing; the framework itself is external and known by its callbacks: one cycle at
a time, started by the app or by its own schedule, which does not pass through
the reducer and so starts no session. Everything is on the main actor and alerts
are modal, so a callback with the user's answer is one action. An error reaches
the app by `showUpdaterError` and again when the cycle ends, or only then; `owed` is
an observer of what the user asked for. An update may be optional, critical,
information only, or critical and information only: the last counts as mandatory
in the session and in the menu, and is dismissed all the same.

## 3. What the runs show

All runs are exhaustive over the bounds of their configuration.

| run | instance | what it establishes |
|---|---|---|
| mail_send | 1 agent, 2 messages, 2 keys, 2 recipients, limit 1 | the limit holds and what is delivered was accepted, under retries and kills |
| mail_dispatch | 1 agent, 2 clients, time to 1, snoozes to 1, both outcomes | a poll returns all due work; attempt counts have evidence; a retry waits; once an agent is retired and no older identify is under way it stays retired |
| mail_live | 2 agents of a role, 1 message, fairness, time stands still | ownership (`ImplementsWork`), claim log and suppression agree with it; open mail is offered again and again to a live agent that may work on it |
| wiki_publish | 2 requests, debounce 1, backoff 2, cadence 3, 1 publish, 1 edit of each part, 1 kill, fairness | a quiet daemon whose last refresh did not fail serves pages as new as the last request; only valid sites are served, and a served one goes only when its successor is whole; delays respected, manual requests kept until they are rendered, every request followed by a render, kills and publications included |
| harness_recovery | 2 units, 2 turn ids, 5 sequence numbers, 1 fault | the store implements HarnessTurns; the receipts tell what a damaged snapshot said |
| wiki_company | 2 invocations, 3 phases, 3 turns, one of them retried, 1 death | what the run state calls completed was run, reported, mailed and in order; known artifacts exist; the scheduler agrees with its reference on all 4096 plans of three phases |
| memory_ingest | the daemon and another process that bootstraps, 2 faults, 1 source of 2 files, 3 lines, 1 failing source, fairness | until a bootstrap is robbed of its lock: one at a time; marker and fingerprint tell the truth; no quarantine loses a row; cursors never pass what is stored, nothing is stored twice but for a line read from another place, every line arrives |
| capture_retention | 2 bundles, either pinned, 1 sweeper that begins again, 1 fault | a READY bundle in live is complete until a sweep begins to delete it; one that is not was left by a deletion given up half way; the newest and the pinned ones outlive every stale plan |
| wiki_pages | 2 callers, a configured page and a new one, 3 places, one of them hidden, 2 more texts, 2 faults | no checked edit overwrites another caller's; protected spans and closed pages stand; tombstone, entry, navigation and ledger agree unless an operation was cut; no two pages share a route or path; templates and edits are told apart |
| update_session | 2 clicks, 2 cycles of Sparkle's schedule, fairness | a failed check of the app is repeated or reported unless it was spent before; an accepted update is installed when it is ready; who asks for a check sees its outcome |
| failing_source | memory_ingest without faults | counterexample, see section 5 |
| scheduled_update | 1 click, 1 scheduled cycle | counterexample, see section 5 |

Why the bounds are enough. Two agents are what competition for one delivery
takes, and one message suffices there because deliveries do not interact except
through the capacity limit, which mail_send exercises with two messages and two
keys at a limit of one (the second send hits it, a retry hits the delivered
case, an overshoot would be visible). Time runs far enough for a lease to
expire and be renewed, a snooze to come due and a retry gate to open.
In wiki_publish the queue's three delays differ so that each is the longest once;
one edit already separates "before" from "after"; two requests give one merged,
one pending behind a render, and one re-scheduled after a failure; one publish
falls before, between or after the refreshes; and one kill may hit any step.
Where a theorem exists, it removes the
bound.

For the harness, five sequence numbers are a call, a turn and a retirement, or
two units; one fault may be of any kind at any step. With two (a receipt left by
a dead process, then a damaged snapshot; or a clock set back, then damage)
`ReceiptsRebuildTheStore` does not hold: the property is the single-fault promise
of the README it quotes, and the hazard list says so. In wiki_company the first
phase is imported, the second has two turns that do not depend on each other,
and the third needs the artifact of one of them: a phase may then be half done, and a turn
known to one invocation and not to the other. Two turns of one unit are a
retry, and two engines with one death are an overlap, a takeover and a resumption.
In memory_ingest two processes are what a race for the bootstrap takes, and two
faults are any two of kill, failed command, stopped server and update of the
app, the other process being as good as any other. The limit of two events cuts
a source between its two files; the limit of two lines cuts a file, so that a
line can be read again from another place; a kill may fall into any step of
the bootstrap, and chunks are any non-empty part of the batch. The run stops
(`CONSTRAINT UntilRobbed`) where a process at work loses its lock file to another that
judged it wrongly: every safety property but `StoredOnce` says nothing from there on,
`LinesAreStored` is satisfied there, `StoredOnce` is proved beyond it, and without the
constraint there are more than six million states. All the judgements and removals
that lead there are in the run;
more processes and faults are the theorems'. In update_session two clicks are
a check and "Try Again", or a check and the menu's mandatory update; two
scheduled cycles are one before and one after a retry; the retries of an
automatic check are all there, and the failure that takes the last of them is not yet
"spent". In capture_retention two bundles are the newest and the one that
must go, and the sweep of one listing can overlap both exports; the one fault may be
a deletion that is given up; more sweepers
and bundles are the theorem's. In wiki_pages two callers are what a lost edit or
a contested route takes; of the three places two have a path in common and two
a talk route, and at the third a page is hidden; creations of different pages
at once are `PlacesStayUnique`'s; two new texts are an edit and the direct edit it meets, or a new
page and an edit; and two faults cut a deletion and the restoration after it.

Type invariants are theorems (section 4) and not repeated in the runs.

Deadlock is checked except where the system may rest: a wiki with the bounded
requests, edits, texts and kills used up, a harness store whose bounded ids are, an
engine whose run is complete, bundles that are exported and swept, a memory
daemon whose cursor file does not parse, which ingests nothing from then on, and
an app that has been updated.

Fairness.
- `MailFairness`: the process that holds the lock goes on unless it is killed
  (weak); agents poll for ever and `flock` starves none (strong, per agent, since
  a poll is enabled only when the lock is free); kills do not hit every one of
  infinitely many polls (strong on `AppendNotification`, since a kill disables
  it). None of it is asked of senders or workers.
- `WikiFairness`: time passes, dispatch runs due timers, and the turn on the
  publication queue goes on (weak, on each). The last is an assumption on the
  renderer, on which the code puts no time limit. Kills, edits and publications
  are bounded, nothing is asked of them.
- `IngestFairness`: the daemon goes on (weak): its loop runs tick after tick, and
  its commands end. Kills, stopped servers and failures are bounded, nothing is
  asked of them.
- `UpdateFairness`: sleeping tasks wake up and Sparkle brings a cycle it began to
  its end (weak). Nothing is asked of the user or of Sparkle's schedule.

## 4. What is proved

The theorems hold for every value of the constants under the named assumptions
of the modules (`DirectoryAssumption`, `MailAssumption`, `QueueAssumption`,
`PublicationAssumption`, `HarnessAssumption`, `StoreAssumption`, `PhaseAssumption`,
`CompanyAssumption`, `StorageAssumption`, `IngestAssumption`, `RetentionAssumption`, `PagesAssumption`, `UpdateAssumption`): bounds are
naturals, special values are not elements of the sets they stand beside.

| theorem | says | inductive invariant |
|---|---|---|
| DirTypeInvariant, MailTypeInvariant | types | themselves |
| RetirementIsFinalOnceQuiet | a retired agent stays retired once quiet | types; a step can only write Active if an identify was in flight |
| MailKeepsTheDirectory, RetirementIsFinalInTheStore | under the store the directory is the directory, so a retired agent stays retired there too | none: each step of the store is one of the directory or leaves it alone |
| MailImplementsWork | the store implements MailWork | types: each action is a step of the board or a stutter |
| SuppressionIsSafe | suppressed only when another agent owns the delivery | `SuppressionInv`: the same of the rows still to be suppressed |
| ClaimLogIsEvidence | the log never names a loser | `ClaimInv`: a logged event names an agent and the owner; so does the event about to be logged |
| CapacityIsRespected | limits | `CapacityInv`: the open set of a mailbox is finite too; it grows by one, and only when not full |
| QueueTypeInvariant, RendersAreSingleFlight, NoLostWakeup, AutomaticRendersWait, ManualRequestsAreKept | the render queue | `QueueInv`: `activeRenders` counts the running render; tokens are past; the current timer of an automatic request outlasts backoff and cadence |
| WikiTypeInvariant, ServedSitesAreValid, ServedPagesCoverRequests, ServedSitesHaveSuccessors | the publication | `WikiInv` |
| PublishedRendersAreSingleFlight, PreparedRendersWait, ManualRequestsAreServed | what the queue promises, still with the publisher on it | `QueueInv` under the steps of the composition; the lemmas of a step are the queue's |
| DeliveriesAreAccepted | what is delivered was accepted | `AcceptedInv`: a key is recorded once, after its message file; the recipients a send has left are those of the recorded payload |
| AttemptsHaveEvidence, RetriesWait | the outbox counts no attempt the ledger lacks; retries wait | `EvidenceInv`: the rows of an attempt are finite and at least the count, one more between the two appends; behind each retry time is a failure that is logged |
| PollsAreComplete | a poll leaves out nothing due | `PollInv`, `GrantInv`: a poll has written or returned what its agent may see, and grants are what the policy says; hypothesis `SteadyGrants` |
| CompanyTypeInvariant, CompletedPhasesAreReported, PhasesCompleteInOrder, ArtifactsAreThere | what the run state claims was done | `CompanyInv`: what an invocation has behind it, by its place, is on disk, and what is on disk only grows; its memory is as sound as the run state |
| OneBootstrapAtATime, MarkerTellsTheTruth, NoRowIsLost | exclusion, marker, rows, until a process at work is robbed of its lock | `LockInv`: until then the lock file and the places of the processes agree, and who is about to remove the file of a process at work is known to have misjudged it; `ClusterInv`: what each place has made ready; `WorkInv`; no hypothesis |
| CursorsStayBehind, NoSecondRow, IngestKeepsTheDatabase | the ingest, composed with the database | `CursorInv`: cursors in memory are behind what is stored and what the tick holds, those on disk behind what is stored; `OnceInv`: what a tick read begins at the cursors on disk, and so does every row beyond them; the invariants of the bootstrap under the steps of the composition; `NoSecondRow` needs none of them and holds after a robbery too |
| RetentionTypeInvariant, ReadyBundlesAreComplete, NewestAndPinnedBundlesStay | retention | `RetentionInv`: what is promoted stands, what is in live came there whole and is so, is being deleted, or was left by a deletion that was given up; a plan holds only what may go |
| PagesTypeInvariant | types, and who holds the lifecycle lock | itself |
| PlacesStayUnique, ClosedPagesStayFrozen | what pages occupy; deleted pages | `RegistryInv`: the copy a creation is to write is of the `wiki.toml` there is, with a free place; an edit or creation under way is of an open page |
| PagesAreWhole | tombstone, entry, navigation, ledger | `WholeInv`: what may disagree is one pair at a time, by how far a delete or restore got, or by where it was cut |
| StaleHashesFail, ProtectedSpansStand, EditsStayNoticed | edits and templates | `EditInv`: texts are numbered as written; an edit under way still finds the text it compared or one written directly; a creation knows its text until the baseline is told |
| UpdateTypeInvariant, EveryFailureIsFollowedUp, ReadyUpdatesGoOn | a failed check is repeated or reported, or was spent before it failed; an accepted update is not dismissed | `UpdateInv`: in a session that no check replaced, the offer the cycle relies on stands, and a failure was handled only with a retry or an alert to show for it, or as that of a check that was spent |
| EveryPlanIsOrdered, SchedulesAreSound | the phases ordered, cyclic and invalid are what the definitions say, for every plan | `LoopInv` of the loop of `analyze_phase_graph`: what a phase depends on is ordered before it; the counters and the queue are what the order so far makes them |
| CompanyKeepsTheLedger | the engine is a client of the abstract harness | `CompanyInv`: its types; a step carries out one operation at most, behind the check the harness makes |
| StoreTypeInvariant, StoreImplementsTurns | the harness store is a turn ledger | `StoreInv`: types; the lock holder's copy is the snapshot on disk, or one operation ahead of it |
| ReceiptsRebuild, RecoveryImplementsTurns | a damaged snapshot is rebuilt from the receipts, and the store with recovery is still a turn ledger | `RecoveryInv`: until a fault, and while the snapshot is damaged, the receipts are of different times and ids, all in the past, and their replay is the latest snapshot; hypothesis `MaxFaults <= 1` |
| CarefulFaultsAreRecovered | the same after any number of faults but two kinds | `CarefulInv`: the receipts always tell the latest snapshot; hypothesis `[][Careful]_recoveryVars` |

`AutomaticWaits` shows why strengthening is needed: a timer is set when a request
is scheduled, but backoff and cadence are looked at only then. `DelayCovers` says
that they never outlast the current timer, which holds because `finish` sets the
backoff before it re-schedules what was pending and because nothing can be
scheduled while a render runs.

`WikiInv` follows a refresh: the fingerprint taken at its start covers every
request not pending (`RefreshInv`), fingerprints of the app never claim more
than the site shows (`PrintInv`), so a skipped render is as good as a render;
what is mirrored is the whole site (`MirrorInv`); and a publish in between only
replaces a site with a newer one (`HealthyInv`).

The lifecycle lock makes WikiPages provable action by action: while one caller is
under way the others rest (`Alone`), so what a place in an operation may count on
(`CallerListed`, `CallerWhole`, `EditCaller`) is disturbed by its own next step
and by direct edits only. The run has two faults; the theorems have any
number, which is where a second cut between the first and its repetition counts.

`StoreInv` is what makes the refinement a matter of one step: only `Save` changes
the abstract ledger, and what it writes is one operation ahead of the file
because nobody else can have saved while the lock was held. `StoreSpec` has the
deaths and failed writes.

Recovery and the phase graph are recursions over data, and the library's rules of
induction take an operator, which the provers cannot instantiate. Both proofs
use sets instead. `LeastNatural` (from the well-foundedness of < on the naturals,
which the library states without an operator) gives `Induction`: a set that has 0
and with k also k + 1 has all of 0..n. For the scheduler the set
holds the numbers of turns of the loop for which there is a function that obeys the
recursion: `Iteration` shows that there is one for every number,
`RecursionIterates` that the model's is one, and `LoopInv` is carried along it. For
the replay the set holds the times up to which the receipts have a replay that obeys
its recursion (`TellingExists`); a new receipt is newer than all others, so it is
replayed last (`ReplayAppends`), and makes of the ledger what its operation made of
it (`RecordTells`).

The bootstrap's theorems have no hypothesis: that the code lets a process remove
another's lock file is in the model, and the properties say `~robbed =>`, in the
state they speak of and not of the run as a whole (section 5, 9). The ingest inherits
that, because a quarantine after a robbery takes rows its cursors count on. What
makes it provable is `misjudged`: a process that is about to remove a file and did
not misjudge it is about to remove one that nobody at work owns.

Some theorems have a hypothesis beside the assumptions. `SteadyGrants` says that the policy file grants an agent the same at each
identify: a grant that arrives while a poll runs is found by the next poll, and
a poll promises nothing of it.

`MaxFaults <= 1` is the single-fault promise of harness_recovery; with two faults
it does not hold (section 3). `Careful` says which two spoil it: a step that ends an
operation between its receipt and its save, which leaves a receipt of what never
happened, and a clock set back. Damage, abandoned locks and earlier failures
may happen as often as they like.

Only model-checked: the liveness properties `MailSurfaces`, `RequestsAreServed`,
`LinesAreStored` and `UserIsAnswered`, which are beyond the prover. Every safety
property that a run expects to hold is a theorem.

## 5. Disagreements with the documents

Checked, as a run that finds the counterexample:

1. *A cursor passes lines that were not stored* (failing_source).
   `ingest_agent_jsonl_incremental` moves a file's cursor and then may fail to
   compile what it read; the tick saves the cursor all the same.
   `docs/memory-db-api-protocol-spec.md:1142`: a cursor moves only after the
   writer has committed the source step. `CursorsBehindRows` says this is the only
   way.

2. *A failed update is passed over in silence* (scheduled_update). The check at
   launch ends with "no update", which `handleFailure` counts as a failure that is
   handled; Sparkle's schedule later finds a mandatory update in the same session,
   and when its download fails the guard drops the failure.
   `docs/macos-release-runbook.md:107-112`: failed updates should show only "Update
   failed. Please contact support". `FailuresAreFollowedUp` is what holds of the
   checks that the app starts itself.

Met while modelling; the models have the steps, no run is kept for them:

3. *A retired agent is revived.* `identify_agent` checks the record and appends
   without the mutation lock (`docs/agent-mail-protocol.md:380`: not silently
   revived). `RetiredIsFinalOnceQuiet`, proved, says this is the only way back.
4. *An accepted message is rewritten.* `accept_message_unlocked` looks at the key
   only; a second key under the id of an accepted message overwrites its file
   (`docs/agent-mail-protocol.md:150`, `:779`: messages are immutable).
5. *Work stays with a retired agent.* `retire_agent` looks at no delivery
   (`docs/agent-mail-protocol.md:359`: claimed must name an active agent).
6. *A publish claims an edit it did not show.* The core fingerprints the sources
   after it rendered them; an edit in between counts as published until the next
   one (`docs/wiki-publishing-system-api.md:290-292`). The app's refresh takes the
   fingerprint first and does not have the problem.
7. *The last good site is not served.* The menu bar's start of the web server can
   create `current` between the two moves of a promotion, which then fails and
   leaves support files served (`docs/wiki-system-architecture.md:295`).
   `ServedSiteHasSuccessor` is what does hold.
8. *A retried report gets no receipt.* `append_talk` notes that stable operation
   ids are idempotent for retries (`wiki-core/src/lib.rs:2610`), and the talk page
   is; but the mail store refuses another text under the same key, and a turn
   without a mail receipt is not complete, so a turn that failed after its mail
   is retried in vain (`MailReport`).
9. *Two processes bootstrap at once.* A lock file is blank between its creation
   and the write of the pid, and `remove_stale_bootstrap_lock` removes a blank one;
   a file judged stale is removed by its path, which may be a new owner's by then;
   and a dropped lock removes whatever file is there (`supervisor.rs:697`, `:743`,
   `:783`). It needs no fault and no kill: one process creates the file, another
   finds it blank, the first signs it, the other removes it and creates its own.
   memory_ingest has these steps; `BootstrapIsExclusive`, proved, says that this
   removal (`robbed`) is the only way, and without its `~robbed` the same run
   finds two processes at work after 12 steps. What two bootstraps at once do to
   the cluster is not explored.
10. *A direct edit is overwritten.* An edit compares the hash, reads the source and
   writes it; what a person saves in between is lost
   (`docs/wiki-publishing-system-api.md:33`: no component may silently overwrite
   user-owned wiki source). `NoEditIsOverwritten` says this is the only loss.
11. *A page that can neither be restored nor created.* When the source of a deleted
   page is gone, `restore_page` says "recreate with wiki.page.create instead"
   (`lib.rs:2382`), and `create_page_with_options` refuses a tombstoned page and
   asks for "an explicit restore operation" (`lib.rs:1889`).
12. *The ledger misses a deletion.* A delete or restore that is killed after
   `wiki.toml` leaves nothing for its repetition to change, so no event is
   written (`docs/user-data-spec.md:459`: the ledger records tombstones and
   restores). `PageIsWhole` has it as the case `untold`.
13. *A template passes for edited.* A creation that is killed before its baseline
   is completed without one, because the source then exists (`unborn` in
   `EditsAreNoticed`).
14. *A line is stored twice.* The line number in a record's key counts within the
   slice that was read. When the daemon is killed before it saves the cursors and
   the next tick's limit on lines ends a slice elsewhere, lines that are stored are
   read from another place and stored again under another key
   (`docs/memory-db-api-protocol-spec.md:87`: the database "must not insert a second
   object"). `StoredOnce` says this, and a damaged cursor file, is the only way.
15. *An update the user chose again is not installed.* The menu's action for a
   mandatory update starts a session although the cycle that downloads it still
   runs; the download is then ready in a session that accepted nothing, and is
   dismissed until the next check. `ReadyUpdatesAreInstalled` has it as `replaced`.
16. *A prompt nobody asked for.* After a check of the user, Sparkle's scheduled
   checks run in the user's session and ask for optional updates
   (`docs/macos-release-runbook.md:101-102`: optional releases stay quiet until the
   user chooses the menu action).
17. *A retry that is skipped.* The retry of a user's check is dropped when Sparkle is
   busy with a scheduled one, and nothing tells the user (`skipped` in
   `UserIsAnswered`).
18. *A READY bundle without its files.* `apply_retention_sweep` deletes a live bundle
   with one `remove_dir_all` (`retention.rs:234`), which neither renames it first nor
   removes READY first. When it fails or the process is killed half way, READY and a
   ready manifest may be what is left, and consumers are told that such a bundle is
   complete and to read it (`capture-core/README.md:57-59`, `:82-83`). The next sweep
   plans it again only if the manifest is still there. `ReadyMeansComplete`, proved,
   has it as `cut` and says that nothing else makes a READY bundle incomplete;
   without that exception the run of capture_retention finds it in 23 steps.
19. *A failed attempt is repeated at once.* A dispatcher killed between the attempts
   ledger and the outbox leaves the outbox row without `next_dispatch_at`; the next
   dispatch does not wait for it (`agent-mail/src/lib.rs:1780`). `RetryGated` is about
   the retry time that is logged.

## 6. What is left out

Mail. Appends are atomic (a torn line, which makes later reads fail, is not
modelled). Injection receipts, control events, mailbox views and thread reads
feed nothing else. `AgentState::Stale` and `DeliveryState::DeadLetter` exist in
the code and are never written. `snoozed` returns to the inbox by `is_due_at` at
reading time; no record is written, and nothing checks that a wake time lies in
the future, so the models take any. The time an operation uses is read before it
has the lock; the models read it when the operation starts, which is the same
except for a wait at the lock. Recipients are taken in any order.

Wiki. Versions only grow, so an edit that is undone is a new version. Talk trees
exist, so the fingerprint of the app and that of the core never agree (they do
only on a wiki without talk and assets). The renderer reads all sources in one
step. Input and output fail in the renderer, when the new site is moved in, in
the link report and in the copy; the other moves fail only because their target
exists. A site directory with only metadata is the same as none. `wiki.toml`
passes the core's validation, a renderer is configured, the cadence setting does
not change, and the core's process ends with the daemon's: publications go through
the publication queue of one daemon.

Pages. Assets and their replacement, talk attachments, validation, link reports,
inventory and queries. The pages of `wiki.toml` are enabled at first. Ids are not
routes (a page is found by either), creating all pages is a series of
creations, a line of the ledger is appended in one step, and the event of an
edit, which nobody reads, is left out. Of an agent's edit only what it does to a
protected span counts; a page has one at most.

Harness. Several stores, a store directory removed by hand, usage accounting,
redaction and proof summaries. A unit id is not generated twice (the sequence of
the snapshot names it); the ids of the model are the caller's.

Engine. The dialogue with the worker is one answer, good or bad; the JSON of
plans, conditions and fan-outs, the job filter of the environment and
receipts that the scheduler itself requires are left out. The run state,
artifacts and talk pages are whole when they are read: the engine writes them
atomically or reads them by key. `MaxTurns` bounds retries.

Postgres. Commands are their effect; a pid is never reused, so a lock whose owner
is dead is known to be stale (the code compares start times as well). The app
is updated while no process is at work.

Memory. Only agent session files, which grow (a file that shrinks is read from
its start). A record always compiles to one object, or the source fails. A
conflict of identities, which would block every later tick, needs contents the
model does not have. A torn last line is left for the next tick by the
adapter, so a line is a complete one.

Capture. The content of a bundle is whether its required files are there; dry runs,
the audit log and the pinned directory are left out (no code moves a bundle into
it). An exporter that stops on an error and one that dies are the same.

Update. Sparkle's preferences (automatic checks and downloads are on), a framework
that does not start, the alerts after an installation, and the text of all of
them. A cycle that fails after it installed is one that failed to.

Hazards that no property covers are listed with the reason in PROJECT.json. The
components that are not modelled, and why, are listed there too: either they
keep no state of their own (parsers, planning, command lines), or their state
is that of the operating system, the database or a third party, or they are
planned.

## 7. Plan

In order of weight; each module is written without RECURSIVE operators so that
it can be proved about.

1. **SpoolIndex**, from `capture-core/src/spool_index.rs`: the index as a function
   of the file, checked against a scan.
2. **LedgerFile**: the append of a line in two writes, and what a torn line does to
   the operations of the mail store.
3. Assets of pages, which live in the page's directory and are replaced under the
   same lock.
