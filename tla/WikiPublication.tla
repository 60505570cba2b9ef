-------------------------- MODULE WikiPublication --------------------------
(***************************************************************************)
(* How the wiki gets from its sources to the browser.  A render the queue  *)
(* starts (wiki.refresh by hand, wiki.prepare automatically) and a         *)
(* wiki.publish request take turns on the daemon's publication queue:      *)
(*                                                                         *)
(*   refresh  fingerprint the sources, skip or render into staging,        *)
(*            validate, exchange user-wiki/site for it, mirror             *)
(*   publish  run the wiki core, which renders into staging, exchanges     *)
(*            user-wiki/site for it, fingerprints the sources, mirror      *)
(*                                                                         *)
(* The mirror copies the site to wiki-site/next and moves current to       *)
(* previous and next to current; Caddy serves current.  Directories are    *)
(* moved one at a time, pages are edited at any moment, the daemon may be  *)
(* killed between any two steps, and the menu bar process puts the support *)
(* files into current whenever it starts the web server.                   *)
(***************************************************************************)
EXTENDS WikiRenderQueue

CONSTANTS
    MaxEdits,      \* bound: edits of pages, and of talk
    MaxPublishes,  \* bound: wiki.publish requests
    MaxCrashes     \* bound: kills of the daemon

Prints == [by : {"none", "app", "core"}, pages : Nat, talk : Nat]
Sites == [whole : BOOLEAN, pages : Nat, talk : Nat, print : Prints]

ASSUME PublicationAssumption ==
    /\ {MaxEdits, MaxPublishes, MaxCrashes} \subseteq Nat
    /\ None \notin Sites

VARIABLES
    source,      \* versions of what is rendered: page bodies and talk trees
    site,        \* user-wiki/site, None if there is no such directory
    current,     \* wiki-site/current
    previous,    \* wiki-site/previous
    next,        \* wiki-site/next
    work,        \* what holds the publication queue and where it stands
    publishes, crashes,
    asked,       \* observer: version of the pages at the last request
    healthy      \* observer: a refresh succeeded and nothing failed since

dirs == <<site, current, previous, next>>
observers == <<asked, healthy>>
counters == <<publishes, crashes>>
wikiVars == <<source, dirs, work, counters, observers>>
vars == <<queueVars, wikiVars>>

(* source-fingerprint.txt.  The app hashes the pages, the core the pages   *)
(* and the talk trees: the two are equal for no wiki with a talk tree.     *)
Fingerprint(by, pages, talk) == [by |-> by, pages |-> pages, talk |-> talk]
NoPrint == Fingerprint("none", 0, 0)
AppPrint == Fingerprint("app", source.pages, 0)
CorePrint == Fingerprint("core", source.pages, source.talk)

(* A directory is whole when the site validator accepts it; Rest is one    *)
(* with nothing but the support files of the web server.                   *)
Site(whole, print) ==
    [whole |-> whole, pages |-> source.pages, talk |-> source.talk, print |-> print]
Rest == [whole |-> FALSE, pages |-> 0, talk |-> 0, print |-> NoPrint]
Whole(d) == d # None /\ d.whole

(* by: whose turn it is; seen: the fingerprint taken before the render;    *)
(* staging: what the render produced; backup: the site set aside.          *)
NoWork == [by |-> "nobody", step |-> "idle", seen |-> NoPrint,
           staging |-> None, backup |-> None]
Free == work = NoWork
GoTo(step) == work' = [work EXCEPT !.step = step]

WikiInit ==
    /\ QueueInit
    /\ source = [pages |-> 0, talk |-> 0]
    /\ site = None /\ current = None /\ previous = None /\ next = None
    /\ work = NoWork
    /\ publishes = 0 /\ crashes = 0
    /\ asked = 0 /\ healthy = FALSE
-----------------------------------------------------------------------------
(* Edits of pages and appends to talk, by the wiki core's other commands.  *)
Edit(part) ==
    /\ source[part] < MaxEdits
    /\ source' = [source EXCEPT ![part] = @ + 1]
    /\ UNCHANGED <<queueVars, dirs, work, counters, observers>>

RequestRefresh ==
    /\ \E priority \in Priorities : Request(priority)
    /\ asked' = source.pages
    /\ UNCHANGED <<source, dirs, work, counters, healthy>>

QueueStep ==
    /\ TimerFires \/ Tick
    /\ UNCHANGED wikiVars

(* publish_status: whether the core finds the site stale.                  *)
RenderRequired == site = None \/ site.print # CorePrint

(* Both ways give up or end here; the outcome goes back to the queue.      *)
End(outcome) ==
    /\ work' = NoWork
    /\ IF work.by = "refresh"
         THEN /\ Finish(outcome)
              /\ healthy' = (outcome # "failed")
         ELSE /\ UNCHANGED queueVars
              /\ healthy' = (healthy /\ outcome # "failed")
    /\ UNCHANGED asked

Fail == End("failed")
-----------------------------------------------------------------------------
(* performWikiRenderLocked and the head of renderAndPublish.  An automatic *)
(* request makes sure first that current exists, with support files only.  *)
MutUnchanged == Whole(site)
Unchanged == Whole(site) /\ site.print = AppPrint

BeginRefresh ==
    /\ Free
    /\ running # None
    /\ work' = [NoWork EXCEPT !.by = "refresh", !.seen = AppPrint,
                              !.step = IF Unchanged THEN "publish" ELSE "render"]
    /\ current' = IF running = "automatic" /\ current = None THEN Rest ELSE current
    /\ UNCHANGED <<queueVars, source, site, previous, next, counters, observers>>

(* The app validates what it rendered before it takes it.                  *)
RefreshRender ==
    /\ work.by = "refresh" /\ work.step = "render"
    /\ \/ /\ work' = [work EXCEPT !.step = "set aside",
                                  !.staging = Site(TRUE, work.seen)]
          /\ UNCHANGED <<queueVars, observers>>
       \/ Fail
    /\ UNCHANGED <<source, dirs, counters>>

(* replaceSourceSite: back up, move in, and put the backup back if that    *)
(* fails.                                                                  *)
SetAsideSite ==
    /\ work.step = "set aside"
    /\ work' = [work EXCEPT !.step = "install", !.backup = site]
    /\ site' = None
    /\ UNCHANGED <<queueVars, source, current, previous, next, counters, observers>>

InstallSite ==
    /\ work.step = "install"
    /\ \/ /\ site' = work.staging
          /\ GoTo("publish")
          /\ UNCHANGED <<queueVars, observers>>
       \/ /\ site' = work.backup
          /\ Fail
    /\ UNCHANGED <<source, current, previous, next, counters>>
-----------------------------------------------------------------------------
(* publishViaCoreAndAppMirror and the core's publish: --force renders      *)
(* although nothing changed.  The core takes the renderer's word: a site   *)
(* it promotes need not pass the app's validator.                          *)
BeginPublish ==
    /\ Free
    /\ publishes < MaxPublishes
    /\ publishes' = publishes + 1
    /\ \E force \in BOOLEAN :
         work' = [NoWork EXCEPT !.by = "publish",
                    !.step = IF force \/ RenderRequired THEN "render" ELSE "publish"]
    /\ UNCHANGED <<queueVars, source, dirs, crashes, observers>>

CoreRender ==
    /\ work.by = "publish" /\ work.step = "render"
    /\ \/ /\ \E whole \in BOOLEAN :
               work' = [work EXCEPT !.step = "remove", !.staging = Site(whole, NoPrint)]
          /\ UNCHANGED <<queueVars, observers>>
       \/ Fail
    /\ UNCHANGED <<source, dirs, counters>>

(* promote_staged_site, then the fingerprint of the sources as they are    *)
(* by then; the link report that follows may fail.                         *)
CoreRemove ==
    /\ work.step = "remove"
    /\ site' = None
    /\ GoTo("rename")
    /\ UNCHANGED <<queueVars, source, current, previous, next, counters, observers>>

CoreRename ==
    /\ work.step = "rename"
    /\ site' = work.staging
    /\ GoTo("print")
    /\ UNCHANGED <<queueVars, source, current, previous, next, counters, observers>>

WriteFingerprint ==
    /\ work.step = "print"
    /\ site' = [site EXCEPT !.print = CorePrint]
    /\ \/ /\ GoTo("publish")
          /\ UNCHANGED <<queueVars, observers>>
       \/ Fail
    /\ UNCHANGED <<source, current, previous, next, counters>>
-----------------------------------------------------------------------------
(* publishExistingSite: only a valid site is mirrored.                     *)
MutPublishable == site # None
Publishable == Whole(site)
ValidateSite ==
    /\ work.step = "publish"
    /\ \/ /\ Publishable
          /\ GoTo("stage")
          /\ UNCHANGED <<queueVars, observers>>
       \/ /\ ~Publishable
          /\ Fail
    /\ UNCHANGED <<source, dirs, counters>>

(* stageSourceSite: the copy is partial until it ends, and may fail.       *)
StageSite ==
    /\ work.step = "stage"
    /\ next' = [site EXCEPT !.whole = FALSE]
    /\ GoTo("copy")
    /\ UNCHANGED <<queueVars, source, site, current, previous, counters, observers>>

MutCopySite ==
    /\ work.step = "copy"
    /\ next' \in {site, next}
    /\ GoTo("drop")
    /\ UNCHANGED <<queueVars, source, site, current, previous, counters, observers>>
CopySite ==
    /\ work.step = "copy"
    /\ \/ /\ next' = site
          /\ GoTo("drop")
          /\ UNCHANGED <<queueVars, observers>>
       \/ Fail /\ UNCHANGED next
    /\ UNCHANGED <<source, site, current, previous, counters>>

(* promoteStagedSite.                                                      *)
DropPrevious ==
    /\ work.step = "drop"
    /\ previous' = None
    /\ GoTo("shift")
    /\ UNCHANGED <<queueVars, source, site, current, next, counters, observers>>

ShiftCurrent ==
    /\ work.step = "shift"
    /\ IF current # None
         THEN previous' = current /\ current' = None
         ELSE UNCHANGED <<previous, current>>
    /\ GoTo("promote")
    /\ UNCHANGED <<queueVars, source, site, next, counters, observers>>

(* A move onto a directory that exists is an error.                        *)
PromoteNext ==
    /\ work.step = "promote"
    /\ \/ /\ current = None
          /\ current' = next
          /\ next' = None
          /\ End(IF work.by = "refresh" /\ work.staging = None
                   THEN "skipped" ELSE "published")
       \/ /\ current # None
          /\ Fail
          /\ UNCHANGED <<current, next>>
    /\ UNCHANGED <<source, site, previous, counters>>
-----------------------------------------------------------------------------
(* LocalWeb.start in the menu bar process: ensureStaticSupportFiles        *)
(* creates current when it is missing.                                     *)
StartLocalWeb ==
    /\ current = None
    /\ current' = Rest
    /\ UNCHANGED <<queueVars, source, site, previous, next, work, counters, observers>>

(* The daemon is killed: queue and turn are lost, the directories stay.    *)
Crash ==
    /\ crashes < MaxCrashes
    /\ crashes' = crashes + 1
    /\ scheduled' = None /\ pending' = None /\ running' = None
    /\ token' = 0 /\ timers' = {} /\ backoff' = 0 /\ cadence' = 0
    /\ active' = 0 /\ accepted' = 0 /\ covered' = 0
    /\ work' = NoWork
    /\ healthy' = FALSE
    /\ asked' = 0
    /\ UNCHANGED <<source, dirs, publishes>>

Mirror ==
    \/ ValidateSite \/ StageSite \/ CopySite
    \/ DropPrevious \/ ShiftCurrent \/ PromoteNext

WikiNext ==
    \/ \E part \in {"pages", "talk"} : Edit(part)
    \/ RequestRefresh \/ QueueStep
    \/ BeginRefresh \/ RefreshRender \/ SetAsideSite \/ InstallSite
    \/ BeginPublish \/ CoreRender \/ CoreRemove \/ CoreRename \/ WriteFingerprint
    \/ Mirror
    \/ StartLocalWeb \/ Crash

WikiSpec == WikiInit /\ [][WikiNext]_vars

(* Dispatch runs due timers, time passes, and the publication queue runs   *)
(* its blocks to the end, one after the other.  That a renderer ends is an *)
(* assumption: the code sets no limit on it.                               *)
QueueRuns ==
    \/ BeginRefresh \/ RefreshRender \/ SetAsideSite \/ InstallSite
    \/ CoreRender \/ CoreRemove \/ CoreRename \/ WriteFingerprint
    \/ Mirror

WikiFairness ==
    /\ WF_vars(TimerFires /\ UNCHANGED wikiVars)
    /\ WF_vars(Tick /\ UNCHANGED wikiVars)
    /\ WF_vars(QueueRuns)

FairWikiSpec == WikiSpec /\ WikiFairness
-----------------------------------------------------------------------------
Steps == {"idle", "render", "set aside", "install", "remove", "rename", "print",
          "publish", "stage", "copy", "drop", "shift", "promote"}
Dirs == Sites \cup {None}
Works == [by : {"nobody", "refresh", "publish"}, step : Steps,
          seen : Prints, staging : Dirs, backup : Dirs]

(* Types, and that a refresh holds the publication queue only while the    *)
(* render queue waits for its outcome.                                     *)
WikiTypeOK ==
    /\ QueueTypeOK
    /\ source \in [pages : 0 .. MaxEdits, talk : 0 .. MaxEdits]
    /\ {site, current, previous, next} \subseteq Dirs
    /\ work \in Works
    /\ work.by = "refresh" => running # None
    /\ publishes \in 0 .. MaxPublishes /\ crashes \in 0 .. MaxCrashes
    /\ asked \in 0 .. MaxEdits /\ healthy \in BOOLEAN

(* What a refresh promises: when the daemon is quiet and its last refresh  *)
(* did not fail, the browser sees pages at least as recent as they were    *)
(* when the last request was accepted, skipped renders included.           *)
ServedCoversRequests ==
    Idle /\ Free /\ healthy
      => Whole(current) /\ current.pages >= asked

(* The browser never gets a half-copied site or one the validator rejects: *)
(* what is or was served is a valid site, or support files alone.          *)
OnlyValidSitesAreServed ==
    \A d \in {current, previous} : d \in {None, Rest} \/ Whole(d)

(* A site that is served leaves current only to be kept as previous, and   *)
(* only when its whole successor waits in next: no failure before that     *)
(* touches it.  (docs/wiki-system-architecture.md: "If publish fails, the  *)
(* last-good Application Support mirror remains served.")                  *)
ServedSiteHasSuccessor ==
    [][Whole(current) =>
         \/ Whole(current')
         \/ current' = None /\ previous' = current /\ Whole(next')]_vars

(* A waiting manual request is never demoted or dropped, by the requests   *)
(* merged into it or by the renders that end meanwhile: it waits as manual *)
(* until a manual render starts or the daemon is killed.                   *)
ManualIsServed ==
    [][ManualWaiting => \/ ManualWaiting' \/ ManualStarts
                        \/ crashes' = crashes + 1]_vars

(* Every accepted request is followed by a render that starts after it,    *)
(* through debounce, backoff and cadence, renders that fail and stale      *)
(* timers, and although publications hold the queue (once requests stop:   *)
(* each request re-arms the debounce delay).                               *)
RequestsAreServed == []<>(covered = accepted)
=============================================================================
