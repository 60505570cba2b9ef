------------------------------- MODULE WikiPages -------------------------------
(***************************************************************************)
(* Pages of the wiki and what callers of the wiki core do to them          *)
(* (wiki-core/src/lib.rs): creation from a template, edits of the body,    *)
(* deletion by a tombstone, restoration.  A page is a source file, a talk  *)
(* directory, perhaps a tombstone, an entry of wiki.toml and lines of the  *)
(* page ledger; nothing makes one of all that but a file lock, which a     *)
(* killed process gives up half way.  People also edit the source file     *)
(* itself, without the core.                                               *)
(***************************************************************************)
EXTENDS Naturals, FiniteSets

CONSTANTS
    Pages,        \* page ids
    Options,      \* how a page may be listed: what it occupies (its route, talk
                  \*   route and path), and shown unless nav_section is hidden
    Configured,   \* the pages wiki.toml comes with, and how
    Callers,      \* processes that use the core
    Nobody,
    MaxTexts,     \* bound: versions of source files
    MaxFaults     \* bound: killed callers, failed operations

ASSUME PagesAssumption ==
    /\ Pages # {} /\ Configured \in [DOMAIN Configured -> Options] /\ DOMAIN Configured \subseteq Pages
    /\ \A p, q \in DOMAIN Configured : p # q => Configured[p].place \cap Configured[q].place = {}
    /\ \A option \in Options : option.place # {} /\ option.shown \in BOOLEAN
    /\ Nobody \notin Callers
    /\ MaxTexts \in Nat /\ MaxFaults \in Nat

VARIABLES
    registry,     \* wiki.toml: per page its options, enabled, in navigation
    source,       \* per page: the source file
    talk,         \* the pages whose talk directory is complete
    tombstone,    \* the pages with a tombstone file
    ledger,       \* per page: its template baseline and its last lifecycle event
    lock,         \* who holds page-lifecycle.lock
    caller,       \* per caller: its place and what it has in memory
    texts,        \* versions of source files so far
    direct,       \* history: versions written without the core
    cut,          \* history: per page what cut deletes and restores left half or untold
    unborn,       \* history: pages whose creation was cut after the source
    faults

files == <<registry, source, talk, tombstone, ledger>>
histories == <<direct, cut, unborn>>
pageVars == <<files, lock, caller, texts, histories, faults>>

(* A source is known by its text, which stands for its hash; it may hold a *)
(* span that an operator protects, and has an author.                      *)
Source(text, span, author) == [text |-> text, span |-> span, author |-> author]
Missing == Source(0, 0, "nobody")
Torn == Source(1, 0, "nobody")
FirstText == 2
Fresh == texts + 1

(* A page that is not shown is never in the navigation.                    *)
Entry(option) ==
    [place |-> option.place, shown |-> option.shown, enabled |-> TRUE,
     navigation |-> option.shown]
Retired(option) ==
    [place |-> option.place, shown |-> option.shown, enabled |-> FALSE, navigation |-> FALSE]
Unlisted == [place |-> {}, shown |-> FALSE, enabled |-> FALSE, navigation |-> FALSE]
Listed(p) == registry[p] # Unlisted
Closed(p) == p \in tombstone \/ ~registry[p].enabled
NotSeen == 0       \* no expected_source_sha256 is given

Idle == [at |-> "idle", page |-> CHOOSE p \in Pages : TRUE, seen |-> 0, base |-> 0,
         next |-> Missing, copy |-> [p \in Pages |-> Unlisted],
         fresh |-> FALSE, changed |-> FALSE]

PagesInit ==
    /\ registry = [p \in Pages |-> IF p \in DOMAIN Configured
                                   THEN Entry(Configured[p]) ELSE Unlisted]
    /\ source \in [Pages -> {Missing, Source(FirstText, 0, "operator")}]
    /\ \A p \in Pages : ~Listed(p) => source[p] = Missing
    /\ talk = {} /\ tombstone = {}
    /\ ledger = [p \in Pages |-> [baseline |-> 0, life |-> "none"]]
    /\ lock = Nobody
    /\ caller = [c \in Callers |-> Idle]
    /\ texts = FirstText
    /\ direct = {} /\ cut = [p \in Pages |-> {}] /\ unborn = {}
    /\ faults = 0

At(c, place) == caller[c].at = place
Page(c) == caller[c].page
Go(c, place) == caller' = [caller EXCEPT ![c].at = place]
Finish(c) == caller' = [caller EXCEPT ![c] = Idle] /\ lock' = Nobody
MayWrite == texts < MaxTexts

-----------------------------------------------------------------------------
(* open_page looks without the lock; the hash it returns is for a later    *)
(* edit, which may do without.                                             *)
MutEditable(p) == Listed(p) /\ source[p] # Missing
Editable(p) == Listed(p) /\ ~Closed(p) /\ source[p] # Missing

OpenPage(c, p) ==
    /\ At(c, "idle")
    /\ Editable(p)
    /\ \E seen \in {NotSeen, source[p].text} :
         caller' = [caller EXCEPT ![c] = [@ EXCEPT !.at = "opened", !.page = p,
                                                   !.seen = seen]]
    /\ UNCHANGED <<files, lock, texts, histories, faults>>

(* write_page_body, patch_page_body and append_to_section begin alike: the *)
(* page must be open to edits, and its hash what the caller expects.       *)
MutExpected(c) == TRUE
Expected(c) == caller[c].seen \in {NotSeen, source[Page(c)].text}

BeginEdit(c) ==
    /\ At(c, "opened") /\ lock = Nobody
    /\ Editable(Page(c)) /\ Expected(c)
    /\ lock' = c
    /\ caller' = [caller EXCEPT ![c] = [@ EXCEPT !.at = "prepare",
                                                 !.base = source[caller[c].page].text]]
    /\ UNCHANGED <<files, texts, histories, faults>>

(* The text it changes is read once more.  An agent's edit must leave a    *)
(* protected span alone, and so cannot be of the whole body when there is  *)
(* one; an operator may do with it what they like.                         *)
MutMayRewrite(author, old, span) == TRUE
MayRewrite(author, old, span) == author = "operator" \/ old.span \in {0, span}

PrepareEdit(c) ==
    LET old == source[Page(c)]
    IN  /\ At(c, "prepare")
        /\ MayWrite
        /\ \E author \in {"agent", "operator"}, span \in {0, old.span, Fresh} :
             /\ MayRewrite(author, old, span)
             /\ caller' = [caller EXCEPT ![c] = [@ EXCEPT !.at = "write",
                                                          !.next = Source(Fresh, span, author)]]
        /\ texts' = Fresh
        /\ UNCHANGED <<files, lock, histories, faults>>

WriteEdit(c) ==
    /\ At(c, "write")
    /\ source' = [source EXCEPT ![caller[c].page] = caller[c].next]
    /\ Finish(c)
    /\ UNCHANGED <<registry, talk, tombstone, ledger, texts, histories, faults>>

(* A refusal: a page that is closed, another hash, a span, a text that is  *)
(* not found.                                                              *)
Refuse(c) ==
    /\ (At(c, "opened") /\ lock = Nobody) \/ At(c, "prepare")
    /\ caller' = [caller EXCEPT ![c] = Idle]
    /\ lock' = Nobody
    /\ UNCHANGED <<files, texts, histories, faults>>

-----------------------------------------------------------------------------
(* create_page_with_options: a page that is listed is completed, unless it *)
(* is closed; another one is listed first, in a copy of wiki.toml, if what *)
(* it is to occupy is not occupied.                                        *)
MutOccupied == UNION {registry[p].place : p \in {q \in Pages : registry[q].enabled}}
Occupied == UNION {registry[p].place : p \in Pages}

BeginCreate(c, p) ==
    /\ At(c, "idle") /\ lock = Nobody
    /\ lock' = c
    /\ \/ /\ Listed(p) /\ ~Closed(p)
          /\ caller' = [caller EXCEPT ![c] = [@ EXCEPT !.at = "source", !.page = p]]
       \/ /\ ~Listed(p)
          /\ \E option \in Options :
               /\ option.place \cap Occupied = {}
               /\ caller' = [caller EXCEPT ![c] =
                               [@ EXCEPT !.at = "register", !.page = p,
                                         !.copy = [registry EXCEPT ![p] = Entry(option)]]]
    /\ UNCHANGED <<files, texts, histories, faults>>

AppendRegistryEntry(c) ==
    /\ At(c, "register")
    /\ registry' = caller[c].copy
    /\ Go(c, "source")
    /\ UNCHANGED <<source, talk, tombstone, ledger, lock, texts, histories, faults>>

(* Files that exist are left alone, whatever is in them.                   *)
MutWriteSource(c) ==
    LET fresh == source[Page(c)] = Missing
    IN  /\ At(c, "source")
        /\ fresh => MayWrite
        /\ source' = IF fresh THEN [source EXCEPT ![caller[c].page] = Source(Fresh, 0, "template")]
                     ELSE source
        /\ texts' = IF fresh THEN Fresh ELSE texts
        /\ caller' = [caller EXCEPT ![c] = [@ EXCEPT !.at = "talk", !.fresh = TRUE]]
        /\ UNCHANGED <<registry, talk, tombstone, ledger, lock, histories, faults>>
WriteSourceIfMissing(c) ==
    LET fresh == source[Page(c)] = Missing
    IN  /\ At(c, "source")
        /\ fresh => MayWrite
        /\ source' = IF fresh THEN [source EXCEPT ![caller[c].page] = Source(Fresh, 0, "template")]
                     ELSE source
        /\ texts' = IF fresh THEN Fresh ELSE texts
        /\ caller' = [caller EXCEPT ![c] = [@ EXCEPT !.at = "talk", !.fresh = fresh]]
        /\ UNCHANGED <<registry, talk, tombstone, ledger, lock, histories, faults>>

(* Then what is missing of the talk directory; the hash of a new source is *)
(* taken from the file.                                                    *)
WriteTalk(c) ==
    /\ At(c, "talk")
    /\ talk' = talk \cup {caller[c].page}
    /\ IF caller[c].fresh
       THEN /\ caller' = [caller EXCEPT ![c] = [@ EXCEPT !.at = "baseline",
                                                         !.base = source[caller[c].page].text]]
            /\ lock' = lock
       ELSE Finish(c)
    /\ UNCHANGED <<registry, source, tombstone, ledger, texts, histories, faults>>

AppendBaseline(c) ==
    /\ At(c, "baseline")
    /\ ledger' = [ledger EXCEPT ![caller[c].page] = [@ EXCEPT !.baseline = caller[c].base]]
    /\ Finish(c)
    /\ UNCHANGED <<registry, source, talk, tombstone, texts, histories, faults>>

-----------------------------------------------------------------------------
(* delete_page, mode tombstone: the source stays, the entry is retired.    *)
BeginDelete(c, p) ==
    /\ At(c, "idle") /\ lock = Nobody
    /\ Listed(p)
    /\ lock' = c
    /\ caller' = [caller EXCEPT ![c] = [@ EXCEPT !.at = "bury", !.page = p]]
    /\ UNCHANGED <<files, texts, histories, faults>>

WriteTombstone(c) ==
    /\ At(c, "bury")
    /\ tombstone' = tombstone \cup {caller[c].page}
    /\ caller' = [caller EXCEPT ![c] = [@ EXCEPT !.at = "retire",
                                                 !.changed = caller[c].page \notin tombstone]]
    /\ UNCHANGED <<registry, source, talk, ledger, lock, texts, histories, faults>>

(* restore_page needs the source.                                          *)
MutBeginRestore(c, p) ==
    /\ At(c, "idle")
    /\ Listed(p) /\ source[p] # Missing
    /\ lock' = c
    /\ caller' = [caller EXCEPT ![c] = [@ EXCEPT !.at = "dig", !.page = p]]
    /\ UNCHANGED <<files, texts, histories, faults>>
BeginRestore(c, p) ==
    /\ At(c, "idle") /\ lock = Nobody
    /\ Listed(p) /\ source[p] # Missing
    /\ lock' = c
    /\ caller' = [caller EXCEPT ![c] = [@ EXCEPT !.at = "dig", !.page = p]]
    /\ UNCHANGED <<files, texts, histories, faults>>

RemoveTombstone(c) ==
    /\ At(c, "dig")
    /\ tombstone' = tombstone \ {caller[c].page}
    /\ caller' = [caller EXCEPT ![c] = [@ EXCEPT !.at = "relist",
                                                 !.changed = caller[c].page \in tombstone]]
    /\ UNCHANGED <<registry, source, talk, ledger, lock, texts, histories, faults>>

(* retire_page_from_registry and restore_page_to_registry.                 *)
SetEntry(c, entry, place) ==
    LET p == Page(c)
        changed == caller[c].changed \/ registry[p] # entry
    IN  /\ registry' = [registry EXCEPT ![p] = entry]
        /\ caller' = [caller EXCEPT ![c] = [@ EXCEPT !.at = place, !.changed = changed]]
        /\ UNCHANGED <<source, talk, tombstone, ledger, lock, texts, histories, faults>>

RetirePage(c) == At(c, "retire") /\ SetEntry(c, Retired(registry[Page(c)]), "tombstoned")
RelistPage(c) == At(c, "relist") /\ SetEntry(c, Entry(registry[Page(c)]), "restored")

(* The ledger is told of what was done, if anything was.                   *)
Tell(c) ==
    LET p == Page(c)
    IN  /\ caller[c].at \in {"tombstoned", "restored"}
        /\ ledger' = IF caller[c].changed
                     THEN [ledger EXCEPT ![p] = [@ EXCEPT !.life = caller[c].at]] ELSE ledger
        /\ cut' = [cut EXCEPT ![p] = IF caller[c].changed THEN {} ELSE @ \ {"half"}]
        /\ Finish(c)
        /\ UNCHANGED <<registry, source, talk, tombstone, texts, direct, unborn, faults>>

-----------------------------------------------------------------------------
(* A caller is killed or an operation of it fails: the lock is given up.   *)
(* A kill in the middle of a write leaves part of a source.                *)
CutShort(c) ==
    [cut EXCEPT ![caller[c].page] =
       IF ~caller[c].changed THEN @
       ELSE IF caller[c].at \in {"retire", "relist"} THEN @ \cup {"half"} ELSE {"untold"}]

Die(c) ==
    LET p == Page(c)
    IN  /\ ~At(c, "idle")
        /\ faults < MaxFaults /\ faults' = faults + 1
        /\ caller' = [caller EXCEPT ![c] = Idle]
        /\ lock' = IF lock = c THEN Nobody ELSE lock
        /\ cut' = CutShort(c)
        /\ \/ At(c, "write") /\ source' = [source EXCEPT ![p] = Torn]
           \/ At(c, "source") /\ source[p] = Missing /\ source' = [source EXCEPT ![p] = Torn]
           \/ source' = source
        /\ unborn' = IF caller[c].at \in {"talk", "baseline"} /\ caller[c].fresh
                     THEN unborn \cup {p} ELSE unborn
        /\ UNCHANGED <<registry, talk, tombstone, ledger, texts, direct>>

(* Somebody edits the file in an editor.                                   *)
EditDirectly(p) ==
    /\ source[p] # Missing
    /\ MayWrite
    /\ \E span \in {0, source[p].span, Fresh} :
         source' = [source EXCEPT ![p] = Source(Fresh, span, "operator")]
    /\ texts' = Fresh
    /\ direct' = direct \cup {Fresh}
    /\ UNCHANGED <<registry, talk, tombstone, ledger, lock, caller, cut, unborn, faults>>

PagesNext ==
    \/ \E c \in Callers :
         \/ \E p \in Pages : OpenPage(c, p) \/ BeginCreate(c, p) \/ BeginDelete(c, p) \/ BeginRestore(c, p)
         \/ BeginEdit(c) \/ PrepareEdit(c) \/ WriteEdit(c) \/ Refuse(c)
         \/ AppendRegistryEntry(c) \/ WriteSourceIfMissing(c) \/ WriteTalk(c) \/ AppendBaseline(c)
         \/ WriteTombstone(c) \/ RetirePage(c) \/ RemoveTombstone(c) \/ RelistPage(c) \/ Tell(c)
         \/ Die(c)
    \/ \E p \in Pages : EditDirectly(p)

PagesSpec == PagesInit /\ [][PagesNext]_pageVars

-----------------------------------------------------------------------------
Texts == 0..MaxTexts + FirstText
Authors == {"nobody", "agent", "operator", "template"}
Steps == {"idle", "opened", "prepare", "write", "register", "source", "talk", "baseline",
          "bury", "retire", "tombstoned", "dig", "relist", "restored"}
Sources == [text : Texts, span : Texts, author : Authors]
Places == {option.place : option \in Options}
Registries == [Pages -> [place : Places \cup {{}}, shown : BOOLEAN, enabled : BOOLEAN,
                         navigation : BOOLEAN]]
CallerStates == [at : Steps, page : Pages, seen : Texts, base : Texts, next : Sources,
                 copy : Registries, fresh : BOOLEAN, changed : BOOLEAN]

PagesTypeOK ==
    /\ registry \in Registries /\ source \in [Pages -> Sources]
    /\ talk \subseteq Pages /\ tombstone \subseteq Pages
    /\ ledger \in [Pages -> [baseline : Texts, life : {"none", "tombstoned", "restored"}]]
    /\ caller \in [Callers -> CallerStates]
    /\ \A c \in Callers : lock = c <=> caller[c].at \notin {"idle", "opened"}
    /\ texts \in Texts /\ direct \subseteq Texts /\ unborn \subseteq Pages
    /\ cut \in [Pages -> SUBSET {"half", "untold"}]
    /\ faults \in 0..MaxFaults

(* A hash-checked edit never replaces what another caller of the core      *)
(* wrote after its author had opened the page.  (docs/wiki-publishing-     *)
(* system-api.md: "A stale expected_source_sha256 must fail rather than    *)
(* overwrite a newer edit.")  Only a text that somebody writes directly    *)
(* after the hash was compared may be lost.                                *)
NoEditIsOverwritten ==
    [][\A c \in Callers :
         At(c, "write") /\ caller[c].seen # NotSeen /\ source' # source /\ At(c, "idle")'
           => /\ caller[c].base = caller[c].seen
              /\ source[Page(c)].text \in {caller[c].base} \cup direct]_pageVars

(* A span that an operator protects is changed by operators and kills      *)
(* only, or when it was put there after an agent's edit read the file.     *)
OperatorSpansStand ==
    [][\A p \in Pages :
         source[p].span # 0 /\ source'[p].span # source[p].span =>
           \/ source'[p].author = "operator" \/ source'[p] = Torn
           \/ source[p].text \in direct /\ \E c \in Callers :
                At(c, "write") /\ Page(c) = p /\ caller[c].next.text < source[p].text]_pageVars

(* No operation of the core changes the source of a page that is closed,   *)
(* however far the deletion or restoration that closed it got.             *)
ClosedPagesAreFrozen ==
    [][\A p \in Pages :
         Listed(p) /\ Closed(p) => source'[p] = source[p] \/ source'[p].text \in direct']_pageVars

(* Tombstone, entry and navigation (which a hidden page is never in) agree *)
(* when no operation is under way and none was cut in the middle since the *)
(* last that was not; so does the ledger, unless one was cut before it was *)
(* told.                                                                   *)
UnderWay(p) ==
    \E c \in Callers :
      Page(c) = p /\ caller[c].at \in {"retire", "tombstoned", "relist", "restored"}

PageIsWhole ==
    \A p \in Pages :
      Listed(p) /\ ~UnderWay(p) /\ "half" \notin cut[p] =>
        /\ registry[p].navigation = (registry[p].enabled /\ registry[p].shown)
        /\ registry[p].enabled = (p \notin tombstone)
        /\ cut[p] = {} => (ledger[p].life = "tombstoned" <=> p \in tombstone)

(* No two pages occupy the same route, talk route or path, deleted pages   *)
(* included.                                                               *)
PlacesAreUnique ==
    \A p, q \in Pages : p # q => registry[p].place \cap registry[q].place = {}

(* What page_status calls unedited is a template's text, or was written    *)
(* directly while the page was created; and a template's text is called    *)
(* unedited when its creation is over and was not cut.                     *)
Unedited(p) == source[p] # Missing /\ ledger[p].baseline = source[p].text

EditsAreNoticed ==
    \A p \in Pages :
      /\ Unedited(p) => source[p].author = "template" \/ source[p].text \in direct
      /\ source[p].author = "template" /\ p \notin unborn
         /\ (\A c \in Callers : ~(Page(c) = p /\ caller[c].at \in {"talk", "baseline"}))
           => Unedited(p)
===============================================================================
