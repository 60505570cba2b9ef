------------------------------ MODULE MemoryIngest ------------------------------
(***************************************************************************)
(* The memory daemon's ingest (onecontext-memoryd.rs, local_adapters.rs)   *)
(* on top of the managed Postgres.  A tick loads the cursors, reads what   *)
(* the session files of each source have after them, writes the records to *)
(* the database in chunks, and only then saves the cursors: two stores     *)
(* that no transaction spans.  A session file only grows.                  *)
(*                                                                         *)
(* A line's record is identified by its content and its number within the  *)
(* slice that was read, so by where that slice began.                      *)
(***************************************************************************)
EXTENDS PostgresBootstrap

CONSTANTS
    Daemon,       \* the process that ingests
    Files,        \* session files, in the order of their names
    SourceOf,     \* the source a file belongs to
    MaxEvents,    \* records of a source after which it is left for this tick
    MaxLines,     \* lines of a source read in one tick
    MaxLength,    \* bound: lines of a file
    MaxAppended,  \* bound: lines of all files
    MaxReadFailures   \* bound: files that cannot be read or compiled

Sources == {SourceOf[f] : f \in Files}
Record(f, from, lines) ==
    [file : {f}, line : from + 1..from + lines, from : {from}]

ASSUME IngestAssumption ==
    /\ Daemon \in Procs /\ Files \subseteq Nat
    /\ MaxEvents \in Nat \ {0} /\ MaxLines \in Nat \ {0}
    /\ {MaxLength, MaxAppended, MaxReadFailures} \subseteq Nat
    /\ Rows = [file : Files, line : 1..MaxLength, from : 0..MaxLength]

VARIABLES
    length,       \* per file: its complete lines
    cursorFile,   \* the offsets on disk, or what a kill made of the file
    tick,         \* the daemon's tick: its place and what it has in memory
    resliced,     \* history: lines that are stored were read from another place
    dropped,      \* history: lines whose records a failing source took along
    failures

ingestVars == <<length, cursorFile, tick, resliced, dropped, failures>>

Start0 == [f \in Files |-> 0]
Cursors(offset) == [readable |-> TRUE, offset |-> offset]
Torn == [readable |-> FALSE, offset |-> Start0]
Asleep == [at |-> "asleep", offset |-> Start0, files |-> {}, lines |-> 0,
           found |-> {}, batch |-> {}]

IngestInit ==
    /\ PgInit
    /\ length = Start0
    /\ cursorFile = Cursors(Start0)
    /\ tick = Asleep
    /\ resliced = FALSE
    /\ dropped = {}
    /\ failures = 0

AppendLine(f) ==
    /\ length[f] < MaxLength
    /\ Cardinality({s \in Files \X (1..MaxLength) : s[2] <= length[s[1]]}) < MaxAppended
    /\ length' = [length EXCEPT ![f] = @ + 1]
    /\ UNCHANGED <<pgVars, cursorFile, tick, resliced, dropped, failures>>

TickAt(place) == tick.at = place

(* A cursor file that does not parse ends every tick here.                 *)
LoadCursors ==
    /\ TickAt("asleep")
    /\ cursorFile.readable
    /\ tick' = [Asleep EXCEPT !.at = "read", !.offset = cursorFile.offset, !.files = Files]
    /\ UNCHANGED <<pgVars, length, cursorFile, resliced, dropped, failures>>

(* The files of a source, the last name first; then the next source.       *)
IsLatest(f, files) ==
    /\ f \in files
    /\ \A g \in files : \/ SourceOf[g] > SourceOf[f]
                        \/ SourceOf[g] = SourceOf[f] /\ g <= f
Stored(f, i) == \E r \in cluster.rows : r.file = f /\ r.line = i
Peers(f) == {g \in Files : SourceOf[g] = SourceOf[f]}
Lowest(a, b) == IF a < b THEN a ELSE b

(* The limit on lines ends the slice before lines that are stored.         *)
Recut(f, from, lines) ==
    lines > 0 /\ \E i \in from + lines + 1..length[f] : Stored(f, i)

MutThrough(f, lines, found, offset) ==
    [tick EXCEPT !.files = @ \ Peers(f), !.lines = 0, !.found = {},
                 !.batch = @ \cup found, !.offset = offset]
(* The source is done with when its last file is, or a limit is reached.   *)
Through(f, lines, found, offset) ==
    LET rest == tick.files \ (IF Cardinality(found) >= MaxEvents \/ lines >= MaxLines
                              THEN Peers(f) ELSE {f})
    IN  IF rest \cap Peers(f) = {}
        THEN [tick EXCEPT !.files = rest, !.lines = 0, !.found = {},
                          !.batch = @ \cup found, !.offset = offset]
        ELSE [tick EXCEPT !.files = rest, !.lines = lines, !.found = found,
                          !.offset = offset]

ReadFile(f) ==
    LET from == tick.offset[f]
        lines == Lowest(length[f] - from, MaxLines - tick.lines)
    IN  /\ TickAt("read")
        /\ IsLatest(f, tick.files)
        /\ tick' = Through(f, tick.lines + lines, tick.found \cup Record(f, from, lines),
                           [tick.offset EXCEPT ![f] = from + lines])
        /\ resliced' = (resliced \/ Recut(f, from, lines))
        /\ UNCHANGED <<pgVars, length, cursorFile, dropped, failures>>

(* The file cannot be opened, or what was read of it makes no session: the *)
(* source has no batch, but its cursors in memory have moved.              *)
SourceFails(f) ==
    LET from == tick.offset[f]
    IN  /\ TickAt("read")
        /\ IsLatest(f, tick.files)
        /\ from < length[f]
        /\ failures < MaxReadFailures
        /\ failures' = failures + 1
        /\ \E lines \in {0, Lowest(length[f] - from, MaxLines - tick.lines)} :
             LET read == tick.found \cup Record(f, from, lines)
             IN  /\ tick' = [tick EXCEPT !.files = @ \ Peers(f), !.lines = 0,
                                         !.found = {},
                                         !.offset = [@ EXCEPT ![f] = from + lines]]
                 /\ dropped' = dropped \cup {<<r.file, r.line>> : r \in read}
                 /\ resliced' = (resliced \/ Recut(f, from, lines))
        /\ UNCHANGED <<pgVars, length, cursorFile>>

(* Nothing to write is durable already.                                    *)
EndReading ==
    /\ TickAt("read")
    /\ tick.files = {}
    /\ tick' = [tick EXCEPT !.at = IF tick.batch = {} THEN "save" ELSE "write"]
    /\ UNCHANGED <<pgVars, length, cursorFile, resliced, dropped, failures>>

(* The daemon makes sure of the database, as any process.                  *)
EnsureStorage ==
    /\ TickAt("write")
    /\ Bootstrap(Daemon)
    /\ tick' = IF Place(Daemon) # "idle" /\ Place(Daemon)' = "idle" THEN Asleep ELSE tick
    /\ UNCHANGED <<length, cursorFile, resliced, dropped, failures>>

(* A chunk is a transaction of its own.                                    *)
WriteChunk ==
    /\ TickAt("write")
    /\ \E chunk \in SUBSET tick.batch \ {{}} :
         /\ Store(Daemon, chunk)
         /\ tick' = [tick EXCEPT !.batch = @ \ chunk]
    /\ UNCHANGED <<length, cursorFile, resliced, dropped, failures>>

MutWriteEnds ==
    /\ TickAt("write")
    /\ Leave(Daemon)
    /\ tick' = [tick EXCEPT !.at = "save"]
    /\ UNCHANGED <<length, cursorFile, resliced, dropped, failures>>
WriteEnds ==
    /\ TickAt("write")
    /\ Leave(Daemon)
    /\ \/ tick.batch = {} /\ tick' = [tick EXCEPT !.at = "save"]
       \/ tick.batch # {} /\ ~Up /\ tick' = Asleep
    /\ UNCHANGED <<length, cursorFile, resliced, dropped, failures>>

(* fs::write truncates the file and writes it; a kill may come between.    *)
MutSaveCursors ==
    /\ TickAt("save")
    /\ cursorFile' = Cursors([f \in Files |-> IF tick.offset[f] = 0 THEN 0 ELSE tick.offset[f] - 1])
    /\ tick' = Asleep
    /\ UNCHANGED <<pgVars, length, resliced, dropped, failures>>
SaveCursors ==
    /\ TickAt("save")
    /\ cursorFile' = Cursors(tick.offset)
    /\ tick' = Asleep
    /\ UNCHANGED <<pgVars, length, resliced, dropped, failures>>

KillWhileSaving ==
    /\ TickAt("save")
    /\ Fault
    /\ cursorFile' \in {Cursors(Start0), Torn}
    /\ resliced' = TRUE
    /\ tick' = Asleep
    /\ UNCHANGED <<proc, lock, cluster, server, history, length, dropped, failures>>

KillDaemon ==
    /\ ~TickAt("asleep")
    /\ \/ Kill(Daemon)
       \/ Fault /\ Place(Daemon) = "idle" /\ UNCHANGED <<proc, lock, cluster, server, history>>
    /\ tick' = Asleep
    /\ UNCHANGED <<length, cursorFile, resliced, dropped, failures>>

DaemonStep ==
    \/ LoadCursors \/ EndReading
    \/ \E f \in Files : ReadFile(f) \/ SourceFails(f)
    \/ EnsureStorage \/ WriteChunk \/ WriteEnds \/ SaveCursors

Others ==
    /\ \/ \E p \in Procs \ {Daemon} : Bootstrap(p) \/ Leave(p) \/ Kill(p)
       \/ StopServer
       \/ TickAt("asleep") /\ UpdateApp
    /\ UNCHANGED ingestVars

IngestNext ==
    \/ \E f \in Files : AppendLine(f)
    \/ DaemonStep \/ KillWhileSaving \/ KillDaemon \/ Others

allVars == <<pgVars, ingestVars>>
IngestFairness ==
    WF_allVars(DaemonStep) /\ \A p \in Procs \ {Daemon} : WF_allVars(Others /\ Bootstrap(p))

IngestSpec == IngestInit /\ [][IngestNext]_allVars /\ IngestFairness

-----------------------------------------------------------------------------
(* The saved cursors never run ahead of the database, except past lines    *)
(* whose source failed in the tick that read them, whatever was killed and *)
(* however the server, its cluster and the chunks of a batch fared, until  *)
(* a bootstrap is robbed of its lock: then a quarantine may take rows.     *)
(* (onecontext-memoryd.rs, ensure_durable_before_cursor_advance.)          *)
CursorsBehindRows ==
    ~robbed /\ cursorFile.readable =>
      \A f \in Files : \A i \in 1..cursorFile.offset[f] : Stored(f, i) \/ <<f, i>> \in dropped

(* And without the exception.  (docs/memory-db-api-protocol-spec.md: "A    *)
(* cursor moves only after the Perception DB writer has committed the      *)
(* source step.")                                                          *)
CursorsCommitted ==
    cursorFile.readable => \A f \in Files : \A i \in 1..cursorFile.offset[f] : Stored(f, i)

(* What is read again after a kill or a failed chunk is not stored again,  *)
(* as long as it is read from the same place: a kill inside the write of   *)
(* the cursor file, or the limit on lines falling before lines that are    *)
(* stored, moves it.  (docs/memory-db-api-protocol-spec.md: "If the same   *)
(* source record is seen twice, the database must return the same object   *)
(* receipt and must not insert a second object.")                          *)
StoredOnce ==
    ~resliced =>
      \A r, s \in cluster.rows : r.file = s.file /\ r.line = s.line => r = s

(* Every line reaches the database in the end, unless its source failed,   *)
(* the cursor file no longer parses or a bootstrap was robbed of its lock. *)
LinesAreStored ==
    []<>(\/ ~cursorFile.readable \/ robbed
         \/ \A f \in Files : \A i \in 1..length[f] : Stored(f, i) \/ <<f, i>> \in dropped)
===============================================================================
