SPECIFICATION IngestSpec
CONSTANTS
    Procs = {d}
    Daemon = d
    Rows <- MCRows
    MaxFaults = 0
    Files = {1, 2}
    SourceOf <- MCSourceOf
    MaxEvents = 2
    MaxLines = 4
    MaxLength = 2
    MaxAppended = 3
    MaxReadFailures = 1
INVARIANT
    CursorsCommitted
