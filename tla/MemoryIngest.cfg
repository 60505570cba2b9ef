SPECIFICATION IngestSpec
CONSTANTS
    Procs = {d, p}
    Daemon = d
    Rows <- MCRows
    MaxFaults = 2
    Files = {1, 2}
    SourceOf <- MCSourceOf
    MaxEvents = 2
    MaxLines = 2
    MaxLength = 2
    MaxAppended = 3
    MaxReadFailures = 1
INVARIANTS
    CursorsBehindRows
    StoredOnce
    BootstrapIsExclusive
    MarkerMeansReady
PROPERTY
    LinesAreStored
    RowsSurvive
CONSTRAINT
    UntilRobbed
CHECK_DEADLOCK FALSE
