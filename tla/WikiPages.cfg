SPECIFICATION PagesSpec
CONSTANTS
    topics = topics
    custom = custom
    a = a
    b = b
    Nobody = Nobody
    Pages <- MCPages
    Options <- MCOptions
    Configured <- MCConfigured
    Callers = {a, b}
    MaxTexts = 4
    MaxFaults = 2
INVARIANTS
    PageIsWhole
    PlacesAreUnique
    EditsAreNoticed
PROPERTIES
    NoEditIsOverwritten
    OperatorSpansStand
    ClosedPagesAreFrozen
SYMMETRY CallerSymmetry
CHECK_DEADLOCK FALSE
