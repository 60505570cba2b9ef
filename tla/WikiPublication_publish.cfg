SPECIFICATION FairWikiSpec
CONSTANTS
    None = None
    Debounce = 1
    Backoff = 2
    Cadence = 3
    MaxRequests = 2
    MaxEdits = 1
    MaxPublishes = 1
    MaxCrashes = 1
INVARIANTS
    ServedCoversRequests
    OnlyValidSitesAreServed
PROPERTIES
    ServedSiteHasSuccessor
    AutomaticWaits
    ManualIsServed
    RequestsAreServed
CHECK_DEADLOCK FALSE
