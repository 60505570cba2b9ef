SPECIFICATION UpdateSpec
CONSTANTS
    None = None
    MaxClicks = 2
    MaxScheduled = 2
PROPERTIES
    FailuresAreFollowedUp
    ReadyUpdatesAreInstalled
    UserIsAnswered
CHECK_DEADLOCK FALSE
