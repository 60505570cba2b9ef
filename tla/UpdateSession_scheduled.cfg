SPECIFICATION UpdateSpec
CONSTANTS
    None = None
    MaxClicks = 1
    MaxScheduled = 1
PROPERTY
    FailedUpdatesAreReported
CHECK_DEADLOCK FALSE
