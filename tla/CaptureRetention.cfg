CONSTANTS
    b1 = b1
    b2 = b2
    s1 = s1
    Bundles = {b1, b2}
    Sweepers = {s1}
    KeepLast = 1
    None = None
    MaxFaults = 1
SPECIFICATION RetentionSpec
INVARIANTS
    ReadyMeansComplete
    NewestAndPinnedStay
\* every exporter and every sweep may end for good
CHECK_DEADLOCK FALSE
