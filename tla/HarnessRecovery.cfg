\* One fault of any kind at any moment: the receipts rebuild the store.
SPECIFICATION RecoverySpec
CONSTANTS
    Units = {u1, u2}
    TurnIds = {t1, t2}
    NoUnit = NoUnit
    NoTurn = NoTurn
    MaxSeq = 5
    MaxFaults = 1
CHECK_DEADLOCK FALSE
INVARIANTS
    ReceiptsRebuildTheStore
PROPERTY
    ImplementsTurns
