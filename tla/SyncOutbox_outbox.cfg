SPECIFICATION FairSpec
CONSTANTS
    Calls = {c1}
    Targets = {"hubspot", "notification"}
    MaxDrains = 2
    MaxAttempts = 2
    Batch = 2
    MaxCrashes = 1
INVARIANTS TypeOK RecordedOnce SentResultsStand
PROPERTIES ImplementsDelivery RowsSettle
CHECK_DEADLOCK FALSE
