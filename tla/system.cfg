SPECIFICATION FairSpec
CONSTANTS
    Record = {"sys", "di"}
    Field = {"id", "rate"}
    Legal <- MCLegal
    Illegal <- MCIllegal
    Factory = 0
    NoConfig = NoConfig
    Editors = {uart, ext}
    Messages <- MCMessages
    FieldRequests <- MCFields
    QueueDepth = 1
    SaveFaults = TRUE
    MaxImports = 2
    MaxFields = 1
    MaxResets = 1
    MaxCuts = 1
CHECK_DEADLOCK FALSE
INVARIANTS SystemInv SettledIsSaved
PROPERTIES SnapshotIsCoherent ComesToRest CommitLeadsToSave
