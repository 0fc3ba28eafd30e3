SPECIFICATION Spec
CONSTANTS
    Record = {"sys", "di"}
    Field = {"id", "rate"}
    Legal <- MCLegal
    Illegal <- MCIllegal
    Factory = 0
    NoConfig = NoConfig
    Editors = {uart, ext}
    Messages <- MCMessages
    FieldRequests <- MCFields
    QueueDepth = 1
    SaveFaults = FALSE
    MaxImports = 2
    MaxFields = 1
    MaxResets = 0
    MaxCuts = 0
CHECK_DEADLOCK FALSE
PROPERTIES PatchPreservesOthers
