SPECIFICATION Spec
CONSTANTS
    Record = {"sys", "di"}
    Field = {"id", "rate"}
    Legal <- MCLegal
    Illegal <- MCIllegal
    Factory = 0
    NoConfig = NoConfig
    Editors = {uart}
    Messages <- MCOneRecord
    FieldRequests <- MCFieldsElsewhere
    QueueDepth = 1
    SaveFaults = TRUE
    MaxImports = 2
    MaxFields = 2
    MaxResets = 0
    MaxCuts = 1
CHECK_DEADLOCK FALSE
PROPERTIES PatchPreservesOthers
