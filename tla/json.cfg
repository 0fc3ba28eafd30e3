CONSTANTS
    Channels = 2
    UnitNames <- MCUnits
    NoName = "none"
    LevelMax = 2
    LevelLegal = 1
    Documents <- MCDocuments
    NoDocument = nodocument
    MaxSteps = 4
SPECIFICATION Spec
CHECK_DEADLOCK FALSE
INVARIANTS TypeOK OnlyNamedChannelsChange
PROPERTIES RestoreReproduces CleanReportMeansApplied FirstRecordWins
