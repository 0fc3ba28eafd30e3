CONSTANTS
    Channels = 2
    UnitNames <- MCUnits
    NoName = "none"
    LevelMax = 2
    LevelLegal = 1
    Documents <- MCTwoArrays
    NoDocument = nodocument
    MaxSteps = 2
SPECIFICATION Spec
CHECK_DEADLOCK FALSE
PROPERTIES CleanReportMeansApplied
