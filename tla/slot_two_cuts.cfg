SPECIFICATION Spec
CONSTANTS
    Payload = {p1, p2}
    Garbage = Garbage
    SeqMod = 6
    MaxWrites = 4
    MaxCuts = 2
    MaxRot = 0
    TornHeader = TRUE
    ReadFaults = FALSE
    WriteFaults = FALSE
PROPERTIES CutLeavesAConfiguration
