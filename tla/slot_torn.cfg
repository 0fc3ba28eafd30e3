SPECIFICATION Spec
CONSTANTS
    Payload = {p1, p2}
    Garbage = Garbage
    SeqMod = 6
    MaxWrites = 5
    MaxCuts = 1
    MaxRot = 0
    TornHeader = TRUE
    ReadFaults = FALSE
    WriteFaults = FALSE
INVARIANTS LastSaveIsActive OrderlyInv FirstSessionInv
PROPERTIES CutLeavesAConfiguration
