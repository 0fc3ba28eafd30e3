SPECIFICATION Spec
CONSTANTS
    Payload = {p1, p2}
    Garbage = Garbage
    SeqMod = 6
    MaxWrites = 4
    MaxCuts = 0
    MaxRot = 0
    TornHeader = FALSE
    ReadFaults = TRUE
    WriteFaults = FALSE
INVARIANTS LastSaveIsActive
