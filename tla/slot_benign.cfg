SPECIFICATION Spec
CONSTANTS
    Payload = {p1, p2}
    Garbage = Garbage
    SeqMod = 6
    MaxWrites = 5
    MaxCuts = 3
    MaxRot = 0
    TornHeader = FALSE
    ReadFaults = FALSE
    WriteFaults = TRUE
INVARIANTS BenignInv LastSaveIsActive
PROPERTIES CutLeavesAConfiguration WriteSparesActive ImplementsCell
