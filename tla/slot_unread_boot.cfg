SPECIFICATION Spec
CONSTANTS
    Payload = {p1, p2}
    Garbage = Garbage
    SeqMod = 6
    MaxWrites = 4
    MaxCuts = 1
    MaxRot = 0
    TornHeader = FALSE
    ReadFaults = TRUE
    WriteFaults = FALSE
PROPERTIES BootLoadsNewest
