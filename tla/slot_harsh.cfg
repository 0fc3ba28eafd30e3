SPECIFICATION Spec
CONSTANTS
    Payload = {p1, p2}
    Garbage = Garbage
    SeqMod = 4
    MaxWrites = 3
    MaxCuts = 2
    MaxRot = 1
    TornHeader = TRUE
    ReadFaults = TRUE
    WriteFaults = TRUE
INVARIANTS TypeOK NoCorruptBoot
