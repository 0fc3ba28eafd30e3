SPECIFICATION Spec
CONSTANTS
    Record <- MCRecord
    Legal <- MCLegal
    Factory = "off"
    Patches <- MCPatches
    Streams <- MCStreams
    RxCap = 7
    Producer = {driver, app}
    Document <- MCDocuments
    NoDocument = NoDocument
    QueueDepth = 1
    RingSize = 3
    MaxInputs = 4
    HostCost = 2
CHECK_DEADLOCK FALSE
PROPERTIES ExportIsSnapshot
