SPECIFICATION RingSpec
CONSTANTS
    Producer = {uart}
    Document = {old, new}
    NoDocument = NoDocument
    QueueDepth = 4
    RingSize = 4
    MaxInputs = 5
CHECK_DEADLOCK FALSE
PROPERTIES ImplementsQueue
