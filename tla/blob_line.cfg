CONSTANTS
    Order <- LineOrder
    Width <- LineLayouts
    Values = {factory, x, y}
    Factory = factory
    NoValue = none
    UnknownMax = 1024
    PayloadMax = 2028
    MaxEdits = 3
SPECIFICATION Spec
INVARIANTS TypeOK NothingForgotten ResetIsComplete SavesFit
PROPERTIES BootRestores
