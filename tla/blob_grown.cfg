CONSTANTS
    Order <- GrownOrder
    Width <- GrownLayouts
    Values = {factory, x, y}
    Factory = factory
    NoValue = none
    UnknownMax = 1024
    PayloadMax = 2028
    MaxEdits = 1
SPECIFICATION Spec
PROPERTIES ShortRecordOnlyDefaultsItself
