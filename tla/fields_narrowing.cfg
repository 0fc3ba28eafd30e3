CONSTANTS
    UValues <- MCUnsigned
    IValues <- MCSigned
    ForeignValues <- MCForeign
    MaxForeign = 0
    JsonNumbers <- MCNumbers
    MaxRequests = 1
SPECIFICATION RecordSpec
PROPERTIES OutOfRangeRejected
