CONSTANTS
    UValues <- MCUnsigned
    IValues <- MCSigned
    ForeignValues <- MCForeign
    MaxForeign = 2
    JsonNumbers <- MCNumbers
    MaxRequests = 2
SPECIFICATION RecordSpec
INVARIANTS TypeOK WireRoundTrip JsonRestores
PROPERTIES RequestsApplyExactly ChangesAreLegal JsonAppliesExactly
