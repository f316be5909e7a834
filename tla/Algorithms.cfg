SPECIFICATION CheckSpec
CONSTANTS
    MaxBytes = 5
    MaxSize = 3
    MaxHeld = 3
    Tokens = {1, 2}
    MaxLen = 3
    MaxCalls = 2
    MaxWords = 3
    MaxPiece = 2
    MaxLines = 4
    MaxPieces = 4
    DeclaredNames <- MCDeclared
    CalledNames <- MCCalled
INVARIANT AdmitIsTight
INVARIANT GcIsTight
INVARIANT EndsOnlySaveWork
INVARIANT LimitIsTight
INVARIANT HistoryRoundTrips
INVARIANT EditIsExact
INVARIANT ShrinkIsStable
INVARIANT StreamIsWhole
INVARIANT StreamMatchesAnswer
CHECK_DEADLOCK FALSE
