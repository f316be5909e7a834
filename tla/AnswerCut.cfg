SPECIFICATION StreamSpec
CONSTANTS
    MaxWords = 2
    MaxPiece = 2
INVARIANT StreamEndsOnTerminalEvent
CHECK_DEADLOCK FALSE
