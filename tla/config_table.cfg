SPECIFICATION Spec
CONSTANTS
    Char <- MCChar
    Files <- MCFiles
    MaxLines = 3
    MaxBlocks = 3
    MaxLine = 6
    MAX_SECTION = 2
    MAX_NAME = 2
    HexOf <- MCHexOf
    DecOf <- MCDecOf
INVARIANTS
    ListIsReference
    ErrorIsFirstBadLine
    IniFileServesCommands
CHECK_DEADLOCK FALSE
