SPECIFICATION CompressionSpec
CONSTANTS
    Base = 4
    KeyLen = 5
    Offset = 3
    Point <- MCPoint
INVARIANTS
    AcceptsTheField
    DecompressesToThePoint
