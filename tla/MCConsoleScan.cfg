CONSTANTS
    Letters = {"m", "s", "x"}
    Marker <- DoubleM
    StatusWord <- OneS
    LineCap = 4
    Keep = 2
    MaxChars = 8
SPECIFICATION Spec
INVARIANTS TypeOK NoFalseMarker EndOfLineCounts ShortLinesAreExact
CHECK_DEADLOCK FALSE
