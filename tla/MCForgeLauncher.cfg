CONSTANTS
    Protected = {"BaseModel"}
    Output = "Output"
    Objects = {first, second}
    NoObject = NoObject
    apart = apart
    outer = outer
    inner = inner
    Spots = {apart, outer, inner}
    Overlapping <- MCOverlapping
    MaxMoves = 1

SPECIFICATION Spec

INVARIANTS
    MountsAreConfirmed
    ImageIsExact
    NothingLeft
PROPERTY BuildEnds

CHECK_DEADLOCK FALSE
