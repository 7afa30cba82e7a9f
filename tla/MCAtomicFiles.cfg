CONSTANTS
    Writers = {w1, w2}
    Probes = {p1, p2, p3}
    NoFile = NoFile
    MaxRemovals = 2

SPECIFICATION FileSpec

INVARIANTS
    FileTypeOK
    CreatedIsKept
    UnfinishedOnlyIfKilled
PROPERTY NeverReplaced
