CONSTANTS
    w1 = w1
    w2 = w2
    v1 = v1
    s1 = s1
    s2 = s2
    Writers = {w1, w2}
    Verifiers = {v1}
    Sources = {s1, s2}
    SourceOf <- MCSourceOf
    Steps = 2
    External = External
    NoDir = NoDir
    MaxRemovals = 1
    MaxCreations = 1

SPECIFICATION Spec

INVARIANTS
    PublishedWhole
    VerdictTellsPublication
PROPERTY ImplementsWriteOnce
