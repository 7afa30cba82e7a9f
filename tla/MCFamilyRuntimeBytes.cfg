CONSTANTS
    t1 = t1
    t2 = t2
    f1 = f1
    f2 = f2
    g1 = g1
    Tiers = {t1, t2}
    FilesOf <- MCFilesOf
    TierOrder <- MCTierOrder
    Pullers = {p1}
    Runs = {r1}
    Commits = {c1, c2}
    NoCommit = NoCommit
    InitialContent = {"pinned", "missing"}
    InitialLocks = {"match", "stale"}
    MaxChanges = 1
    MaxHeadMoves = 1

SYMMETRY MCSymmetry

SPECIFICATION Spec

INVARIANT PinnedBytesExecuted
