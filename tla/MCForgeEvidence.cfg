CONSTANTS
    edge = edge
    poor = poor
    long = long
    longReceipt = longReceipt
    tall = tall
    probe = probe
    MaxSteps = 3
    MaxOutput = 200
    MaxTemperature = 4
    NoSimulation = NoSimulation
    Plans <- MCPlans
    Sources = {"s1", "s2"}
    NoSource = "no source"
    None = None
    RecordLimit = 50
    TelemetryLimit = 20
    EventBytes = 10
    CheckpointBytes = 5
    CandidateBytes = 10
    MaxEdits = 2

SPECIFICATION Spec

INVARIANTS
    AcceptsOnlyReplay
    PublishedVerifies
    MeteringConverges

CHECK_DEADLOCK FALSE
