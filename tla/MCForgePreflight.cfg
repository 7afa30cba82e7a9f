CONSTANTS
    probe = probe
    exceeding = exceeding
    blank = blank
    altered = altered
    simulation = simulation
    MaxSteps = 3
    MaxOutput = 10
    MaxTemperature = 4
    NoSimulation = NoSimulation
    ForgeUser = "65532"
    Root = "0"
    MaxPids = 2
    Plans <- MCPlans
    Sources = {"s1", "s2"}
    NoSource = "no source"
    Unacceptable = Unacceptable
    Unseen = Unseen
    Hosts <- MCHosts
    Paths <- MCPaths
    HostTolerance = 1
    DeviceTolerance = 1
    MaxChanges = 1

SPECIFICATION Spec

INVARIANTS
    VerdictMatchesSignals
    IncompleteOnlyByRace
    InputsUnwritable
    SimulationLaneIsStricter

CHECK_DEADLOCK FALSE
