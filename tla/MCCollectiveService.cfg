CONSTANTS
    Requests = {q1, q2, q3}
    Workers = 2

SPECIFICATION FairSpec

INVARIANTS
    TypeOK
    LockDiscipline
PROPERTIES
    NoOvertaking
    HealthDuringInference
    NoStarvation
    ImplementsSerialized
