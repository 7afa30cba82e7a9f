CONSTANT Requests = {q1, q2, q3}

SPECIFICATION FairSpec

INVARIANTS
    SlotAccounting
    AnswerTellsResult
PROPERTIES
    AnsweredOnce
    BusyOnlyBehindAnother
    ThreadsEnd
    ImplementsSerialized
