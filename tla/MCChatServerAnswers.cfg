CONSTANT Requests = {q1, q2}

SPECIFICATION Spec

INVARIANT EveryClientAnswered
