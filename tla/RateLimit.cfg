\* Both limiters; two requests at a time of two callers that share one address.
SPECIFICATION Spec
CONSTANTS
    Limiters = {"store", "memory"}
    Callers = {"a", "b"}
    Instances = {"i"}
    Requests = {q1, q2}
    Rules = 3
    Limit <- MCLimit
    Window <- MCWindow
    ScopeOf <- MCScopeOf
    SubjectOf <- MCSubjectOf
    CleanupAge = 4
    MaxDelay = 1
    MaxTime = 4
    MaxAttempts = 3
SYMMETRY MCSymmetry
INVARIANTS BurstBound RetryHonest
PROPERTIES Implements
CHECK_DEADLOCK FALSE
