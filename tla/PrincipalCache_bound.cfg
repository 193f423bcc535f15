SPECIFICATION MCSpec
CONSTANTS
    i1 = i1  i2 = i2  s1 = s1  s2 = s2  u1 = u1  r1 = r1  r2 = r2
    Instances = {i1}
    Sessions = {s1, s2}
    Users = {u1}
    Owner <- MCOwner
    Requests = {r1, r2}
    SessionTTL = 5
    IdleTimeout = 2
    TouchInterval = 1
    CacheTTL = 1
    MaxDelay = 1
    MaxTime = 7
    PairTime = 3
SYMMETRY Symmetry
INVARIANTS RevokedEndsInBound DisabledEndsInBound LifetimeEnds IdleEnds
PROPERTIES RevokedStaysRevoked
