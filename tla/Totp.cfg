SPECIFICATION Spec
CONSTANTS
    x1 = x1  x2 = x2  c1 = c1  c2 = c2  s1 = s1  s2 = s2  q1 = q1  q2 = q2
    Secrets = {x1, x2}
    Challenges = {c1, c2}
    Sessions = {s1, s2}
    Requests = {q1, q2}
    Mixes <- MCMixes
    Skew = 1
    SetSize = 1
    StoreFails = TRUE
    MaxStep = 2
    MaxSet = 2
SYMMETRY Symmetry
CHECK_DEADLOCK FALSE
INVARIANTS FactorOnce PasswordSessionPredates UpgradeEndsSessions
