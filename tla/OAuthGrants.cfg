SPECIFICATION Spec
CONSTANTS
    g1 = g1  g2 = g2  u1 = u1  c1 = c1  c2 = c2  q1 = q1  q2 = q2  k1 = k1
    Flows = {g1}
    Users = {u1}
    Clients = {c1, c2}
    Static = {c2}
    Apps = {c1}
    Presenters = {c1, c2}
    Requests = {q1, q2}
    Refresh = {1, 2, 3}
    Scopes = {"offline_access", "email"}
    Asked <- MCAsked
    Keys <- MCKeys
    Mixes <- MCMixes
SYMMETRY Symmetry
CHECK_DEADLOCK FALSE
INVARIANTS SingleChain EndedIsEnded Narrowing
