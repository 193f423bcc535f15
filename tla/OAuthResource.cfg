SPECIFICATION Spec
CONSTANTS
    i1 = i1  i2 = i2  i3 = i3  q1 = q1  q2 = q2  p1 = p1  p2 = p2
    Parts = {"keys", "proofs"}
    Instances = {i1, i2, i3}
    Requests = {q1, q2}
    Proofs = {p1, p2}
    MaxKey = 3
    ProofWindow = 1
    CleanupWindow = 2
    MaxDelay = 1
    MaxTime = 6
SYMMETRY Symmetry
CHECK_DEADLOCK FALSE
INVARIANTS Verifiable SignerFound ProofOnce
