SPECIFICATION MCSpec
CONSTANTS
    a = a  b = b  c = c  t1 = t1  t2 = t2
    Users = {a, b, c}
    Txs = {t1, t2}
    Roles = {0, 2, 3}
    AdminRole = 2
    Ops = {"demote", "disable"}
    Serial = FALSE
SYMMETRY Symmetry
CHECK_DEADLOCK FALSE
INVARIANTS AdminRemains LocksHold
