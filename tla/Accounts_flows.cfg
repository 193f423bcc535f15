SPECIFICATION Spec
CONSTANTS
    u1 = u1  s1 = s1  s2 = s2  s3 = s3  q1 = q1  q2 = q2
    Users = {u1}
    Sessions = {s1, s2}
    Requests = {q1, q2}
    Ops = {"signin", "change", "reset", "magic", "verify", "email", "disable", "enable", "adminreset", "delete"}
    RequireVerification = FALSE
    Registered <- MCRegistered
    WeakHashes = {TRUE}
    StoreFails = TRUE
    MaxEra = 2
    MaxMail = 1
SYMMETRY Symmetry
CHECK_DEADLOCK FALSE
INVARIANTS OwnedRowsHaveOwner OldSessionsEnd ReplacedPasswordIsDead
