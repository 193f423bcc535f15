SPECIFICATION Spec
CONSTANTS
    o1 = o1  o2 = o2  i1 = i1  i2 = i2  t1 = t1  q1 = q1  q2 = q2
    Resources = {"member", "role", "team"}
    Actions = {"write", "invite"}
    Users = {1, 2}
    Orgs = {o1}
    Invites = {}
    Teams = {t1}
    Requests = {q1, q2}
    BuiltIn <- OwnerAdmin
    Declarable <- MCDeclarable
    Owner = "owner"
    Grantable = {"owner", "custom"}
    Mixes <- MCAccess
    Signed = {2}
    Actors = {1, 2}
    MaxMembers = 3
    PageSize = 1
    Seats <- OwnerAndAdmin
SYMMETRY Symmetry
CHECK_DEADLOCK FALSE
INVARIANTS NoOrphans Ceiling
