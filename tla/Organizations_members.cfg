SPECIFICATION Spec
CONSTANTS
    o1 = o1  o2 = o2  i1 = i1  i2 = i2  t1 = t1  q1 = q1  q2 = q2
    Resources = {"member"}
    Actions = {"read"}
    Users = {1, 2, 3}
    Orgs = {o1}
    Invites = {i1}
    Teams = {}
    Requests = {q1, q2}
    BuiltIn <- OwnerMember
    Declarable = {}
    Owner = "owner"
    Grantable = {"member"}
    Mixes <- MCMembers
    Signed = {2}
    Actors = {0}
    MaxMembers = 0
    PageSize = 1
    Seats <- OwnersOrNone
SYMMETRY Symmetry
CHECK_DEADLOCK FALSE
INVARIANTS OwnerRemains SpentOnce NoOrphans ListComplete LeftMeansInactive
