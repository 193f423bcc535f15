SPECIFICATION Spec
CONSTANTS
    k1 = k1  i1 = i1  i2 = i2  q1 = q1  q2 = q2
    Resources = {"doc"}
    Actions = {"read", "write"}
    Keys = {k1}
    Instances = {i1}
    Requests = {q1, q2}
    Parts = {"plain", "organization"}
    Busy <- MCBusy
    TopRank = 1
    BuiltIn <- MCBuiltIn
    Declarable <- MCDeclarable
    RankOf <- MCRankOf
    CacheTTL = 1
    MaxDelay = 1
SYMMETRY Symmetry
CHECK_DEADLOCK FALSE
INVARIANTS AuthorityEndsInBound KeysGoWithOrganization
