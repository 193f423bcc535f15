-------------------------- MODULE MCPrincipalCache --------------------------
(* The TLC run of PrincipalCache: one session over the whole range of the clock, *)
(* and two sessions of one user with one request at a time, until PairTime.      *)
EXTENDS PrincipalCache, TLC

CONSTANTS i1, i2, s1, s2, u1, r1, r2,
    PairTime        \* bound: the end of the clock with two sessions

VARIABLE pair

MCOwner == [s \in Sessions |-> u1]

MCInit == Init /\ pair \in BOOLEAN /\ \A r \in Requests : req[r].sess = s1

MCNext ==
    /\ Next /\ UNCHANGED pair
    /\ IF pair THEN now' <= PairTime /\ \E r \in Requests : req'[r].pc = "idle"
       ELSE row'[s2] = NoRow

MCSpec == MCInit /\ [][MCNext]_<<vars, pair>>

Symmetry == Permutations(Requests) \cup Permutations(Instances)
=============================================================================
