----------------------------- MODULE MCApiKeys -----------------------------
(* Constants of the TLC runs of ApiKeys. *)
EXTENDS ApiKeys, TLC

CONSTANTS k1, i1, i2, q1, q2

\* An administrator, whose role is also the lowest one of the hierarchy, and a
\* custom role that may do less.
MCBuiltIn == [admin |-> {Stmt("doc", Wildcard)}]
MCRankOf == [admin |-> 0, custom |-> -1, none |-> -1]
MCBusy == [plain |-> 2, organization |-> 2]
MCDeclarable == {{Stmt("doc", "write")}}

Symmetry == Permutations(Instances) \cup Permutations(Requests)
=============================================================================
