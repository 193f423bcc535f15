-------------------------- MODULE MCOAuthResource --------------------------
(* Constants of the TLC run of OAuthResource. *)
EXTENDS OAuthResource, TLC

CONSTANTS i1, i2, i3, q1, q2, p1, p2

Symmetry == Permutations(Instances) \cup Permutations(Requests) \cup Permutations(Proofs)
=============================================================================
