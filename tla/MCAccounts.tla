----------------------------- MODULE MCAccounts -----------------------------
(* Constants of the TLC runs of Accounts. *)
EXTENDS Accounts, TLC

CONSTANTS u1, s1, s2, s3, q1, q2

\* One who signed up and one whom an administrator gave a temporary password.
MCRegistered ==
    {[exists |-> TRUE, verified |-> b, disabled |-> FALSE, must |-> b] : b \in BOOLEAN}

Symmetry == Permutations(Sessions) \cup Permutations(Requests)
=============================================================================
