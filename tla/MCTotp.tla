------------------------------- MODULE MCTotp -------------------------------
(* Constants of the TLC runs of Totp. *)
EXTENDS Totp, TLC

CONSTANTS x1, x2, c1, c2, s1, s2, q1, q2

\* A user with a second factor uses and removes it; a user without sets one up,
\* and the challenge that a sign-in then gets is not answered.
MCMixes ==
    {[enrolled |-> TRUE, ops |-> {"signin", "verify", "recovery", "regenerate", "disable"},
      aborts |-> TRUE, secrets |-> {x1}, last |-> 1, challenges |-> 2],
     [enrolled |-> TRUE, ops |-> {"signin", "verify", "disable"},
      aborts |-> TRUE, secrets |-> {x1}, last |-> 2, challenges |-> 2],
     [enrolled |-> FALSE, ops |-> {"signin", "enrol", "confirm"},
      aborts |-> FALSE, secrets |-> {x1, x2}, last |-> 1, challenges |-> 1]}

Symmetry == Permutations(Challenges) \cup Permutations(Sessions) \cup Permutations(Requests)
=============================================================================
