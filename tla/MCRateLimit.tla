---------------------------- MODULE MCRateLimit ----------------------------
(* An operation with three rules: one of the account's address and two, of    *)
(* different windows, of the client's, which share their row.                 *)
EXTENDS RateLimit, TLC

MCSymmetry == Permutations(Requests)

MCLimit == [i \in 0 .. Rules |-> CASE i = 2 -> 3 [] i = 3 -> 2 [] OTHER -> 1]
MCWindow == [i \in 0 .. Rules |-> IF i \in {1, 3} THEN 3 ELSE 2]
MCScopeOf == [i \in 0 .. Rules |-> IF i = 0 THEN "memory" ELSE IF i = 1 THEN "email" ELSE "ip"]
\* b names no account; both come from one client address.
MCSubjectOf == [c \in Callers |-> [email |-> IF c = "b" THEN NoSubject ELSE "mail", ip |-> "address"]]
=============================================================================
