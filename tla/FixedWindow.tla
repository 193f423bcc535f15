---------------------------- MODULE FixedWindow ----------------------------
(***************************************************************************)
(* What a fixed-window limiter promises, whatever keeps its counters: for   *)
(* each counted subject, windows that begin at least Window apart, and at   *)
(* most Limit attempts granted in each of them.                             *)
(***************************************************************************)
EXTENDS Integers

CONSTANTS
    Buckets,        \* the counted subjects
    Limit, Window   \* of each of them

Never == -1

VARIABLES
    last,       \* last[b]: when the latest window began, or Never
    granted     \* granted[b]: the attempts granted in it

vars == <<last, granted>>

Init ==
    /\ last = [b \in Buckets |-> Never]
    /\ granted = [b \in Buckets |-> 0]

\* A new window, with its first attempt.
Open(b) ==
    /\ last'[b] \in Nat
    /\ last[b] # Never => last'[b] >= last[b] + Window[b]
    /\ last' = [last EXCEPT ![b] = last'[b]]
    /\ granted' = [granted EXCEPT ![b] = 1]

\* One more attempt in the window.
Grant(b) ==
    /\ last[b] # Never /\ granted[b] < Limit[b]
    /\ granted' = [granted EXCEPT ![b] = @ + 1]
    /\ last' = last

Next == \E b \in Buckets : Open(b) \/ Grant(b)

Spec == Init /\ [][Next]_vars
=============================================================================
