----------------------------- MODULE RateLimit -----------------------------
(***************************************************************************)
(* The limiters of ratelimit/: storelimit, whose counters are rows that all *)
(* instances share, and Memory, with the counters of one process.           *)
(*                                                                         *)
(* A row is keyed by the operation, the scope and the subject.  Rules of one *)
(* operation and scope share it: an attempt counts in it once per rule, and  *)
(* the rule with the shortest window starts it anew for all of them.         *)
(*                                                                         *)
(* An attempt reads the clock once and counts for one rule after the other, *)
(* one statement each, up to MaxDelay later, while the other attempts do    *)
(* the same in any order.  The store may refuse a statement, and a request  *)
(* may end between two of them.                                             *)
(***************************************************************************)
EXTENDS Integers, FiniteSets

CONSTANTS
    Limiters,       \* the limiters a configuration may have: "store", "memory"
    Callers, Instances, Requests,
    Rules,          \* the number of rules of the operation, counted in this order
    Limit, Window,  \* of each rule; Memory has those of rule 0
    ScopeOf,        \* the scope of each rule; that of rule 0 is Memory itself
    SubjectOf,      \* SubjectOf[c][s]: what a rule of scope s counts for a caller, or NoSubject
    CleanupAge,     \* Cleanup removes counters whose window began that long ago
    MaxDelay,       \* an attempt takes at most this long
    MaxTime,        \* bound: the end of the clock
    MaxAttempts     \* bound: the attempts of a behaviour

NoSubject == "none"
Never == -1
RuleIds == 1 .. Rules

\* What is counted: a rule and a subject of its scope; a process and a caller.
Subject(c, i) == SubjectOf[c][ScopeOf[i]]
StoreBuckets == {b \in {<<i, Subject(c, i)>> : i \in RuleIds, c \in Callers} : b[2] # NoSubject}
MemoryBuckets == {<<0, <<i, c>>>> : i \in Instances, c \in Callers}
Buckets == StoreBuckets \cup MemoryBuckets

\* The key of the counter, which does not name the rule.
RowOf(b) == <<ScopeOf[b[1]], b[2]>>
Rows == {RowOf(b) : b \in Buckets}
StoreRows == {RowOf(b) : b \in StoreBuckets}

\* The rules that share their rows with rule i, and the shortest of their windows.
Sharing(i) == {j \in 0 .. Rules : ScopeOf[j] = ScopeOf[i]}
Shortest(i) == CHOOSE w \in {Window[j] : j \in Sharing(i)} : \A j \in Sharing(i) : w <= Window[j]

LimitOf == [b \in Buckets |-> Limit[b[1]]]
WindowOf == [b \in Buckets |-> Shortest(b[1])]

ASSUME RateLimitAssumption ==
    /\ Rules \in Nat \ {0} /\ MaxDelay \in Nat /\ MaxTime \in Nat /\ MaxAttempts \in Nat /\ CleanupAge \in Nat
    /\ Limit \in [0 .. Rules -> Nat \ {0}] /\ Window \in [0 .. Rules -> Nat \ {0}]
    /\ \A i \in RuleIds : CleanupAge >= Window[i] + MaxDelay /\ ScopeOf[i] # ScopeOf[0]

VARIABLES
    limiter,    \* the limiter of the configuration
    clock,
    counter,    \* counter[k]: the row of rate_limits, or the bucket of Memory
    req,        \* req[q]: an attempt
    begun,      \* the attempts so far
    last,       \* history: when the latest window began in which a bucket was granted
    granted,    \* history: the attempts granted in it
    taken,      \* history: the grants of a bucket, numbered, with the window and the time of each
    until       \* history: the end of the latest Retry-After of a caller, from its answer on

vars == <<limiter, clock, counter, req, begun, last, granted, taken, until>>
history == <<last, granted, taken>>

Time == 0 .. MaxTime
Counter == [start : Time \cup {Never}, count : Nat]
NoCounter == [start |-> Never, count |-> 0]
Attempt == [pc : {"idle", "memory", "store"}, rule : 1 .. Rules + 1, caller : Callers \cup {"none"},
            inst : Instances \cup {"none"}, now : Time, age : 0 .. MaxDelay, allowed : BOOLEAN, retry : Nat,
            told : Nat]    \* history: until of the caller when the attempt began
Idle == [pc |-> "idle", rule |-> 1, caller |-> "none", inst |-> "none", now |-> 0, age |-> 0, allowed |-> TRUE, retry |-> 0,
         told |-> 0]
Larger(a, b) == IF a > b THEN a ELSE b

Init ==
    /\ limiter \in Limiters
    /\ clock = 0
    /\ counter = [k \in Rows |-> NoCounter]
    /\ req = [q \in Requests |-> Idle] /\ begun = 0
    /\ last = [b \in Buckets |-> Never] /\ granted = [b \in Buckets |-> 0]
    /\ taken = {}
    /\ until = [c \in Callers |-> 0]

-----------------------------------------------------------------------------
(* The store limiter.                                                      *)

\* Mutant: the cutoff is one off.
CountedEarly(row, window, now) ==
    IF row.start = Never \/ row.start <= now - window + 1
      THEN [start |-> now, count |-> 1] ELSE [row EXCEPT !.count = @ + 1]
\* Mutant: the cutoff is the time of the attempt, not a window before it.
CountedAnew(row, window, now) ==
    IF row.start = Never \/ row.start <= now
      THEN [start |-> now, count |-> 1] ELSE [row EXCEPT !.count = @ + 1]

\* CountAttempt, one statement: a window that began at or before now - window is
\* over, and the attempt is the first of a new one.
Counted(row, window, now) ==
    IF row.start = Never \/ row.start <= now - window
      THEN [start |-> now, count |-> 1]
      ELSE [row EXCEPT !.count = @ + 1]

\* Mutant: the subtraction has its operands swapped.
WaitSwapped(row, window, now) == Larger(now + window - row.start, 0)
\* The time until the window of a counter ends.
Wait(row, window, now) == Larger(row.start + window - now, 0)

GrantsOf(b) == {g \in taken : g.bucket = b}

\* What the history makes of an attempt that the rule of b granted.
Record(b, row) ==
    /\ last' = [last EXCEPT ![b] = row.start]
    /\ granted' = [granted EXCEPT ![b] = IF last[b] = row.start THEN @ + 1 ELSE 1]
    /\ taken' = taken \cup {[bucket |-> b, start |-> row.start, nth |-> Cardinality(GrantsOf(b)), at |-> clock]}

\* Decide reads the clock.
Decide(q, c) ==
    /\ limiter = "store" /\ req[q].pc = "idle"
    /\ begun < MaxAttempts /\ begun' = begun + 1
    /\ req' = [req EXCEPT ![q] = [Idle EXCEPT !.pc = "store", !.caller = c, !.now = clock, !.told = until[c]]]
    /\ UNCHANGED <<clock, counter, history, until>>

\* Decide, one rule: count, compare, and remember the longest time to wait.  A
\* rule without a subject is skipped.
CountAttempt(q) ==
    LET l == req[q]
        b == <<l.rule, Subject(l.caller, l.rule)>>
        row == Counted(counter[RowOf(b)], Window[l.rule], l.now)
        passed == row.count <= Limit[l.rule]
        wait == Wait(row, Window[l.rule], l.now)
    IN
    /\ l.pc = "store" /\ l.rule \in RuleIds
    /\ IF b[2] = NoSubject
         THEN /\ req' = [req EXCEPT ![q].rule = @ + 1]
              /\ UNCHANGED <<counter, history>>
         ELSE /\ counter' = [counter EXCEPT ![RowOf(b)] = row]
              /\ req' = [req EXCEPT ![q].rule = @ + 1, ![q].allowed = @ /\ passed,
                                    ![q].retry = IF passed THEN @ ELSE Larger(@, wait)]
              /\ IF passed THEN Record(b, row) ELSE UNCHANGED history
    /\ UNCHANGED <<clock, until, begun>>

\* The store refuses the statement: Decide fails, and allow answers an error.  The
\* rules before it stay counted.  A request that ends has the same effect.
CountFails(q) ==
    /\ req[q].pc # "idle"
    /\ req' = [req EXCEPT ![q] = Idle]
    /\ UNCHANGED <<clock, counter, history, until, begun>>

\* A refused attempt waits at least one unit.
retryAfterSeconds(d) == Larger(d, 1)

\* allow: the attempt goes on, or it is refused with its Retry-After, which the
\* caller counts from the answer.
Answer(q) ==
    LET l == req[q] IN
    /\ l.pc = "store" /\ l.rule = Rules + 1
    /\ until' = IF l.allowed THEN until
                ELSE [until EXCEPT ![l.caller] = Larger(@, clock + retryAfterSeconds(l.retry))]
    /\ req' = [req EXCEPT ![q] = Idle]
    /\ UNCHANGED <<clock, counter, history, begun>>

\* Cleanup with the age that the host chooses.
Cleanup ==
    /\ limiter = "store"
    /\ counter' = [k \in Rows |->
                     IF k \in StoreRows /\ counter[k].start <= clock - CleanupAge THEN NoCounter ELSE counter[k]]
    /\ UNCHANGED <<clock, req, history, until, begun>>

-----------------------------------------------------------------------------
(* The memory limiter.                                                     *)

\* Memory.Allow reads the clock before it takes the mutex.
Allow(q, c, i) ==
    /\ limiter = "memory" /\ req[q].pc = "idle"
    /\ begun < MaxAttempts /\ begun' = begun + 1
    /\ req' = [req EXCEPT ![q] = [Idle EXCEPT !.pc = "memory", !.caller = c, !.inst = i, !.now = clock]]
    /\ UNCHANGED <<clock, counter, history, until>>

\* Under the mutex; a refused attempt is not counted.
AllowLocked(q) ==
    LET l == req[q]
        b == <<0, <<l.inst, l.caller>>>>
        row == counter[RowOf(b)]
        new == row.start = Never \/ l.now - row.start >= Window[0]
        passed == new \/ row.count < Limit[0]
    IN
    /\ l.pc = "memory"
    /\ IF passed
         THEN LET after == IF new THEN [start |-> l.now, count |-> 1] ELSE [row EXCEPT !.count = @ + 1] IN
              counter' = [counter EXCEPT ![RowOf(b)] = after] /\ Record(b, after)
         ELSE UNCHANGED <<counter, history>>
    /\ req' = [req EXCEPT ![q] = Idle]
    /\ UNCHANGED <<clock, until, begun>>

Tick ==
    /\ clock < MaxTime
    /\ \A q \in Requests : req[q].age < MaxDelay
    /\ clock' = clock + 1
    /\ req' = [q \in Requests |-> IF req[q].pc = "idle" THEN req[q] ELSE [req[q] EXCEPT !.age = @ + 1]]
    /\ UNCHANGED <<counter, history, until, begun>>

-----------------------------------------------------------------------------
Step ==
    \/ Tick \/ Cleanup
    \/ \E q \in Requests :
          \/ CountAttempt(q) \/ CountFails(q) \/ Answer(q) \/ AllowLocked(q)
          \/ \E c \in Callers : Decide(q, c) \/ \E i \in Instances : Allow(q, c, i)

Next == Step /\ UNCHANGED limiter

Spec == Init /\ [][Next]_vars

-----------------------------------------------------------------------------
(* Properties.                                                             *)

\* The types; a counter that exists counts at least one attempt.
TypeOK ==
    /\ limiter \in Limiters /\ clock \in Time /\ begun \in 0 .. MaxAttempts
    /\ counter \in [Rows -> Counter] /\ req \in [Requests -> Attempt]
    /\ last \in [Buckets -> Time \cup {Never}] /\ granted \in [Buckets -> Nat]
    /\ taken \subseteq [bucket : Buckets, start : Time, nth : Nat, at : Time] /\ until \in [Callers -> Nat]
    /\ \A k \in Rows : (counter[k].start = Never) <=> (counter[k].count = 0)

\* Both limiters implement the fixed window: parallel attempts that read the clock
\* in one order and count in another, Cleanup and failed statements included, the
\* windows in which a rule grants a subject begin a full window apart and grant at
\* most its limit.  The window is the shortest of the rules that share the row.
FW == INSTANCE FixedWindow WITH Limit <- LimitOf, Window <- WindowOf
Implements == FW!Spec

\* In any span of real time shorter than that window by the longest delay of an
\* attempt, a rule grants a subject at most twice its limit.
BurstBound ==
    /\ TypeOK
    /\ \A b \in Buckets : \A t \in Time :
        Cardinality({g \in GrantsOf(b) : t <= g.at /\ g.at < t + WindowOf[b] - MaxDelay})
            <= 2 * LimitOf[b]

\* A refused caller is told a time before which it cannot succeed: an attempt that
\* begins after the answer passes every rule only when the clock, which the answer
\* may be late by, is there.  What a rule tells is too long by as much as its own
\* window is longer than the shortest of its row.
Overdue(t) == \E i \in RuleIds : t <= clock + MaxDelay + Window[i] - Shortest(i)
RetryHonest ==
    \A q \in Requests :
        req[q].pc = "store" /\ req[q].rule = Rules + 1 /\ req[q].allowed => Overdue(req[q].told)
=============================================================================
