-------------------------- MODULE RateLimitProofs --------------------------
(* For all limits and windows, any number of rules of any scopes, and any     *)
(* callers, instances and attempts: both limiters implement the fixed window  *)
(* of the shortest window that shares a row, a burst is at most twice the     *)
(* limit, and a caller that the store limiter refused is told a time before   *)
(* which no attempt passes.                                                   *)
EXTENDS RateLimit, FiniteSetTheorems, WellFoundedInduction, TLAPS

Loose == [pc : {"idle", "memory", "store"}, rule : Nat, caller : Callers \cup {"none"},
          inst : Instances \cup {"none"}, now : Nat, age : Nat, allowed : BOOLEAN, retry : Int, told : Int]

Row == [start : Nat \cup {Never}, count : Nat]

Shape ==
    /\ clock \in Nat
    /\ counter \in [Rows -> Row]
    /\ req \in [Requests -> Loose]
    /\ last \in [Buckets -> Nat \cup {Never}]
    /\ granted \in [Buckets -> Nat]
    /\ until \in [Callers -> Int]

\* An attempt knows the clock from at most MaxDelay ago.
Recent ==
    \A q \in Requests : req[q].pc # "idle" =>
        /\ req[q].caller \in Callers
        /\ req[q].pc = "memory" => req[q].inst \in Instances
        /\ req[q].age <= MaxDelay /\ req[q].now + req[q].age = clock

\* What row r, one that b is counted in, knows of b: it counts at least what was
\* granted in its window, or that window came a full window after the latest in
\* which b was granted.  When Cleanup took the row, that window has been over for at
\* least MaxDelay.
Knows(r, b) ==
    /\ r.start <= clock
    /\ r.start # Never =>
          /\ r.count >= 1
          /\ last[b] = r.start => granted[b] <= r.count
          /\ last[b] # r.start => last[b] = Never \/ last[b] + WindowOf[b] <= r.start
    /\ r.start = Never =>
          /\ r.count = 0
          /\ last[b] = Never \/ last[b] + WindowOf[b] + MaxDelay <= clock

Remembered(b) == Knows(counter[RowOf(b)], b)

WindowInv == Shape /\ Recent /\ \A b \in Buckets : Remembered(b)

-----------------------------------------------------------------------------
(* The keys of the counters, and the windows of the rules that share one.   *)

LEMMA LeastNumber ==
    ASSUME NEW S \in SUBSET Nat, S # {}
    PROVE  \E x \in S : \A y \in S : x <= y
<1>. DEFINE UpTo(x) == {y \in S : y <= x}
            R == StrictSubsetOrdering(Nat)
            T == {UpTo(x) : x \in S}
<1>1. T \subseteq FiniteSubsetsOf(Nat) /\ T # {}
  <2>1. ASSUME NEW x \in S PROVE UpTo(x) \in SUBSET Nat /\ IsFiniteSet(UpTo(x))
    <3>1. UpTo(x) \in SUBSET Nat /\ x \in Nat /\ \A y \in UpTo(x) : y <= x
      OBVIOUS
    <3>. QED  BY <3>1, FS_BoundedSetOfNaturals
  <2>. QED  BY <2>1 DEF FiniteSubsetsOf
<1>2. PICK A \in T : \A B \in T : <<B, A>> \notin R
  BY <1>1, FS_StrictSubsetOrderingWellFounded, WFMin
<1>3. PICK x \in S : A = UpTo(x)
  OBVIOUS
<1>4. ASSUME NEW y \in S, y < x PROVE FALSE
  <2>1. UpTo(y) \in T
    OBVIOUS
  <2>2. UpTo(y) \subseteq UpTo(x) /\ UpTo(y) # UpTo(x) /\ UpTo(x) \subseteq Nat
    <3>1. x \in UpTo(x) /\ x \notin UpTo(y) /\ UpTo(x) \subseteq Nat
      <4>1. x \in Nat /\ y \in Nat /\ S \subseteq Nat
        OBVIOUS
      <4>2. x <= x /\ ~(x <= y)
        BY <1>4, <4>1
      <4>. QED  BY <4>1, <4>2
    <3>2. ASSUME NEW z \in UpTo(y) PROVE z \in UpTo(x)
      <4>1. z \in S /\ z \in Nat /\ y \in Nat /\ x \in Nat /\ z <= y
        OBVIOUS
      <4>. QED  BY <1>4, <4>1
    <3>. HIDE DEF UpTo
    <3>. QED  BY <3>1, <3>2
  <2>3. <<UpTo(y), UpTo(x)>> \in R
    <3>. HIDE DEF UpTo
    <3>. QED  BY <2>2 DEF StrictSubsetOrdering
  <2>. QED  BY <1>2, <1>3, <2>1, <2>3
<1>. QED  BY <1>3, <1>4

LEMMA RuleTypes ==
    /\ Rules \in Nat \ {0} /\ MaxDelay \in Nat /\ CleanupAge \in Nat
    /\ \A i \in 0 .. Rules : Limit[i] \in Nat \ {0} /\ Window[i] \in Nat \ {0}
    /\ \A i \in RuleIds : i \in 0 .. Rules /\ CleanupAge >= Window[i] + MaxDelay /\ ScopeOf[i] # ScopeOf[0]
BY RateLimitAssumption DEF RuleIds

\* The rules of one scope have one shortest window.
LEMMA ShortestWindow ==
    ASSUME NEW i \in 0 .. Rules
    PROVE  /\ Shortest(i) \in Nat \ {0}
           /\ \A j \in 0 .. Rules : ScopeOf[j] = ScopeOf[i] => Shortest(i) <= Window[j] /\ Shortest(j) = Shortest(i)
<1>. DEFINE S == {Window[j] : j \in Sharing(i)}
<1>1. S \in SUBSET (Nat \ {0}) /\ i \in Sharing(i) /\ Window[i] \in S
  BY RuleTypes DEF Sharing
<1>2. \E w \in S : \A j \in Sharing(i) : w <= Window[j]
  <2>1. PICK w \in S : \A y \in S : w <= y
    BY <1>1, LeastNumber
  <2>. QED  BY <2>1
<1>3. Shortest(i) \in S /\ \A j \in Sharing(i) : Shortest(i) <= Window[j]
  BY <1>2 DEF Shortest
<1>4. ASSUME NEW j \in 0 .. Rules, ScopeOf[j] = ScopeOf[i] PROVE Shortest(j) = Shortest(i)
  <2>1. Sharing(j) = Sharing(i)
    BY <1>4 DEF Sharing
  <2>. QED  BY <2>1 DEF Shortest
<1>5. \A j \in 0 .. Rules : ScopeOf[j] = ScopeOf[i] => j \in Sharing(i)
  BY DEF Sharing
<1>. QED  BY <1>1, <1>3, <1>4, <1>5

\* The buckets of one row have rules of one scope, and Cleanup leaves a row of
\* theirs for the windows of all of them.
LEMMA BucketTypes ==
    /\ StoreBuckets \subseteq Buckets /\ MemoryBuckets \subseteq Buckets
    /\ \A b \in Buckets :
          /\ b[1] \in 0 .. Rules /\ RowOf(b) \in Rows
          /\ LimitOf[b] = Limit[b[1]] /\ LimitOf[b] \in Nat \ {0}
          /\ WindowOf[b] = Shortest(b[1]) /\ WindowOf[b] \in Nat \ {0}
    /\ \A b, x \in Buckets : RowOf(x) = RowOf(b) => ScopeOf[x[1]] = ScopeOf[b[1]] /\ WindowOf[x] <= Window[b[1]]
    /\ \A x \in Buckets : RowOf(x) \in StoreRows => CleanupAge >= WindowOf[x] + MaxDelay
    /\ MaxDelay \in Nat /\ CleanupAge \in Nat /\ Rules \in Nat
<1>1. \A b \in StoreBuckets : b[1] \in RuleIds
  BY DEF StoreBuckets
<1>2. \A b \in MemoryBuckets : b[1] = 0
  BY DEF MemoryBuckets
<1>3. \A b \in Buckets : b[1] \in 0 .. Rules
  BY <1>1, <1>2, RuleTypes DEF Buckets
<1>4. \A b \in Buckets : LimitOf[b] = Limit[b[1]] /\ WindowOf[b] = Shortest(b[1]) /\ RowOf(b) \in Rows
  BY DEF LimitOf, WindowOf, Rows
<1>5. \A b \in Buckets : LimitOf[b] \in Nat \ {0} /\ WindowOf[b] \in Nat \ {0}
  BY <1>3, <1>4, RuleTypes, ShortestWindow
<1>6. ASSUME NEW b \in Buckets, NEW x \in Buckets, RowOf(x) = RowOf(b)
      PROVE  ScopeOf[x[1]] = ScopeOf[b[1]] /\ WindowOf[x] <= Window[b[1]]
  <2>1. ScopeOf[x[1]] = ScopeOf[b[1]]
    BY <1>6 DEF RowOf
  <2>. QED  BY <1>3, <1>4, <2>1, ShortestWindow
<1>7. ASSUME NEW x \in Buckets, RowOf(x) \in StoreRows PROVE CleanupAge >= WindowOf[x] + MaxDelay
  <2>1. PICK b \in StoreBuckets : RowOf(x) = RowOf(b)
    BY <1>7 DEF StoreRows
  <2>2. b \in Buckets /\ b[1] \in RuleIds
    BY <1>1 DEF Buckets
  <2>3. WindowOf[x] <= Window[b[1]] /\ CleanupAge >= Window[b[1]] + MaxDelay /\ Window[b[1]] \in Nat
    BY <1>6, <2>1, <2>2, RuleTypes
  <2>. QED  BY <1>5, <2>3, RuleTypes
<1>. QED  BY <1>3, <1>4, <1>5, <1>6, <1>7, RuleTypes DEF Buckets

LEMMA InitWindow == Init => WindowInv
<1> SUFFICES ASSUME Init
             PROVE  WindowInv
  OBVIOUS
<1>1. Idle \in Loose
  BY DEF Idle, Loose
<1>2. Shape
  BY <1>1 DEF Init, Shape, NoCounter, Never, Row
<1>3. Recent
  BY DEF Init, Recent, Idle
<1>4. \A b \in Buckets : Remembered(b)
  <2> SUFFICES ASSUME NEW b \in Buckets
               PROVE  Remembered(b)
    OBVIOUS
  <2>1. counter[RowOf(b)] = NoCounter /\ last[b] = Never /\ clock = 0
    BY BucketTypes DEF Init
  <2> QED
    BY <2>1 DEF Remembered, Knows, NoCounter, Never
<1> QED
  BY <1>2, <1>3, <1>4 DEF WindowInv

-----------------------------------------------------------------------------
(* What one attempt makes of one counter, and of the fixed window.          *)

\* The row that an attempt of a rule leaves knows every bucket that it counts.
LEMMA CountedKnows ==
    ASSUME WindowInv, NEW b \in Buckets, NEW x \in Buckets, RowOf(x) = RowOf(b),
           NEW now \in Nat, now <= clock, clock <= now + MaxDelay,
           NEW row, row = Counted(counter[RowOf(b)], Window[b[1]], now)
    PROVE  /\ row \in [start : Nat, count : Nat \ {0}] /\ row.start <= clock
           /\ row.start = last[x] => granted[x] < row.count
           /\ row.start # last[x] => last[x] = Never \/ last[x] + WindowOf[x] <= row.start
           /\ row.start = counter[RowOf(x)].start \/ clock <= row.start + MaxDelay
<1> DEFINE old == counter[RowOf(x)]
           window == Window[b[1]]
           over == old.start = Never \/ old.start <= now - window
<1>1. /\ old \in Row /\ clock \in Nat /\ Knows(old, x)
      /\ last[x] \in Nat \cup {Never} /\ granted[x] \in Nat
  BY BucketTypes DEF WindowInv, Shape, Remembered
<1>2. window \in Nat \ {0} /\ WindowOf[x] \in Nat \ {0} /\ WindowOf[x] <= window /\ MaxDelay \in Nat
  BY BucketTypes, RuleTypes
<1>3. row = IF over THEN [start |-> now, count |-> 1] ELSE [old EXCEPT !.count = @ + 1]
  BY DEF Counted
<1>4. CASE over
  <2>1. row = [start |-> now, count |-> 1]
    BY <1>3, <1>4
  <2>2. row \in [start : Nat, count : Nat \ {0}] /\ row.start = now /\ row.count = 1
    BY <2>1
  <2>3. last[x] = Never \/ last[x] + WindowOf[x] <= now
    <3>1. CASE old.start = Never
      BY <3>1, <1>1, <1>2 DEF Knows, Never
    <3>2. CASE old.start # Never
      <4>1. old.start \in Nat /\ old.start <= now - window
        BY <3>2, <1>1, <1>4 DEF Row
      <4>2. last[x] = old.start \/ last[x] = Never \/ last[x] + WindowOf[x] <= old.start
        BY <3>2, <1>1 DEF Knows
      <4> HIDE DEF old, window
      <4> QED
        BY <4>1, <4>2, <1>1, <1>2
    <3> QED
      BY <3>1, <3>2
  <2>4. row.start # last[x]
    BY <2>2, <2>3, <1>1, <1>2 DEF Never
  <2> QED
    BY <2>2, <2>3, <2>4
<1>5. CASE ~over
  <2>1. row = [old EXCEPT !.count = @ + 1]
    BY <1>3, <1>5
  <2>2. old.start \in Nat /\ old.start # Never /\ old.count \in Nat
    BY <1>1, <1>5 DEF Row
  <2>3. row.start = old.start /\ row.count = old.count + 1 /\ row \in [start : Nat, count : Nat \ {0}]
    BY <2>1, <2>2, <1>1 DEF Row
  <2>4. row.start = counter[RowOf(x)].start
    BY <2>3
  <2> HIDE DEF old
  <2> QED
    BY <2>2, <2>3, <2>4, <1>1 DEF Knows
<1> QED
  BY <1>4, <1>5

\* A counter that is replaced so, for an attempt that the rule grants within its
\* limit or refuses: a new window opens a full window after the last, or one more
\* attempt is granted in the window, below the limit.
LEMMA Counting ==
    ASSUME WindowInv, NEW b \in Buckets, NEW now \in Nat, now <= clock, clock <= now + MaxDelay,
           NEW row, row = Counted(counter[RowOf(b)], Window[b[1]], now),
           counter' = [counter EXCEPT ![RowOf(b)] = row], clock' = clock,
           (row.count <= LimitOf[b] /\ Record(b, row)) \/ UNCHANGED history
    PROVE  /\ counter' \in [Rows -> Row]
           /\ last' \in [Buckets -> Nat \cup {Never}] /\ granted' \in [Buckets -> Nat]
           /\ \A x \in Buckets : Remembered(x)'
           /\ FW!Next \/ UNCHANGED <<last, granted>>
<1>0. /\ RowOf(b) \in Rows /\ LimitOf[b] \in Nat \ {0} /\ WindowOf[b] \in Nat \ {0} /\ MaxDelay \in Nat
  BY BucketTypes
<1>1. /\ counter \in [Rows -> Row] /\ clock \in Nat
      /\ last \in [Buckets -> Nat \cup {Never}] /\ granted \in [Buckets -> Nat]
      /\ \A x \in Buckets : Remembered(x)
  BY DEF WindowInv, Shape
<1>2. /\ row \in [start : Nat, count : Nat \ {0}] /\ row \in Row /\ row.start <= clock
      /\ row.start = last[b] => granted[b] < row.count
      /\ row.start # last[b] => last[b] = Never \/ last[b] + WindowOf[b] <= row.start
  BY CountedKnows DEF Row
<1>3. \A x \in Buckets \ {b} : last'[x] = last[x] /\ granted'[x] = granted[x]
  BY <1>1 DEF Record, history
<1>4. CASE UNCHANGED history
  <2>1. last' = last /\ granted' = granted
    BY <1>4 DEF history
  <2>2. ASSUME NEW x \in Buckets PROVE Remembered(x)'
    <3>1. CASE RowOf(x) = RowOf(b)
      <4>1. counter'[RowOf(x)] = row
        BY <3>1, <1>0, <1>1
      <4>2. /\ row.start = last[x] => granted[x] < row.count
            /\ row.start # last[x] => last[x] = Never \/ last[x] + WindowOf[x] <= row.start
        BY <3>1, CountedKnows
      <4> QED
        BY <4>1, <4>2, <2>1, <1>1, <1>2 DEF Remembered, Knows, Never
    <3>2. CASE RowOf(x) # RowOf(b)
      <4>1. counter'[RowOf(x)] = counter[RowOf(x)] /\ Remembered(x)
        BY <3>2, <1>0, <1>1
      <4> QED
        BY <4>1, <2>1 DEF Remembered, Knows
    <3> QED
      BY <3>1, <3>2
  <2> QED
    BY <2>1, <2>2, <1>0, <1>1, <1>2
<1>5. CASE row.count <= LimitOf[b] /\ Record(b, row)
  <2>1. /\ last' = [last EXCEPT ![b] = row.start]
        /\ granted' = [granted EXCEPT ![b] = IF last[b] = row.start THEN @ + 1 ELSE 1]
    BY <1>5 DEF Record
  <2>2. last'[b] = row.start /\ granted'[b] = IF last[b] = row.start THEN granted[b] + 1 ELSE 1
    BY <2>1, <1>1
  <2>3. granted'[b] \in Nat /\ granted'[b] <= row.count
    BY <2>2, <1>1, <1>2
  <2>4. last' \in [Buckets -> Nat \cup {Never}] /\ granted' \in [Buckets -> Nat]
    BY <2>1, <1>1, <1>2
  <2>5. ASSUME NEW x \in Buckets PROVE Remembered(x)'
    <3>1. CASE x = b
      <4>1. counter'[RowOf(x)] = row
        BY <3>1, <1>0, <1>1
      <4> QED
        BY <4>1, <3>1, <2>2, <2>3, <1>1, <1>2 DEF Remembered, Knows, Never
    <3>2. CASE x # b /\ RowOf(x) = RowOf(b)
      <4>1. counter'[RowOf(x)] = row /\ last'[x] = last[x] /\ granted'[x] = granted[x]
        BY <3>2, <1>0, <1>1, <1>3
      <4>2. /\ row.start = last[x] => granted[x] < row.count
            /\ row.start # last[x] => last[x] = Never \/ last[x] + WindowOf[x] <= row.start
        BY <3>2, CountedKnows
      <4> QED
        BY <4>1, <4>2, <1>1, <1>2 DEF Remembered, Knows, Never
    <3>3. CASE RowOf(x) # RowOf(b)
      <4>1. counter'[RowOf(x)] = counter[RowOf(x)] /\ Remembered(x) /\ x # b
        BY <3>3, <1>0, <1>1
      <4>2. last'[x] = last[x] /\ granted'[x] = granted[x]
        BY <4>1, <1>3
      <4> QED
        BY <4>1, <4>2 DEF Remembered, Knows
    <3> QED
      BY <3>1, <3>2, <3>3
  <2>6. FW!Next
    <3>1. CASE last[b] = row.start
      <4>1. granted' = [granted EXCEPT ![b] = @ + 1] /\ last' = last
        BY <3>1, <2>1, <1>1
      <4>2. granted[b] < LimitOf[b] /\ last[b] # Never
        BY <3>1, <1>0, <1>1, <1>2, <1>5 DEF Never
      <4> QED
        BY <4>1, <4>2 DEF FW!Next, FW!Grant, FW!Never, Never
    <3>2. CASE last[b] # row.start
      <4>1. granted' = [granted EXCEPT ![b] = 1]
        BY <3>2, <2>1
      <4>2. last'[b] \in Nat /\ last' = [last EXCEPT ![b] = last'[b]]
        BY <2>1, <2>2, <1>2
      <4>3. last[b] # Never => last'[b] >= last[b] + WindowOf[b]
        BY <3>2, <2>2, <1>0, <1>1, <1>2 DEF Never
      <4> QED
        BY <4>1, <4>2, <4>3 DEF FW!Next, FW!Open, FW!Never, Never
    <3> QED
      BY <3>1, <3>2
  <2> QED
    BY <2>4, <2>5, <2>6, <1>0, <1>1, <1>2
<1> QED
  BY <1>4, <1>5

\* Memory counts as the store does, but it does not count what it refuses.
LEMMA MemoryCounts ==
    ASSUME NEW row \in Row, NEW window \in Nat \ {0}, NEW limit \in Nat \ {0}, NEW now \in Nat
    PROVE  LET new == row.start = Never \/ now - row.start >= window
               after == IF new THEN [start |-> now, count |-> 1] ELSE [row EXCEPT !.count = @ + 1]
           IN  after = Counted(row, window, now) /\ (new \/ row.count < limit => after.count <= limit)
<1> DEFINE new == row.start = Never \/ now - row.start >= window
<1>1. row.start \in Nat \cup {Never} /\ row.count \in Nat
  BY DEF Row
<1>2. new <=> (row.start = Never \/ row.start <= now - window)
  BY <1>1 DEF Never
<1>3. CASE new
  <2>1. Counted(row, window, now) = [start |-> now, count |-> 1]
    BY <1>2, <1>3 DEF Counted
  <2> QED
    BY <2>1, <1>3
<1>4. CASE ~new
  <2>1. Counted(row, window, now) = [row EXCEPT !.count = @ + 1]
    BY <1>2, <1>4 DEF Counted
  <2>2. Counted(row, window, now).count = row.count + 1
    BY <2>1 DEF Row
  <2> QED
    BY <2>1, <2>2, <1>1, <1>4
<1> QED
  BY <1>3, <1>4

-----------------------------------------------------------------------------
(* Every step.                                                              *)

\* No step but an attempt's own counting touches the history.
LEMMA StepWindow == WindowInv /\ [Next]_vars => WindowInv' /\ (FW!Next \/ UNCHANGED <<last, granted>>)
<1> SUFFICES ASSUME WindowInv, [Next]_vars
             PROVE  WindowInv' /\ (FW!Next \/ UNCHANGED <<last, granted>>)
  OBVIOUS
<1> DEFINE Counters == [Rows -> Row]
<1>1. /\ clock \in Nat /\ counter \in Counters /\ req \in [Requests -> Loose]
      /\ last \in [Buckets -> Nat \cup {Never}] /\ granted \in [Buckets -> Nat] /\ until \in [Callers -> Int]
  BY DEF WindowInv, Shape
<1>2. MaxDelay \in Nat /\ CleanupAge \in Nat /\ Rules \in Nat
  BY BucketTypes
<1>3. Idle \in Loose
  BY DEF Idle, Loose
<1>4. \A b \in Buckets : Remembered(b)
  BY DEF WindowInv
<1>5. ASSUME UNCHANGED <<clock, counter, history>>
      PROVE  /\ \A b \in Buckets : Remembered(b)'
             /\ clock' \in Nat /\ counter' \in Counters /\ last' \in [Buckets -> Nat \cup {Never}]
             /\ granted' \in [Buckets -> Nat] /\ UNCHANGED <<last, granted>>
  BY <1>1, <1>4, <1>5 DEF Remembered, Knows, history
<1>6. ASSUME NEW q \in Requests, NEW r \in Loose, req' = [req EXCEPT ![q] = r], clock' = clock,
             r.pc # "idle" => /\ r.caller \in Callers /\ (r.pc = "memory" => r.inst \in Instances)
                              /\ r.age <= MaxDelay /\ r.now + r.age = clock
      PROVE  req' \in [Requests -> Loose] /\ Recent'
  BY <1>1, <1>6 DEF WindowInv, Recent
<1>7. CASE UNCHANGED vars
  <2>1. UNCHANGED <<clock, counter, req, history, until>>
    BY <1>7 DEF vars, history
  <2>2. Recent'
    BY <2>1 DEF WindowInv, Recent
  <2> QED
    BY <2>1, <2>2, <1>1, <1>5 DEF WindowInv, Shape
<1>8. CASE Tick
  <2>1. clock' = clock + 1 /\ UNCHANGED <<counter, history, until>>
    BY <1>8 DEF Tick
  <2>2. \A b \in Buckets : Remembered(b)'
    <3> SUFFICES ASSUME NEW b \in Buckets
                 PROVE  Remembered(b)'
      OBVIOUS
    <3>1. /\ Remembered(b) /\ WindowOf[b] \in Nat /\ last[b] \in Nat \cup {Never}
          /\ counter[RowOf(b)] \in Row
      BY <1>1, <1>4, BucketTypes
    <3>2. counter' = counter /\ last' = last /\ granted' = granted
      BY <2>1 DEF history
    <3> QED
      BY <3>1, <3>2, <2>1, <1>1, <1>2 DEF Remembered, Knows, Row, Never
  <2>3. req' \in [Requests -> Loose] /\ Recent'
    <3> SUFFICES ASSUME NEW q \in Requests
                 PROVE  /\ req'[q] \in Loose
                        /\ req'[q].pc # "idle" =>
                              /\ req'[q].caller \in Callers /\ (req'[q].pc = "memory" => req'[q].inst \in Instances)
                              /\ req'[q].age <= MaxDelay /\ req'[q].now + req'[q].age = clock'
      BY <1>8 DEF Tick, Recent
    <3>1. req[q] \in Loose /\ req[q].age < MaxDelay
      BY <1>1, <1>8 DEF Tick
    <3>2. CASE req[q].pc = "idle"
      BY <3>1, <3>2, <1>8 DEF Tick
    <3>3. CASE req[q].pc # "idle"
      <4>1. req'[q] = [req[q] EXCEPT !.age = @ + 1]
        BY <3>3, <1>8 DEF Tick
      <4>2. /\ req[q].caller \in Callers /\ (req[q].pc = "memory" => req[q].inst \in Instances)
            /\ req[q].now + req[q].age = clock
        BY <3>3 DEF WindowInv, Recent
      <4>3. req'[q] \in Loose
        BY <3>1, <4>1 DEF Loose
      <4>4. /\ req'[q].caller = req[q].caller /\ req'[q].pc = req[q].pc /\ req'[q].inst = req[q].inst
            /\ req'[q].now = req[q].now /\ req'[q].age = req[q].age + 1
            /\ req[q].age \in Nat /\ req[q].now \in Nat
        BY <3>1, <4>1 DEF Loose
      <4> QED
        BY <3>1, <4>2, <4>3, <4>4, <2>1, <1>1, <1>2
    <3> QED
      BY <3>2, <3>3
  <2> QED
    BY <2>1, <2>2, <2>3, <1>1 DEF WindowInv, Shape, history
<1>9. CASE Cleanup
  <2>1. UNCHANGED <<clock, req, history, until>>
    BY <1>9 DEF Cleanup
  <2>2. /\ NoCounter \in Row /\ NoCounter.start = Never /\ NoCounter.count = 0
        /\ last' = last /\ granted' = granted /\ clock' = clock
    BY <2>1 DEF NoCounter, Never, Row, history
  <2>4. ASSUME NEW b \in Buckets PROVE Remembered(b)'
    <3> DEFINE k == RowOf(b)
    <3>1. /\ Knows(counter[k], b) /\ WindowOf[b] \in Nat /\ counter[k] \in Row /\ k \in Rows
          /\ last[b] \in Nat \cup {Never}
      BY <1>1, <1>4, BucketTypes DEF Remembered
    <3>2. CASE k \in StoreRows /\ counter[k].start <= clock - CleanupAge
      <4>1. counter'[k] = NoCounter
        BY <3>1, <3>2, <1>9 DEF Cleanup
      <4>2. CleanupAge >= WindowOf[b] + MaxDelay
        BY <3>2, BucketTypes
      <4>3. last[b] = Never \/ last[b] + WindowOf[b] + MaxDelay <= clock
        <5>1. CASE counter[k].start = Never
          BY <5>1, <3>1 DEF Knows
        <5>2. CASE counter[k].start # Never
          <6>1. counter[k].start \in Nat
            BY <5>2, <3>1 DEF Row
          <6>2. last[b] = counter[k].start \/ last[b] = Never \/ last[b] + WindowOf[b] <= counter[k].start
            BY <5>2, <3>1 DEF Knows
          <6> HIDE DEF k
          <6> QED
            BY <6>1, <6>2, <3>1, <3>2, <4>2, <1>1, <1>2
        <5> QED
          BY <5>1, <5>2
      <4> QED
        BY <4>1, <4>3, <2>2, <1>1 DEF Remembered, Knows, Never
    <3>3. CASE ~(k \in StoreRows /\ counter[k].start <= clock - CleanupAge)
      <4>1. counter'[k] = counter[k]
        BY <3>1, <3>3, <1>9 DEF Cleanup
      <4> QED
        BY <4>1, <3>1, <2>2 DEF Remembered, Knows
    <3> QED
      BY <3>2, <3>3
  <2>3. counter' \in Counters
    BY <2>2, <1>1, <1>9 DEF Cleanup
  <2> QED
    BY <2>1, <2>2, <2>3, <2>4, <1>1 DEF WindowInv, Shape, Recent, history
<1>10. ASSUME NEW q \in Requests, CountAttempt(q)
       PROVE  WindowInv' /\ (FW!Next \/ UNCHANGED <<last, granted>>)
  <2> DEFINE l == req[q]
             b == <<l.rule, Subject(l.caller, l.rule)>>
             row == Counted(counter[RowOf(b)], Window[l.rule], l.now)
             passed == row.count <= Limit[l.rule]
             wait == Wait(row, Window[l.rule], l.now)
  <2>1. l \in Loose /\ l.pc = "store" /\ l.rule \in RuleIds /\ UNCHANGED <<clock, until>>
    BY <1>1, <1>10 DEF CountAttempt
  <2>2. l.caller \in Callers /\ l.age <= MaxDelay /\ l.now + l.age = clock /\ l.now \in Nat /\ l.age \in Nat
    BY <2>1 DEF WindowInv, Recent, Loose
  <2>3. CASE b[2] = NoSubject
    <3>1. req' = [req EXCEPT ![q].rule = @ + 1] /\ UNCHANGED <<counter, history>>
      BY <2>3, <1>10 DEF CountAttempt
    <3> DEFINE skip == [l EXCEPT !.rule = @ + 1]
    <3>2. skip \in Loose
      BY <2>1 DEF Loose
    <3>4. skip.pc = l.pc /\ skip.caller = l.caller /\ skip.inst = l.inst /\ skip.age = l.age /\ skip.now = l.now
      BY <2>1 DEF Loose
    <3>5. req' = [req EXCEPT ![q] = skip]
      BY <3>1
    <3>3. req' \in [Requests -> Loose] /\ Recent'
      <4> HIDE DEF skip
      <4> QED
        BY <3>2, <3>4, <3>5, <2>1, <2>2, <1>6
    <3> QED
      BY <3>1, <3>3, <2>1, <1>1, <1>5 DEF WindowInv, Shape
  <2>4. CASE b[2] # NoSubject
    <3> DEFINE done == [l EXCEPT !.rule = @ + 1, !.allowed = @ /\ passed,
                                 !.retry = IF passed THEN @ ELSE Larger(@, wait)]
    <3>1. b \in StoreBuckets
      BY <2>1, <2>2, <2>4 DEF StoreBuckets
    <3>2. /\ b \in Buckets /\ b[1] = l.rule /\ LimitOf[b] = Limit[l.rule] /\ RowOf(b) \in Rows
          /\ Window[l.rule] \in Nat \ {0}
      BY <3>1, BucketTypes, RuleTypes
    <3>3. /\ counter' = [counter EXCEPT ![RowOf(b)] = row]
          /\ IF passed THEN Record(b, row) ELSE UNCHANGED history
          /\ req' = [req EXCEPT ![q].rule = @ + 1, ![q].allowed = @ /\ passed,
                                ![q].retry = IF passed THEN @ ELSE Larger(@, wait)]
      BY <2>4, <1>10 DEF CountAttempt
    <3>4. /\ counter' \in Counters /\ last' \in [Buckets -> Nat \cup {Never}] /\ granted' \in [Buckets -> Nat]
          /\ \A x \in Buckets : Remembered(x)'
          /\ FW!Next \/ UNCHANGED <<last, granted>>
      <4>1. l.now <= clock /\ clock <= l.now + MaxDelay
        BY <2>2, <1>1, <1>2
      <4>2. row = Counted(counter[RowOf(b)], Window[b[1]], l.now)
        BY <3>2
      <4>3. (row.count <= LimitOf[b] /\ Record(b, row)) \/ UNCHANGED history
        BY <3>2, <3>3
      <4> HIDE DEF row, b
      <4> QED
        BY <4>1, <4>2, <4>3, <3>2, <3>3, <2>1, <2>2, Counting
    <3>5. counter'[RowOf(b)] = row /\ row.start \in Nat \cup {Never}
      <4> HIDE DEF row, b
      <4> QED
        BY <3>2, <3>3, <3>4, <1>1 DEF Row
    <3>6. wait \in Int
      <4> HIDE DEF row
      <4> QED
        BY <3>5, <3>2, <2>2 DEF Wait, Larger, Never
    <3>7. req' = [req EXCEPT ![q] = done]
      BY <3>3
    <3>8. done \in Loose
      <4> DEFINE allowed == l.allowed /\ passed
                 retry == IF passed THEN l.retry ELSE Larger(l.retry, wait)
      <4>1. allowed \in BOOLEAN
        OBVIOUS
      <4>2. l.retry \in Int /\ l.rule \in Nat
        BY <2>1 DEF Loose
      <4>3. retry \in Int
        <5> HIDE DEF passed, wait
        <5> QED
          BY <4>2, <3>6 DEF Larger
      <4>4. done = [l EXCEPT !.rule = l.rule + 1, !.allowed = allowed, !.retry = retry]
        OBVIOUS
      <4>5. done = [pc |-> l.pc, rule |-> l.rule + 1, caller |-> l.caller, inst |-> l.inst, now |-> l.now,
                    age |-> l.age, allowed |-> allowed, retry |-> retry, told |-> l.told]
        <5> HIDE DEF allowed, retry, done
        <5> QED
          BY <4>4, <2>1 DEF Loose
      <4> HIDE DEF allowed, retry, done
      <4> QED
        BY <4>1, <4>2, <4>3, <4>5, <2>1 DEF Loose
    <3>9. done.pc = l.pc /\ done.caller = l.caller /\ done.inst = l.inst /\ done.age = l.age /\ done.now = l.now
      BY <2>1 DEF Loose
    <3>10. req' \in [Requests -> Loose] /\ Recent'
      <4> HIDE DEF done
      <4> QED
        BY <3>7, <3>8, <3>9, <2>1, <2>2, <1>6
    <3> QED
      BY <3>4, <3>10, <2>1, <1>1 DEF WindowInv, Shape
  <2> QED
    BY <2>3, <2>4
<1>11. ASSUME NEW q \in Requests, CountFails(q)
       PROVE  WindowInv' /\ (FW!Next \/ UNCHANGED <<last, granted>>)
  <2>1. req' = [req EXCEPT ![q] = Idle] /\ UNCHANGED <<clock, counter, history, until>>
    BY <1>11 DEF CountFails
  <2>2. req' \in [Requests -> Loose] /\ Recent'
    BY <2>1, <1>3, <1>6 DEF Idle
  <2> QED
    BY <2>1, <2>2, <1>1, <1>5 DEF WindowInv, Shape
<1>12. ASSUME NEW q \in Requests, Answer(q)
       PROVE  WindowInv' /\ (FW!Next \/ UNCHANGED <<last, granted>>)
  <2>1. req' = [req EXCEPT ![q] = Idle] /\ UNCHANGED <<clock, counter, history>> /\ req[q].pc = "store"
    BY <1>12 DEF Answer
  <2>2. req' \in [Requests -> Loose] /\ Recent'
    BY <2>1, <1>3, <1>6 DEF Idle
  <2>3. req[q] \in Loose /\ req[q].caller \in Callers
    BY <2>1, <1>1 DEF WindowInv, Recent
  <2>4. until' \in [Callers -> Int]
    <3>1. clock \in Int /\ req[q].retry \in Int /\ until[req[q].caller] \in Int
      BY <2>3, <1>1 DEF Loose
    <3>2. Larger(until[req[q].caller], clock + retryAfterSeconds(req[q].retry)) \in Int
      BY <3>1 DEF Larger, retryAfterSeconds
    <3> QED
      BY <3>2, <1>1, <1>12 DEF Answer
  <2> QED
    BY <2>1, <2>2, <2>4, <1>1, <1>5 DEF WindowInv, Shape
<1>13. ASSUME NEW q \in Requests, AllowLocked(q)
       PROVE  WindowInv' /\ (FW!Next \/ UNCHANGED <<last, granted>>)
  <2> DEFINE l == req[q]
             b == <<0, <<l.inst, l.caller>>>>
             old == counter[RowOf(b)]
             new == old.start = Never \/ l.now - old.start >= Window[0]
             after == IF new THEN [start |-> l.now, count |-> 1] ELSE [old EXCEPT !.count = @ + 1]
  <2>1. l \in Loose /\ l.pc = "memory" /\ UNCHANGED <<clock, until>> /\ req' = [req EXCEPT ![q] = Idle]
    BY <1>1, <1>13 DEF AllowLocked
  <2>2. /\ l.caller \in Callers /\ l.inst \in Instances
        /\ l.age <= MaxDelay /\ l.now + l.age = clock /\ l.now \in Nat /\ l.age \in Nat
    BY <2>1 DEF WindowInv, Recent, Loose
  <2>3. req' \in [Requests -> Loose] /\ Recent'
    BY <2>1, <1>3, <1>6 DEF Idle
  <2>4. b \in MemoryBuckets
    BY <2>2 DEF MemoryBuckets
  <2>5. /\ b \in Buckets /\ b[1] = 0 /\ LimitOf[b] = Limit[0] /\ RowOf(b) \in Rows
        /\ Limit[0] \in Nat \ {0} /\ Window[0] \in Nat \ {0}
    BY <2>4, BucketTypes, RuleTypes
  <2>6. CASE new \/ old.count < Limit[0]
    <3>1. counter' = [counter EXCEPT ![RowOf(b)] = after] /\ Record(b, after)
      BY <2>6, <1>13 DEF AllowLocked
    <3>2. l.now <= clock /\ clock <= l.now + MaxDelay
      BY <2>2, <1>1, <1>2
    <3>3. /\ counter' \in Counters /\ last' \in [Buckets -> Nat \cup {Never}] /\ granted' \in [Buckets -> Nat]
          /\ \A x \in Buckets : Remembered(x)'
          /\ FW!Next \/ UNCHANGED <<last, granted>>
      <4>1. old \in Row
        BY <2>5, <1>1
      <4>2. after = Counted(old, Window[0], l.now) /\ after.count <= Limit[0]
        <5> HIDE DEF old
        <5> QED
          BY <4>1, <2>2, <2>5, <2>6, MemoryCounts
      <4>3. after = Counted(counter[RowOf(b)], Window[b[1]], l.now)
        BY <4>2, <2>5
      <4> HIDE DEF after, b
      <4> QED
        BY <4>2, <4>3, <3>1, <3>2, <2>1, <2>2, <2>5, Counting
    <3> QED
      BY <3>3, <2>1, <2>3, <1>1 DEF WindowInv, Shape
  <2>7. CASE ~(new \/ old.count < Limit[0])
    <3>1. UNCHANGED <<counter, history>>
      BY <2>7, <1>13 DEF AllowLocked
    <3> QED
      BY <3>1, <2>1, <2>3, <1>1, <1>5 DEF WindowInv, Shape
  <2> QED
    BY <2>6, <2>7
<1>14. ASSUME NEW q \in Requests, NEW c \in Callers, Decide(q, c) \/ \E i \in Instances : Allow(q, c, i)
       PROVE  WindowInv' /\ (FW!Next \/ UNCHANGED <<last, granted>>)
  <2>1. UNCHANGED <<clock, counter, history, until>>
    BY <1>14 DEF Decide, Allow
  <2>2. req' \in [Requests -> Loose] /\ Recent'
    <3>1. CASE Decide(q, c)
      <4>1. PICK x \in Loose : x.age = 0 /\ req' = [req EXCEPT ![q] = [x EXCEPT !.pc = "store", !.caller = c, !.now = clock, !.told = until[c]]]
        <5>1. req' = [req EXCEPT ![q] = [Idle EXCEPT !.pc = "store", !.caller = c, !.now = clock, !.told = until[c]]]
          BY <3>1, Zenon DEF Decide
        <5>2. Idle.age = 0
          BY DEF Idle
        <5> QED
          BY <5>1, <5>2, <1>3, Zenon
      <4> DEFINE r == [x EXCEPT !.pc = "store", !.caller = c, !.now = clock, !.told = until[c]]
      <4>2. r \in Loose /\ r.pc = "store" /\ r.caller = c /\ r.now = clock /\ r.age = x.age
        BY <1>1 DEF Loose
      <4>3. req' = [req EXCEPT ![q] = r]
        BY <4>1, Zenon
      <4> HIDE DEF r
      <4>4. r.age <= MaxDelay /\ r.now + r.age = clock /\ clock' = clock
        BY <4>1, <4>2, <2>1, <1>1, <1>2
      <4> QED
        BY <4>2, <4>3, <4>4, <1>6
    <3>2. ASSUME NEW i \in Instances, Allow(q, c, i)
          PROVE  req' \in [Requests -> Loose] /\ Recent'
      <4>1. PICK x \in Loose : x.age = 0 /\ req' = [req EXCEPT ![q] = [x EXCEPT !.pc = "memory", !.caller = c, !.inst = i, !.now = clock]]
        <5>1. req' = [req EXCEPT ![q] = [Idle EXCEPT !.pc = "memory", !.caller = c, !.inst = i, !.now = clock]]
          BY <3>2, Zenon DEF Allow
        <5>2. Idle.age = 0
          BY DEF Idle
        <5> QED
          BY <5>1, <5>2, <1>3, Zenon
      <4> DEFINE r == [x EXCEPT !.pc = "memory", !.caller = c, !.inst = i, !.now = clock]
      <4>2. r \in Loose /\ r.pc = "memory" /\ r.caller = c /\ r.now = clock /\ r.age = x.age /\ r.inst = i
        BY <1>1 DEF Loose
      <4>3. req' = [req EXCEPT ![q] = r]
        BY <4>1, Zenon
      <4> HIDE DEF r
      <4>4. r.age <= MaxDelay /\ r.now + r.age = clock /\ clock' = clock
        BY <4>1, <4>2, <2>1, <1>1, <1>2
      <4> QED
        BY <4>2, <4>3, <4>4, <1>6
    <3> QED
      BY <3>1, <3>2, <1>14
  <2> QED
    BY <2>1, <2>2, <1>1, <1>5 DEF WindowInv, Shape
<1> QED
  BY <1>7, <1>8, <1>9, <1>10, <1>11, <1>12, <1>13, <1>14 DEF Next, Step

-----------------------------------------------------------------------------
\* Whatever Cleanup removes and however late an attempt counts, a counter knows
\* the latest window of its subject, or that window is over for everyone.
THEOREM WindowsRemembered == Spec => []WindowInv
<1>1. Init => WindowInv
  BY InitWindow
<1>2. WindowInv /\ [Next]_vars => WindowInv'
  BY StepWindow
<1> QED
  BY <1>1, <1>2, PTL DEF Spec

\* The store's and the process's limiter open the windows in which a rule grants a
\* subject at least the shortest window of the row apart, and grant at most the
\* rule's limit in each.
THEOREM ImplementsFixedWindow == Spec => Implements
<1>1. Init => FW!Init
  BY DEF Init, FW!Init, FW!Never, Never
<1>2. WindowInv /\ [Next]_vars => [FW!Next]_(FW!vars)
  BY StepWindow DEF FW!vars
<1> QED
  BY <1>1, <1>2, WindowsRemembered, PTL DEF Spec, Implements, FW!Spec

-----------------------------------------------------------------------------
(* Retry-After.                                                             *)

\* How much longer the window of a rule is than the shortest of its row.
Lag(i) == Window[i] - Shortest(i)

\* The rule refuses the caller until its row may start anew, and t is within the lag
\* of the rule and MaxDelay of that.
Exhausted(i, c, t) ==
    /\ Subject(c, i) # NoSubject
    /\ counter[RowOf(<<i, Subject(c, i)>>)].start # Never
    /\ counter[RowOf(<<i, Subject(c, i)>>)].count > Limit[i]
    /\ t <= counter[RowOf(<<i, Subject(c, i)>>)].start + Window[i] + MaxDelay

\* The time t is overdue, or a rule from n on refuses the caller until it is.
Waits(c, t, n) == Overdue(t) \/ \E i \in n .. Rules : Exhausted(i, c, t)

\* A time that a caller was told, knew at its Decide or is about to be told is over,
\* or a rule that the attempt has not counted yet refuses the caller until then.
Told(l) ==
    l.pc = "store" =>
        /\ l.rule >= 1
        /\ l.allowed => Waits(l.caller, l.told, l.rule)
        /\ ~l.allowed => l.retry >= 1
        /\ l.retry >= 1 => Waits(l.caller, l.now + l.retry + MaxDelay, 1)

RetryInv ==
    /\ WindowInv
    /\ \A c \in Callers : Waits(c, until[c], 1)
    /\ \A q \in Requests : Told(req[q])

LEMMA LagTypes ==
    \A i \in RuleIds :
        /\ i \in 0 .. Rules /\ Window[i] \in Nat \ {0} /\ Limit[i] \in Nat \ {0} /\ Lag(i) \in Nat
        /\ Shortest(i) \in Nat \ {0} /\ Window[i] = Shortest(i) + Lag(i)
BY RuleTypes, ShortestWindow DEF Lag

\* A time is overdue when the clock has come to it, but for MaxDelay and a rule's lag.
LEMMA OverdueWhen ==
    ASSUME NEW i \in RuleIds, NEW t \in Int, clock \in Nat, t <= clock + MaxDelay + Lag(i)
    PROVE  Overdue(t)
<1>1. t <= clock + MaxDelay + Window[i] - Shortest(i)
  BY LagTypes, RuleTypes
<1> QED
  BY <1>1 DEF Overdue

LEMMA StaysOverdue ==
    ASSUME NEW t \in Int, clock \in Nat, clock' \in Nat, clock <= clock', Overdue(t)
    PROVE  Overdue(t)'
<1>1. PICK i \in RuleIds : t <= clock + MaxDelay + Window[i] - Shortest(i)
  BY DEF Overdue
<1>2. t <= clock' + MaxDelay + Window[i] - Shortest(i)
  BY <1>1, LagTypes, RuleTypes
<1> QED
  BY <1>2 DEF Overdue

\* An earlier time is over no later.
LEMMA WaitsEarlier ==
    ASSUME WindowInv, NEW c \in Callers, NEW n \in Nat \ {0}, NEW t \in Int, NEW u \in Int, u <= t, Waits(c, t, n)
    PROVE  Waits(c, u, n)
<1>1. clock \in Nat /\ counter \in [Rows -> Row]
  BY DEF WindowInv, Shape
<1>2. CASE Overdue(t)
  <2>1. PICK i \in RuleIds : t <= clock + MaxDelay + Window[i] - Shortest(i)
    BY <1>2 DEF Overdue
  <2>2. u <= clock + MaxDelay + Lag(i)
    BY <1>1, <2>1, LagTypes, RuleTypes
  <2> QED
    BY <1>1, <2>2, OverdueWhen DEF Waits
<1>3. ASSUME NEW i \in n .. Rules, Exhausted(i, c, t) PROVE Waits(c, u, n)
  <2> DEFINE k == RowOf(<<i, Subject(c, i)>>)
  <2>1. i \in RuleIds
    BY RuleTypes DEF RuleIds
  <2>2. <<i, Subject(c, i)>> \in StoreBuckets
    BY <1>3, <2>1 DEF Exhausted, StoreBuckets
  <2>3. counter[k] \in Row /\ counter[k].start \in Nat
    BY <1>1, <1>3, <2>2, BucketTypes DEF Exhausted, Row
  <2>4. t <= counter[k].start + Window[i] + MaxDelay
    BY <1>3 DEF Exhausted
  <2>5. u <= counter[k].start + Window[i] + MaxDelay
    <3> HIDE DEF k
    <3> QED
      BY <2>1, <2>3, <2>4, RuleTypes
  <2> QED
    BY <1>3, <2>5 DEF Exhausted, Waits
<1> QED
  BY <1>2, <1>3 DEF Waits

\* The row that CountAttempt leaves of a row that cannot start anew before t.
LEMMA CountedStaysExhausted ==
    ASSUME NEW row \in Row, NEW window \in Nat, NEW now \in Nat, NEW limit \in Nat,
           NEW t \in Int, row.start # Never, row.count > limit, t <= row.start + window,
           t > now
    PROVE  /\ Counted(row, window, now).start = row.start
           /\ Counted(row, window, now).count = row.count + 1
<1>1. row.start \in Nat /\ row.count \in Nat
  BY DEF Row
<1>2. CASE row.start <= now - window
  BY <1>1, <1>2
<1>3. CASE ~(row.start <= now - window)
  <2>1. Counted(row, window, now) = [row EXCEPT !.count = @ + 1]
    BY <1>3 DEF Counted
  <2>. QED  BY <2>1 DEF Row
<1>. QED  BY <1>2, <1>3

\* The time to wait is until the end of the window that refused.
LEMMA RefusedWaits ==
    ASSUME NEW row \in Row, NEW window \in Nat \ {0}, NEW now \in Nat,
           NEW limit \in Nat \ {0}, ~(Counted(row, window, now).count <= limit)
    PROVE  LET new == Counted(row, window, now) IN
           /\ new.start \in Nat /\ new.count > limit /\ new.start > now - window
           /\ Wait(new, window, now) = new.start + window - now
<1>. DEFINE new == Counted(row, window, now)
<1>1. ~(row.start = Never \/ row.start <= now - window)
  <2>1. CASE row.start = Never \/ row.start <= now - window
    <3>1. new = [start |-> now, count |-> 1]
      BY <2>1 DEF Counted
    <3>2. new.count = 1
      BY <3>1
    <3>. QED  BY <3>2
  <2>. QED  BY <2>1
<1>2. new = [row EXCEPT !.count = @ + 1]
  BY <1>1 DEF Counted
<1>3. new.start = row.start /\ new.count \in Nat /\ row.start \in Nat
  BY <1>1, <1>2 DEF Row
<1>. HIDE DEF new
<1>4. Wait(new, window, now) = new.start + window - now
  BY <1>1, <1>3 DEF Wait, Larger
<1>. QED  BY <1>1, <1>3, <1>4 DEF new

\* No step shortens the time a rule refuses: Cleanup and a new window come after it.
LEMMA StaysExhausted ==
    ASSUME WindowInv, [Next]_vars, NEW c \in Callers, NEW i \in RuleIds, NEW t \in Int, Exhausted(i, c, t)
    PROVE  Exhausted(i, c, t)' \/ Overdue(t)'
<1>. DEFINE b == <<i, Subject(c, i)>>
            k == RowOf(b)
            u == t - MaxDelay - Lag(i)
<1>1. /\ b \in Buckets /\ k \in Rows /\ WindowOf[b] = Shortest(i) /\ MaxDelay \in Nat /\ CleanupAge \in Nat
      /\ CleanupAge >= Window[i] + MaxDelay /\ k[1] = ScopeOf[i]
      /\ Window[i] \in Nat \ {0} /\ Shortest(i) \in Nat \ {0} /\ Limit[i] \in Nat \ {0} /\ Lag(i) \in Nat
      /\ Window[i] = Shortest(i) + Lag(i)
  <2>1. b \in StoreBuckets /\ b[1] = i
    BY DEF StoreBuckets, Exhausted
  <2>2. k[1] = ScopeOf[i]
    BY DEF RowOf
  <2>. QED  BY <2>1, <2>2, BucketTypes, RuleTypes, LagTypes
<1>2. /\ counter[k] \in Row /\ clock \in Nat /\ counter \in [Rows -> Row]
      /\ counter[k].start \in Nat /\ counter[k].start # Never /\ counter[k].count > Limit[i]
  BY <1>1 DEF WindowInv, Shape, Exhausted, Row
<1>3. u \in Int /\ u <= counter[k].start + Shortest(i)
  <2>1. t <= counter[k].start + Window[i] + MaxDelay
    BY DEF Exhausted
  <2>. HIDE DEF k
  <2>. QED  BY <1>1, <1>2, <2>1
<1>4. ASSUME counter'[k] = counter[k] PROVE Exhausted(i, c, t)'
  BY <1>4 DEF Exhausted
<1>5. ASSUME u <= clock, clock' = clock PROVE Overdue(t)'
  <2>1. t <= clock + MaxDelay + Lag(i)
    BY <1>1, <1>2, <1>5
  <2>. QED  BY <1>2, <1>5, <2>1, OverdueWhen DEF Overdue
<1>. HIDE DEF u
<1>6. CASE Cleanup
  <2>1. CASE k \in StoreRows /\ counter[k].start <= clock - CleanupAge
    <3>1. clock' = clock
      BY <1>6 DEF Cleanup
    <3>2. u <= clock
      <4>. HIDE DEF k
      <4>. QED  BY <1>1, <1>2, <1>3, <2>1
    <3>. QED  BY <1>5, <3>1, <3>2
  <2>2. CASE ~(k \in StoreRows /\ counter[k].start <= clock - CleanupAge)
    <3>1. counter'[k] = counter[k]
      BY <1>1, <1>6, <2>2 DEF Cleanup
    <3>. QED  BY <1>4, <3>1
  <2>. QED  BY <2>1, <2>2
<1>7. ASSUME NEW q \in Requests, CountAttempt(q) PROVE Exhausted(i, c, t)' \/ Overdue(t)'
  <2>. DEFINE l == req[q]
              d == <<l.rule, Subject(l.caller, l.rule)>>
              row == Counted(counter[RowOf(d)], Window[l.rule], l.now)
  <2>1. \/ counter' = counter
        \/ d[2] # NoSubject /\ counter' = [counter EXCEPT ![RowOf(d)] = row]
    BY <1>7 DEF CountAttempt
  <2>2. /\ l.pc = "store" /\ l.now \in Nat /\ l.now <= clock /\ clock' = clock /\ l.rule \in RuleIds
        /\ l.caller \in Callers
    <3>1. l.pc = "store" /\ clock' = clock /\ l.rule \in RuleIds
      BY <1>7 DEF CountAttempt
    <3>2. l \in Loose
      BY DEF WindowInv, Shape
    <3>3. l.now \in Nat /\ l.age \in Nat /\ l.now + l.age = clock /\ l.caller \in Callers
      BY <3>1, <3>2 DEF Loose, WindowInv, Recent
    <3>. QED  BY <1>2, <3>1, <3>3
  <2>3. CASE counter' = [counter EXCEPT ![RowOf(d)] = row] /\ RowOf(d) = k /\ d[2] # NoSubject
    <3>1. counter'[k] = Counted(counter[k], Window[l.rule], l.now)
      BY <1>1, <1>2, <2>3
    <3>2. Window[l.rule] \in Nat /\ Shortest(i) <= Window[l.rule]
      <4>1. d \in StoreBuckets
        BY <2>2, <2>3 DEF StoreBuckets
      <4>2. d \in Buckets /\ WindowOf[b] <= Window[d[1]]
        BY <1>1, <2>3, <4>1, BucketTypes
      <4>. QED  BY <1>1, <2>2, <4>2, LagTypes
    <3>3. CASE u > l.now
      <4>1. u <= counter[k].start + Window[l.rule]
        <5>. HIDE DEF k
        <5>. QED  BY <1>1, <1>2, <1>3, <3>2
      <4>2. counter'[k].start = counter[k].start /\ counter'[k].count = counter[k].count + 1
        <5>1. Limit[i] \in Nat
          BY <1>1
        <5>. HIDE DEF k
        <5>. QED  BY <1>2, <1>3, <2>2, <3>1, <3>2, <3>3, <4>1, <5>1, CountedStaysExhausted
      <4>3. counter'[k].start # Never /\ counter'[k].count > Limit[i]
            /\ t <= counter'[k].start + Window[i] + MaxDelay
        <5>1. counter[k].count \in Nat /\ t <= counter[k].start + Window[i] + MaxDelay
          BY <1>2 DEF Exhausted, Row
        <5>. HIDE DEF k
        <5>. QED  BY <1>1, <1>2, <4>2, <5>1
      <4>4. Subject(c, i) # NoSubject
        BY DEF Exhausted
      <4>. QED  BY <4>3, <4>4 DEF Exhausted
    <3>4. CASE ~(u > l.now)
      <4>1. u <= clock
        BY <1>2, <1>3, <2>2, <3>4
      <4>. QED  BY <1>5, <2>2, <4>1
    <3>. QED  BY <3>3, <3>4
  <2>4. CASE counter' = [counter EXCEPT ![RowOf(d)] = row] /\ RowOf(d) # k
    <3>1. counter'[k] = counter[k]
      BY <1>1, <1>2, <2>4
    <3>. QED  BY <1>4, <3>1
  <2>5. CASE counter' = counter
    BY <1>4, <2>5
  <2>. QED  BY <2>1, <2>3, <2>4, <2>5
<1>8. ASSUME NEW q \in Requests, AllowLocked(q) PROVE Exhausted(i, c, t)' \/ Overdue(t)'
  <2>. DEFINE d == <<0, <<req[q].inst, req[q].caller>>>>
  <2>1. PICK x : counter' = [counter EXCEPT ![RowOf(d)] = x] \/ counter' = counter
    BY <1>8 DEF AllowLocked
  <2>2. RowOf(d) # k
    <3>1. RowOf(d)[1] = ScopeOf[0]
      BY DEF RowOf
    <3>. HIDE DEF d, k
    <3>. QED  BY <1>1, <3>1, RuleTypes
  <2>3. counter'[k] = counter[k]
    <3>. HIDE DEF d, k
    <3>. QED  BY <1>1, <1>2, <2>1, <2>2
  <2>. QED  BY <1>4, <2>3
<1>9. CASE UNCHANGED counter
  BY <1>4, <1>9
<1>. QED
  BY <1>6, <1>7, <1>8, <1>9 DEF Next, Step, vars, history, Tick, CountFails, Answer, Decide, Allow

LEMMA StaysWaiting ==
    ASSUME WindowInv, [Next]_vars, NEW c \in Callers, NEW n \in Nat \ {0}, NEW t \in Int, Waits(c, t, n)
    PROVE  Waits(c, t, n)'
<1>1. clock \in Nat /\ (clock' = clock \/ clock' = clock + 1)
  BY DEF WindowInv, Shape, Next, Step, vars, history, Tick, Cleanup, CountAttempt, CountFails, Answer, AllowLocked,
         Decide, Allow
<1>2. CASE Overdue(t)
  BY <1>1, <1>2, StaysOverdue DEF Waits
<1>3. ASSUME NEW i \in n .. Rules, Exhausted(i, c, t) PROVE Waits(c, t, n)'
  <2>1. i \in RuleIds
    BY BucketTypes DEF RuleIds
  <2>. QED  BY <1>3, <2>1, StaysExhausted DEF Waits
<1>. QED  BY <1>2, <1>3 DEF Waits

LEMMA ToldOf ==
    ASSUME NEW q \in Requests, NEW m, m = req'[q], Told(m)'
    PROVE  Told(req[q])'
BY DEF Told, Waits, Overdue, Exhausted

\* What an attempt knows stays right in every step that leaves the attempt alone.
LEMMA StaysTold ==
    ASSUME RetryInv, [Next]_vars, NEW q \in Requests,
           req'[q].pc = req[q].pc, req'[q].rule = req[q].rule, req'[q].allowed = req[q].allowed,
           req'[q].caller = req[q].caller, req'[q].now = req[q].now, req'[q].retry = req[q].retry,
           req'[q].told = req[q].told
    PROVE  Told(req[q])'
<1>1. PICK l \in Loose : l = req[q]
  BY DEF RetryInv, WindowInv, Shape
<1>2. PICK m : m = req'[q]
  OBVIOUS
<1>3. Told(l) /\ (l.pc # "idle" => l.caller \in Callers)
  BY <1>1 DEF RetryInv, WindowInv, Recent
<1>4. /\ m.pc = l.pc /\ m.rule = l.rule /\ m.allowed = l.allowed /\ m.caller = l.caller
      /\ m.now = l.now /\ m.retry = l.retry /\ m.told = l.told
  BY <1>1, <1>2
<1>5. CASE l.pc = "store"
  <2>1. /\ l.rule \in Nat \ {0} /\ l.told \in Int /\ l.now + l.retry + MaxDelay \in Int /\ l.caller \in Callers
    BY <1>3, <1>5, RuleTypes DEF Told, Loose
  <2>2. l.allowed => Waits(l.caller, l.told, l.rule)'
    BY <1>3, <1>5, <2>1, StaysWaiting DEF Told, RetryInv
  <2>3. l.retry >= 1 => Waits(l.caller, l.now + l.retry + MaxDelay, 1)'
    BY <1>3, <1>5, <2>1, StaysWaiting DEF Told, RetryInv
  <2>4. Told(m)'
    BY <1>3, <1>4, <1>5, <2>2, <2>3 DEF Told
  <2>. QED  BY <1>2, <2>4, ToldOf
<1>6. CASE l.pc # "store"
  BY <1>1, <1>6 DEF Told
<1>. QED  BY <1>5, <1>6

\* CountAttempt: a rule that lets the attempt pass is not the one that makes its
\* caller wait, and one that refuses it makes the caller wait to the window's end.
LEMMA CountTold ==
    ASSUME RetryInv, [Next]_vars, NEW q \in Requests, CountAttempt(q)
    PROVE  Told(req[q])'
<1>1. PICK l \in Loose : l = req[q]
  BY DEF RetryInv, WindowInv, Shape
<1>2. PICK m : m = req'[q]
  OBVIOUS
<1>. DEFINE i == l.rule
            subject == Subject(l.caller, i)
            k == RowOf(<<i, subject>>)
            row == Counted(counter[k], Window[i], l.now)
            passed == row.count <= Limit[i]
            wait == Wait(row, Window[i], l.now)
<1>3. l.pc = "store" /\ i \in RuleIds /\ clock' = clock
  BY <1>1 DEF CountAttempt
<1>4. Told(l) /\ req \in [Requests -> Loose] /\ Rules \in Nat /\ clock \in Nat
  BY <1>1, BucketTypes DEF RetryInv, WindowInv, Shape
<1>5. /\ l.caller \in Callers /\ l.now \in Nat /\ l.age \in Nat /\ l.now + l.age = clock
  BY <1>1, <1>3 DEF RetryInv, WindowInv, Recent, Loose
<1>6. l.retry \in Int /\ l.told \in Int /\ i \in Nat \ {0} /\ i + 1 \in Nat \ {0} /\ i \in 0 .. Rules
  BY <1>3, <1>4 DEF Loose, RuleIds
<1>7. /\ l.allowed => Waits(l.caller, l.told, i)
      /\ ~l.allowed => l.retry >= 1
      /\ l.retry >= 1 => Waits(l.caller, l.now + l.retry + MaxDelay, 1)
  BY <1>3, <1>4 DEF Told
<1>8. l.retry >= 1 => Waits(l.caller, l.now + l.retry + MaxDelay, 1)'
  BY <1>5, <1>6, <1>7, RuleTypes, StaysWaiting DEF RetryInv
<1>9. ASSUME l.allowed, \A x \in RuleIds : x = i /\ Exhausted(x, l.caller, l.told) => Overdue(l.told)
      PROVE  Waits(l.caller, l.told, i + 1)'
  <2>1. Waits(l.caller, l.told, i + 1)
    BY <1>3, <1>4, <1>6, <1>7, <1>9 DEF Waits, RuleIds
  <2>. QED  BY <1>5, <1>6, <2>1, StaysWaiting DEF RetryInv
<1>10. CASE subject = NoSubject
  <2>1. req' = [req EXCEPT ![q].rule = @ + 1]
    BY <1>1, <1>10 DEF CountAttempt
  <2>2. /\ m.pc = "store" /\ m.rule = i + 1 /\ m.caller = l.caller /\ m.now = l.now /\ m.told = l.told
        /\ m.allowed = l.allowed /\ m.retry = l.retry
    BY <1>1, <1>2, <1>3, <1>4, <2>1 DEF Loose
  <2>3. l.allowed => Waits(l.caller, l.told, i + 1)'
    BY <1>9, <1>10 DEF Exhausted
  <2>4. Told(m)'
    BY <1>6, <1>7, <1>8, <2>2, <2>3 DEF Told
  <2>. QED  BY <1>2, <2>4, ToldOf
<1>11. CASE subject # NoSubject
  <2>1. <<i, subject>> \in StoreBuckets
    BY <1>3, <1>5, <1>11 DEF StoreBuckets
  <2>2. /\ k \in Rows /\ Limit[i] \in Nat \ {0} /\ Window[i] \in Nat \ {0} /\ MaxDelay \in Nat
        /\ Shortest(i) \in Nat /\ Lag(i) \in Nat /\ Window[i] = Shortest(i) + Lag(i)
    BY <1>3, <2>1, BucketTypes, RuleTypes, LagTypes
  <2>3. counter[k] \in Row /\ counter \in [Rows -> Row]
    BY <2>2 DEF RetryInv, WindowInv, Shape
  <2>4. counter' = [counter EXCEPT ![k] = row]
    BY <1>1, <1>11 DEF CountAttempt
  <2>5. counter'[k] = row
    BY <2>2, <2>3, <2>4
  <2>6. req' = [req EXCEPT ![q].rule = l.rule + 1, ![q].allowed = l.allowed /\ passed,
                           ![q].retry = IF passed THEN l.retry ELSE Larger(l.retry, wait)]
    BY <1>1, <1>11 DEF CountAttempt
  <2>7. /\ m.pc = "store" /\ m.rule = i + 1 /\ m.caller = l.caller /\ m.now = l.now /\ m.told = l.told
        /\ m.allowed = (l.allowed /\ passed)
        /\ m.retry = IF passed THEN l.retry ELSE Larger(l.retry, wait)
    BY <1>1, <1>2, <1>3, <1>4, <2>6 DEF Loose
  <2>8. CASE passed
    <3>1. m.allowed = l.allowed /\ m.retry = l.retry
      BY <1>1, <2>7, <2>8 DEF Loose
    <3>2. l.allowed => Waits(l.caller, l.told, i + 1)'
      <4>. DEFINE u == l.told - MaxDelay - Lag(i)
      <4>1. ASSUME Exhausted(i, l.caller, l.told), u > l.now PROVE FALSE
        <5>1. counter[k].start # Never /\ counter[k].count > Limit[i]
              /\ l.told <= counter[k].start + Window[i] + MaxDelay
          BY <4>1 DEF Exhausted
        <5>2. counter[k].start \in Nat /\ counter[k].count \in Nat
          BY <2>3, <5>1 DEF Row
        <5>. HIDE DEF k
        <5>3. u \in Int /\ u <= counter[k].start + Window[i]
          BY <1>6, <2>2, <5>1, <5>2
        <5>4. Window[i] \in Nat /\ Limit[i] \in Nat
          BY <2>2
        <5>. HIDE DEF u
        <5>5. row.count = counter[k].count + 1
          BY <1>5, <2>3, <4>1, <5>1, <5>3, <5>4, CountedStaysExhausted
        <5>. QED  BY <2>8, <5>1, <5>2, <5>4, <5>5
      <4>2. ASSUME Exhausted(i, l.caller, l.told) PROVE Overdue(l.told)
        <5>1. u <= l.now /\ l.now <= clock
          BY <1>4, <1>5, <1>6, <2>2, <4>1, <4>2
        <5>2. l.told <= clock + MaxDelay + Lag(i)
          BY <1>4, <1>5, <1>6, <2>2, <5>1
        <5>. QED  BY <1>3, <1>4, <1>6, <5>2, OverdueWhen
      <4>. QED  BY <1>9, <4>2
    <3>3. Told(m)'
      BY <1>6, <1>7, <1>8, <2>7, <3>1, <3>2 DEF Told
    <3>. QED  BY <1>2, <3>3, ToldOf
  <2>9. CASE ~passed
    <3>1. PICK w : w = wait
      OBVIOUS
    <3>2. /\ row.start \in Nat /\ row.count > Limit[i] /\ row.start > l.now - Window[i]
          /\ w = row.start + Window[i] - l.now
      BY <1>5, <2>2, <2>3, <2>9, <3>1, RefusedWaits
    <3>3. m.retry = Larger(l.retry, w)
      BY <2>7, <2>9, <3>1
    <3>4. ~m.allowed
      BY <2>7, <2>9
    <3>. HIDE DEF row, wait, k
    <3>5. w \in Int /\ w >= 1
      BY <1>5, <2>2, <3>2
    <3>6. Exhausted(i, l.caller, l.now + w + MaxDelay)'
      <4>1. l.now + w + MaxDelay <= row.start + Window[i] + MaxDelay
        BY <1>5, <2>2, <3>2
      <4>2. row.start # Never
        BY <3>2 DEF Never
      <4>. QED  BY <1>11, <2>5, <3>2, <4>1, <4>2 DEF Exhausted, k
    <3>7. Waits(l.caller, l.now + w + MaxDelay, 1)'
      BY <1>3, <3>6 DEF Waits, RuleIds
    <3>8. m.retry >= 1 /\ (m.retry = l.retry \/ m.retry = w)
      BY <1>6, <3>3, <3>5 DEF Larger
    <3>9. Told(m)'
      <4>1. Waits(l.caller, l.now + m.retry + MaxDelay, 1)'
        <5>1. CASE m.retry = l.retry
          BY <1>8, <3>8, <5>1
        <5>2. CASE m.retry = w
          BY <3>7, <5>2
        <5>. QED  BY <3>8, <5>1, <5>2
      <4>. QED  BY <1>6, <2>7, <3>4, <3>8, <4>1 DEF Told
    <3>. QED  BY <1>2, <3>9, ToldOf
  <2>. QED  BY <2>8, <2>9
<1>. QED  BY <1>10, <1>11

LEMMA RetryStep == RetryInv /\ [Next]_vars => RetryInv'
<1>. SUFFICES ASSUME RetryInv, [Next]_vars PROVE RetryInv'
  OBVIOUS
<1>0. /\ req \in [Requests -> Loose] /\ until \in [Callers -> Int] /\ clock \in Nat /\ Rules \in Nat
  BY BucketTypes DEF RetryInv, WindowInv, Shape
<1>1. WindowInv'
  BY StepWindow DEF RetryInv
<1>2. ASSUME NEW c \in Callers PROVE Waits(c, until[c], 1)'
  <2>1. PICK t \in Int : t = until[c]
    BY <1>0
  <2>2. Waits(c, t, 1)'
    BY <2>1, StaysWaiting DEF RetryInv
  <2>3. CASE until'[c] = until[c]
    BY <2>1, <2>2, <2>3 DEF Waits, Overdue, Exhausted
  <2>4. CASE until'[c] # until[c]
    <3>1. PICK q \in Requests : Answer(q)
      BY <2>4 DEF Next, Step, vars, history, Tick, Cleanup, CountAttempt, CountFails, AllowLocked, Decide, Allow
    <3>2. PICK l \in Loose : l = req[q]
      BY <1>0
    <3>3. /\ l.pc = "store" /\ ~l.allowed /\ c = l.caller
          /\ until'[c] = Larger(t, clock + retryAfterSeconds(l.retry))
      BY <1>0, <2>1, <2>4, <3>1, <3>2 DEF Answer
    <3>4. l.retry >= 1 /\ Waits(c, l.now + l.retry + MaxDelay, 1)
      BY <3>2, <3>3 DEF RetryInv, Told
    <3>5. /\ l.now \in Nat /\ l.retry \in Int /\ MaxDelay \in Nat /\ l.age \in Nat
          /\ l.age <= MaxDelay /\ l.now + l.age = clock
      BY <3>2, <3>3, RuleTypes DEF Loose, RetryInv, WindowInv, Recent
    <3>6. retryAfterSeconds(l.retry) = l.retry
      BY <3>4, <3>5 DEF retryAfterSeconds, Larger
    <3>7. Waits(c, clock + l.retry, 1)
      <4>1. clock + l.retry <= l.now + l.retry + MaxDelay /\ clock + l.retry \in Int /\ l.now + l.retry + MaxDelay \in Int
        BY <1>0, <3>5
      <4>. QED  BY <3>4, <4>1, WaitsEarlier DEF RetryInv
    <3>8. PICK v \in Int : v = clock + l.retry
      BY <1>0, <3>5
    <3>9. Waits(c, v, 1)'
      BY <3>7, <3>8, StaysWaiting DEF RetryInv
    <3>10. until'[c] = t \/ until'[c] = v
      BY <3>3, <3>6, <3>8 DEF Larger
    <3>. QED  BY <2>2, <3>9, <3>10 DEF Waits, Overdue, Exhausted
  <2>. QED  BY <2>3, <2>4
<1>3. ASSUME NEW p \in Requests PROVE Told(req[p])'
  <2>1. CASE req'[p] = req[p]
    BY <2>1, StaysTold
  <2>2. CASE Tick
    <3>1. req'[p] = req[p] \/ req'[p] = [req[p] EXCEPT !.age = @ + 1]
      BY <2>2 DEF Tick
    <3>2. /\ req'[p].pc = req[p].pc /\ req'[p].rule = req[p].rule /\ req'[p].allowed = req[p].allowed
          /\ req'[p].caller = req[p].caller /\ req'[p].now = req[p].now /\ req'[p].retry = req[p].retry
          /\ req'[p].told = req[p].told
      BY <1>0, <3>1 DEF Loose
    <3>. QED  BY <3>2, StaysTold
  <2>3. ASSUME NEW q \in Requests, CountAttempt(q) PROVE Told(req[p])'
    <3>1. CASE p = q
      BY <2>3, <3>1, CountTold
    <3>2. CASE p # q
      BY <1>0, <2>1, <2>3, <3>2 DEF CountAttempt
    <3>. QED  BY <3>1, <3>2
  <2>4. ASSUME NEW q \in Requests, req' = [req EXCEPT ![q] = Idle] PROVE Told(req[p])'
    <3>1. CASE p = q
      <4>1. req'[p].pc = "idle"
        BY <1>0, <2>4, <3>1 DEF Idle
      <4>. QED  BY <4>1 DEF Told
    <3>2. CASE p # q
      BY <1>0, <2>1, <2>4, <3>2
    <3>. QED  BY <3>1, <3>2
  <2>5. ASSUME NEW q \in Requests, NEW c \in Callers, NEW i \in Instances, Allow(q, c, i) PROVE Told(req[p])'
    <3>1. CASE p = q
      <4>1. req'[p].pc = "memory"
        BY <1>0, <2>5, <3>1 DEF Allow, Idle
      <4>. QED  BY <4>1 DEF Told
    <3>2. CASE p # q
      BY <1>0, <2>1, <2>5, <3>2 DEF Allow
    <3>. QED  BY <3>1, <3>2
  <2>6. ASSUME NEW q \in Requests, NEW c \in Callers, Decide(q, c) PROVE Told(req[p])'
    <3>1. CASE p = q
      <4>1. PICK t \in Int : t = until[c]
        BY <1>0
      <4>2. PICK m : m = req'[q]
        OBVIOUS
      <4>3. m.pc = "store" /\ m.rule = 1 /\ m.allowed = TRUE /\ m.retry = 0 /\ m.caller = c /\ m.told = t
        BY <1>0, <2>6, <4>1, <4>2 DEF Decide, Idle
      <4>4. Waits(c, t, 1)'
        BY <4>1, StaysWaiting DEF RetryInv
      <4>5. Told(m)'
        BY <4>3, <4>4 DEF Told
      <4>. QED  BY <3>1, <4>2, <4>5, ToldOf
    <3>2. CASE p # q
      BY <1>0, <2>1, <2>6, <3>2 DEF Decide
    <3>. QED  BY <3>1, <3>2
  <2>. QED
    BY <2>1, <2>2, <2>3, <2>4, <2>5, <2>6
    DEF Next, Step, vars, Cleanup, CountFails, Answer, AllowLocked
<1>. QED  BY <1>1, <1>2, <1>3 DEF RetryInv

\* allow answers a refused attempt with a Retry-After: whatever Cleanup removes and
\* other attempts count in the meantime, an attempt that begins after the answer
\* passes every rule of the store limiter only when that time is overdue, but for the
\* delay of the answer and for a rule with a longer window than another of its row.
THEOREM RetryAfterHonest == Spec => []RetryHonest
<1>1. Init => RetryInv
  <2>. SUFFICES ASSUME Init PROVE RetryInv
    OBVIOUS
  <2>1. \A c \in Callers : Waits(c, until[c], 1)
    <3>1. 1 \in RuleIds /\ 0 <= clock + MaxDelay + Lag(1) /\ clock \in Nat
      <4>1. 1 \in RuleIds
        BY RuleTypes DEF RuleIds
      <4>. QED  BY <4>1, LagTypes, RuleTypes DEF Init
    <3>2. Overdue(0)
      BY <3>1, OverdueWhen
    <3>. QED  BY <3>2 DEF Init, Waits
  <2>2. \A q \in Requests : Told(req[q])
    BY DEF Init, Idle, Told
  <2>. QED  BY <2>1, <2>2, InitWindow DEF RetryInv
<1>2. RetryInv => RetryHonest
  <2>. SUFFICES ASSUME RetryInv, NEW q \in Requests, req[q].pc = "store", req[q].rule = Rules + 1, req[q].allowed
                PROVE  Overdue(req[q].told)
    BY DEF RetryHonest
  <2>1. Waits(req[q].caller, req[q].told, Rules + 1)
    BY DEF RetryInv, Told
  <2>2. (Rules + 1) .. Rules = {}
    BY BucketTypes
  <2>. QED  BY <2>1, <2>2 DEF Waits
<1>. QED  BY <1>1, <1>2, RetryStep, PTL DEF Spec

-----------------------------------------------------------------------------
(* The types, with the bounds of a run.                                     *)

\* The grants are numbered while they are finitely many.
TypeInv == TypeOK /\ IsFiniteSet(taken)

LEMMA NumberTypes ==
    /\ MaxTime \in Nat /\ MaxAttempts \in Nat /\ MaxDelay \in Nat /\ Rules \in Nat \ {0}
    /\ Time \subseteq Nat /\ 0 \in Time
BY RateLimitAssumption DEF Time

LEMMA IdleAttempt == Idle \in Attempt /\ Idle.pc = "idle" /\ Idle.age = 0
BY NumberTypes DEF Idle, Attempt

\* The history of one more grant.
LEMMA RecordTypes ==
    ASSUME TypeInv, NEW b \in Buckets, NEW row \in Counter, row.start # Never, Record(b, row)
    PROVE  /\ last' \in [Buckets -> Time \cup {Never}] /\ granted' \in [Buckets -> Nat]
           /\ taken' \subseteq [bucket : Buckets, start : Time, nth : Nat, at : Time] /\ IsFiniteSet(taken')
<1>1. row.start \in Time
  BY DEF Counter
<1>2. /\ last \in [Buckets -> Time \cup {Never}] /\ granted \in [Buckets -> Nat]
      /\ clock \in Time /\ taken \subseteq [bucket : Buckets, start : Time, nth : Nat, at : Time]
      /\ IsFiniteSet(taken)
  BY DEF TypeInv, TypeOK
<1>3. IsFiniteSet(GrantsOf(b))
  BY <1>2, FS_Subset DEF GrantsOf
<1>. DEFINE g == [bucket |-> b, start |-> row.start, nth |-> Cardinality(GrantsOf(b)), at |-> clock]
<1>4. g \in [bucket : Buckets, start : Time, nth : Nat, at : Time]
  BY <1>1, <1>2, <1>3, FS_CardinalityType
<1>5. taken' = taken \cup {g}
  BY DEF Record
<1>. HIDE DEF g
<1>6. taken' \subseteq [bucket : Buckets, start : Time, nth : Nat, at : Time] /\ IsFiniteSet(taken')
  BY <1>2, <1>4, <1>5, FS_AddElement
<1>7. granted' \in [Buckets -> Nat]
  BY <1>2 DEF Record
<1>. QED  BY <1>1, <1>2, <1>6, <1>7 DEF Record

\* A counter with one more attempt, which is granted or refused.
LEMMA CountingTypes ==
    ASSUME TypeInv, NEW b \in Buckets, NEW row \in Counter, row.start # Never, row.count \in Nat \ {0},
           counter' = [counter EXCEPT ![RowOf(b)] = row], Record(b, row) \/ UNCHANGED history
    PROVE  /\ counter' \in [Rows -> Counter]
           /\ \A k \in Rows : (counter'[k].start = Never) <=> (counter'[k].count = 0)
           /\ last' \in [Buckets -> Time \cup {Never}] /\ granted' \in [Buckets -> Nat]
           /\ taken' \subseteq [bucket : Buckets, start : Time, nth : Nat, at : Time] /\ IsFiniteSet(taken')
<1>1. /\ counter \in [Rows -> Counter] /\ \A k \in Rows : (counter[k].start = Never) <=> (counter[k].count = 0)
      /\ last \in [Buckets -> Time \cup {Never}] /\ granted \in [Buckets -> Nat]
      /\ taken \subseteq [bucket : Buckets, start : Time, nth : Nat, at : Time] /\ IsFiniteSet(taken)
  BY DEF TypeInv, TypeOK
<1>2. /\ counter' \in [Rows -> Counter]
      /\ \A k \in Rows : (counter'[k].start = Never) <=> (counter'[k].count = 0)
  BY <1>1
<1>3. CASE Record(b, row)
  BY <1>2, <1>3, RecordTypes
<1>4. CASE UNCHANGED history
  BY <1>1, <1>2, <1>4 DEF history
<1>. QED  BY <1>3, <1>4

LEMMA CountedType ==
    ASSUME NEW row \in Counter, NEW window \in Nat, NEW now \in Time,
           (row.start = Never) <=> (row.count = 0)
    PROVE  /\ Counted(row, window, now) \in Counter /\ Counted(row, window, now).start # Never
           /\ Counted(row, window, now).count \in Nat \ {0}
<1>1. now # Never
  BY NumberTypes DEF Never
<1>2. row.start \in Time \cup {Never} /\ row.count \in Nat
  BY DEF Counter
<1>3. CASE row.start = Never \/ row.start <= now - window
  BY <1>1, <1>3 DEF Counted, Counter
<1>4. CASE ~(row.start = Never \/ row.start <= now - window)
  <2>1. Counted(row, window, now) = [row EXCEPT !.count = @ + 1]
    BY <1>4 DEF Counted
  <2>. QED  BY <1>2, <1>4, <2>1 DEF Counter
<1>. QED  BY <1>3, <1>4

LEMMA InitTypes == Init => TypeInv
<1>. SUFFICES ASSUME Init PROVE TypeInv
  OBVIOUS
<1>1. /\ clock \in Time /\ begun \in 0 .. MaxAttempts /\ limiter \in Limiters
      /\ last \in [Buckets -> Time \cup {Never}] /\ granted \in [Buckets -> Nat] /\ until \in [Callers -> Nat]
      /\ taken = {} /\ IsFiniteSet(taken)
  BY NumberTypes, FS_EmptySet DEF Init
<1>2. req \in [Requests -> Attempt]
  BY IdleAttempt DEF Init
<1>3. NoCounter \in Counter /\ NoCounter.start = Never /\ NoCounter.count = 0
  BY DEF NoCounter, Counter
<1>4. counter \in [Rows -> Counter] /\ \A k \in Rows : counter[k] = NoCounter
  BY <1>3 DEF Init
<1>. QED  BY <1>1, <1>2, <1>3, <1>4 DEF TypeInv, TypeOK

LEMMA TypeStep == TypeInv /\ WindowInv /\ [Next]_vars => TypeInv'
<1>. SUFFICES ASSUME TypeInv, WindowInv, [Next]_vars PROVE TypeInv'
  OBVIOUS
<1>0. /\ limiter \in Limiters /\ clock \in Time /\ begun \in 0 .. MaxAttempts
      /\ counter \in [Rows -> Counter] /\ req \in [Requests -> Attempt] /\ until \in [Callers -> Nat]
      /\ \A k \in Rows : (counter[k].start = Never) <=> (counter[k].count = 0)
  BY DEF TypeInv, TypeOK
<1>1. limiter' = limiter
  BY DEF Next, vars
<1>2. ASSUME NEW q \in Requests, NEW r \in Attempt, req' = [req EXCEPT ![q] = r]
      PROVE  req' \in [Requests -> Attempt]
  BY <1>0, <1>2
<1>3. ASSUME UNCHANGED <<counter, history>>, clock' \in Time, begun' \in 0 .. MaxAttempts,
             req' \in [Requests -> Attempt], until' \in [Callers -> Nat]
      PROVE  TypeInv'
  BY <1>1, <1>3 DEF TypeInv, TypeOK, history
<1>4. CASE UNCHANGED vars
  BY <1>0, <1>3, <1>4 DEF vars, history
<1>5. CASE Tick
  <2>1. clock' \in Time
    BY <1>0, <1>5, NumberTypes DEF Tick, Time
  <2>2. req' \in [Requests -> Attempt]
    <3>. SUFFICES ASSUME NEW q \in Requests PROVE req'[q] \in Attempt
      BY <1>5 DEF Tick
    <3>1. req[q] \in Attempt /\ req[q].age < MaxDelay
      BY <1>0, <1>5 DEF Tick
    <3>2. req'[q] = req[q] \/ req'[q] = [req[q] EXCEPT !.age = @ + 1]
      BY <1>5 DEF Tick
    <3>3. req[q].age + 1 \in 0 .. MaxDelay
      BY <3>1, NumberTypes DEF Attempt
    <3>. QED  BY <3>1, <3>2, <3>3 DEF Attempt
  <2>. QED  BY <1>0, <1>3, <1>5, <2>1, <2>2 DEF Tick
<1>6. CASE Cleanup
  <2>1. \A k \in Rows : counter'[k] = NoCounter \/ counter'[k] = counter[k]
    BY <1>6 DEF Cleanup
  <2>2. NoCounter \in Counter /\ NoCounter.start = Never /\ NoCounter.count = 0
    BY DEF NoCounter, Counter
  <2>3. /\ counter' \in [Rows -> Counter]
        /\ \A k \in Rows : (counter'[k].start = Never) <=> (counter'[k].count = 0)
    BY <1>0, <1>6, <2>1, <2>2 DEF Cleanup
  <2>. QED  BY <1>1, <1>6, <2>3 DEF Cleanup, TypeInv, TypeOK, history
<1>7. ASSUME NEW q \in Requests, CountAttempt(q) PROVE TypeInv'
  <2>1. PICK l \in Attempt : l = req[q]
    BY <1>0
  <2>. DEFINE b == <<l.rule, Subject(l.caller, l.rule)>>
              row == Counted(counter[RowOf(b)], Window[l.rule], l.now)
              passed == row.count <= Limit[l.rule]
              wait == Wait(row, Window[l.rule], l.now)
  <2>2. /\ l.pc = "store" /\ l.rule \in RuleIds /\ UNCHANGED <<clock, until, begun>>
    BY <1>7, <2>1 DEF CountAttempt
  <2>3. l.rule + 1 \in 1 .. Rules + 1 /\ l.now \in Time /\ l.retry \in Nat
    BY <2>2, NumberTypes DEF RuleIds, Attempt
  <2>4. CASE b[2] = NoSubject
    <3>. DEFINE m == [l EXCEPT !.rule = l.rule + 1]
    <3>1. m \in Attempt
      BY <2>3 DEF Attempt
    <3>2. req' = [req EXCEPT ![q] = m] /\ UNCHANGED <<counter, history>>
      BY <1>7, <2>1, <2>4 DEF CountAttempt
    <3>. HIDE DEF m
    <3>3. req' \in [Requests -> Attempt]
      BY <1>2, <3>1, <3>2
    <3>. QED  BY <1>0, <1>3, <2>2, <3>2, <3>3
  <2>5. CASE b[2] # NoSubject
    <3>1. l.caller \in Callers
      BY <2>1, <2>2 DEF WindowInv, Recent
    <3>2. b \in Buckets /\ RowOf(b) \in Rows /\ Window[l.rule] \in Nat
      <4>1. b \in StoreBuckets
        BY <2>2, <2>5, <3>1 DEF StoreBuckets
      <4>. QED  BY <2>2, <4>1, BucketTypes, RuleTypes
    <3>3. row \in Counter /\ row.start # Never /\ row.count \in Nat \ {0}
      BY <1>0, <2>3, <3>2, CountedType
    <3>4. counter' = [counter EXCEPT ![RowOf(b)] = row] /\ (Record(b, row) \/ UNCHANGED history)
      BY <1>7, <2>1, <2>5 DEF CountAttempt
    <3>6. wait \in Nat
      <4>1. row.start \in Nat /\ l.now \in Nat
        BY <2>3, <3>3, NumberTypes DEF Counter
      <4>. HIDE DEF row
      <4>. QED  BY <3>2, <4>1 DEF Wait, Larger
    <3>7. req' \in [Requests -> Attempt]
      <4>. DEFINE allowed == l.allowed /\ passed
                  retry == IF passed THEN l.retry ELSE Larger(l.retry, wait)
                  m == [l EXCEPT !.rule = @ + 1, !.allowed = @ /\ passed,
                                 !.retry = IF passed THEN @ ELSE Larger(@, wait)]
      <4>1. req' = [req EXCEPT ![q] = m]
        <5>1. req' = [req EXCEPT ![q].rule = @ + 1, ![q].allowed = @ /\ passed,
                                 ![q].retry = IF passed THEN @ ELSE Larger(@, wait)]
          BY <1>7, <2>1, <2>5 DEF CountAttempt
        <5>. QED  BY <2>1, <5>1
      <4>2. allowed \in BOOLEAN
        OBVIOUS
      <4>3. retry \in Nat
        <5>. HIDE DEF passed, wait
        <5>. QED  BY <2>3, <3>6 DEF Larger
      <4>4. m = [l EXCEPT !.rule = l.rule + 1, !.allowed = allowed, !.retry = retry]
        OBVIOUS
      <4>5. m = [pc |-> l.pc, rule |-> l.rule + 1, caller |-> l.caller, inst |-> l.inst, now |-> l.now,
                 age |-> l.age, allowed |-> allowed, retry |-> retry, told |-> l.told]
        <5>. HIDE DEF allowed, retry, m
        <5>. QED  BY <4>4 DEF Attempt
      <4>. HIDE DEF allowed, retry, m
      <4>6. m \in Attempt
        BY <2>3, <4>2, <4>3, <4>5 DEF Attempt
      <4>. QED  BY <1>2, <4>1, <4>6
    <3>. HIDE DEF b, row, passed
    <3>8. /\ counter' \in [Rows -> Counter]
          /\ \A k \in Rows : (counter'[k].start = Never) <=> (counter'[k].count = 0)
          /\ last' \in [Buckets -> Time \cup {Never}] /\ granted' \in [Buckets -> Nat]
          /\ taken' \subseteq [bucket : Buckets, start : Time, nth : Nat, at : Time] /\ IsFiniteSet(taken')
      BY <3>2, <3>3, <3>4, CountingTypes
    <3>. QED  BY <1>0, <1>1, <2>2, <3>7, <3>8 DEF TypeInv, TypeOK
  <2>. QED  BY <2>4, <2>5
<1>8. ASSUME NEW q \in Requests, req' = [req EXCEPT ![q] = Idle] PROVE req' \in [Requests -> Attempt]
  BY <1>2, <1>8, IdleAttempt
<1>9. ASSUME NEW q \in Requests, CountFails(q) PROVE TypeInv'
  BY <1>0, <1>3, <1>8, <1>9 DEF CountFails
<1>10. ASSUME NEW q \in Requests, Answer(q) PROVE TypeInv'
  <2>1. PICK l \in Attempt : l = req[q]
    BY <1>0
  <2>2. l.caller \in Callers
    BY <1>10, <2>1 DEF Answer, WindowInv, Recent
  <2>3. clock \in Nat /\ l.retry \in Nat /\ until[l.caller] \in Nat
    BY <1>0, <2>2, NumberTypes DEF Attempt
  <2>4. Larger(until[l.caller], clock + retryAfterSeconds(l.retry)) \in Nat
    BY <2>3 DEF Larger, retryAfterSeconds
  <2>5. until' \in [Callers -> Nat]
    BY <1>0, <1>10, <2>1, <2>4 DEF Answer
  <2>. QED  BY <1>0, <1>3, <1>8, <1>10, <2>5 DEF Answer
<1>11. ASSUME NEW q \in Requests, AllowLocked(q) PROVE TypeInv'
  <2>1. PICK l \in Attempt : l = req[q]
    BY <1>0
  <2>. DEFINE b == <<0, <<l.inst, l.caller>>>>
              old == counter[RowOf(b)]
              new == old.start = Never \/ l.now - old.start >= Window[0]
              after == IF new THEN [start |-> l.now, count |-> 1] ELSE [old EXCEPT !.count = @ + 1]
  <2>2. l.pc = "memory" /\ req' = [req EXCEPT ![q] = Idle] /\ UNCHANGED <<clock, until, begun>>
    BY <1>11, <2>1 DEF AllowLocked
  <2>3. l.caller \in Callers /\ l.inst \in Instances /\ l.now \in Time
    BY <2>1, <2>2 DEF WindowInv, Recent, Attempt
  <2>4. b \in Buckets /\ RowOf(b) \in Rows
    BY <2>3, BucketTypes DEF MemoryBuckets
  <2>5. after \in Counter /\ after.start # Never /\ after.count \in Nat \ {0}
    <3>1. old \in Counter /\ l.now # Never
      BY <1>0, <2>3, <2>4, NumberTypes DEF Never
    <3>2. CASE new
      BY <2>3, <3>1, <3>2 DEF Counter
    <3>3. CASE ~new
      <4>1. after = [old EXCEPT !.count = @ + 1] /\ old.start # Never
        BY <3>3
      <4>. HIDE DEF after, old
      <4>. QED  BY <3>1, <4>1 DEF Counter
    <3>. QED  BY <3>2, <3>3
  <2>6. CASE counter' = [counter EXCEPT ![RowOf(b)] = after] /\ Record(b, after)
    <3>. HIDE DEF b, after
    <3>1. /\ counter' \in [Rows -> Counter]
          /\ \A k \in Rows : (counter'[k].start = Never) <=> (counter'[k].count = 0)
          /\ last' \in [Buckets -> Time \cup {Never}] /\ granted' \in [Buckets -> Nat]
          /\ taken' \subseteq [bucket : Buckets, start : Time, nth : Nat, at : Time] /\ IsFiniteSet(taken')
      BY <2>4, <2>5, <2>6, CountingTypes
    <3>. QED  BY <1>0, <1>1, <1>8, <2>2, <3>1 DEF TypeInv, TypeOK
  <2>7. CASE UNCHANGED <<counter, history>>
    BY <1>0, <1>3, <1>8, <2>2, <2>7
  <2>. QED  BY <1>11, <2>1, <2>6, <2>7 DEF AllowLocked
<1>12. ASSUME NEW q \in Requests, NEW c \in Callers, Decide(q, c) PROVE TypeInv'
  <2>. DEFINE m == [Idle EXCEPT !.pc = "store", !.caller = c, !.now = clock, !.told = until[c]]
  <2>1. m \in Attempt
    BY <1>0, IdleAttempt DEF Attempt
  <2>2. req' = [req EXCEPT ![q] = m]
    BY <1>12 DEF Decide
  <2>. HIDE DEF m
  <2>3. begun' \in 0 .. MaxAttempts
    BY <1>0, <1>12, NumberTypes DEF Decide
  <2>. QED  BY <1>0, <1>2, <1>3, <1>12, <2>1, <2>2, <2>3 DEF Decide
<1>13. ASSUME NEW q \in Requests, NEW c \in Callers, NEW i \in Instances, Allow(q, c, i) PROVE TypeInv'
  <2>. DEFINE m == [Idle EXCEPT !.pc = "memory", !.caller = c, !.inst = i, !.now = clock]
  <2>1. m \in Attempt
    BY <1>0, IdleAttempt DEF Attempt
  <2>2. req' = [req EXCEPT ![q] = m]
    BY <1>13 DEF Allow
  <2>. HIDE DEF m
  <2>3. begun' \in 0 .. MaxAttempts
    BY <1>0, <1>13, NumberTypes DEF Allow
  <2>. QED  BY <1>0, <1>2, <1>3, <1>13, <2>1, <2>2, <2>3 DEF Allow
<1>. QED  BY <1>4, <1>5, <1>6, <1>7, <1>9, <1>10, <1>11, <1>12, <1>13 DEF Next, Step

-----------------------------------------------------------------------------
(* The grants in a span of real time.                                       *)

\* The grants of b in its window that began at s.
WindowGrants(b, s) == {g \in taken : g.bucket = b /\ g.start = s}

\* The windows of two grants are one, or begin a window apart.
Apart(b, s, t) == s = t \/ s + WindowOf[b] <= t \/ t + WindowOf[b] <= s

\* The grants of b in other windows than that of start s came before it, or at most
\* MaxDelay later: an attempt that opens a window read the clock by then.
Before(s, b) == s # Never => \A g \in GrantsOf(b) : g.start = s \/ g.at <= s + MaxDelay

\* The grants are those of windows that begin a full window apart, at most the
\* limit in each.  They are numbered, so that grants at one time are different.
Spent(b) ==
    /\ last[b] <= clock /\ granted[b] <= LimitOf[b]
    /\ Cardinality(WindowGrants(b, last[b])) <= granted[b]
    /\ \A s \in Time : Cardinality(WindowGrants(b, s)) <= LimitOf[b]
    /\ \A g \in GrantsOf(b) :
          /\ g.start <= last[b] /\ Apart(b, g.start, last[b])
          /\ g.start <= g.at /\ g.at <= clock
    /\ \A g, h \in GrantsOf(b) :
          Apart(b, g.start, h.start) /\ (g.start < h.start => g.at <= h.start + MaxDelay)
    /\ \A g \in GrantsOf(b) : g.nth < Cardinality(GrantsOf(b))
    /\ Before(counter[RowOf(b)].start, b)

BurstInv == TypeInv /\ WindowInv /\ \A b \in Buckets : Spent(b)

\* The sets of grants that a new grant leaves or joins.
LEMMA GrantSets ==
    ASSUME TypeInv
    PROVE  /\ \A b, s : WindowGrants(b, s) \subseteq taken /\ GrantsOf(b) \subseteq taken
           /\ \A b, s : IsFiniteSet(WindowGrants(b, s)) /\ Cardinality(WindowGrants(b, s)) \in Nat
           /\ \A b : IsFiniteSet(GrantsOf(b)) /\ Cardinality(GrantsOf(b)) \in Nat
           /\ \A b : \A g \in GrantsOf(b) : g.start \in Time /\ g.at \in Time
<1>1. \A b, s : WindowGrants(b, s) \subseteq taken /\ GrantsOf(b) \subseteq taken
  BY DEF WindowGrants, GrantsOf
<1>2. IsFiniteSet(taken) /\ taken \subseteq [bucket : Buckets, start : Time, nth : Nat, at : Time]
  BY DEF TypeInv, TypeOK
<1>3. \A S : S \subseteq taken => IsFiniteSet(S) /\ Cardinality(S) \in Nat
  <2>. SUFFICES ASSUME NEW S, S \subseteq taken PROVE IsFiniteSet(S) /\ Cardinality(S) \in Nat
    OBVIOUS
  <2>1. IsFiniteSet(S)
    BY <1>2, FS_Subset
  <2>. QED  BY <2>1, FS_CardinalityType
<1>4. \A b : \A g \in GrantsOf(b) : g.start \in Time /\ g.at \in Time
  BY <1>1, <1>2
<1>. QED  BY <1>1, <1>3, <1>4

LEMMA OneMore ==
    ASSUME NEW S, IsFiniteSet(S), NEW x
    PROVE  /\ Cardinality(S \cup {x}) \in Nat /\ Cardinality(S) \in Nat
           /\ Cardinality(S \cup {x}) <= Cardinality(S) + 1
<1>1. /\ IsFiniteSet(S \cup {x}) /\ Cardinality(S) \in Nat
      /\ Cardinality(S \cup {x}) = IF x \in S THEN Cardinality(S) ELSE Cardinality(S) + 1
  BY FS_AddElement, FS_CardinalityType
<1>. QED  BY <1>1

\* Each grant is one more of its counter.
LEMMA EveryGrantCounts ==
    ASSUME TypeInv, NEW b \in Buckets, Spent(b), NEW g, g.bucket = b, g.nth = Cardinality(GrantsOf(b)),
           taken' = taken \cup {g}
    PROVE  /\ GrantsOf(b)' = GrantsOf(b) \cup {g}
           /\ Cardinality(GrantsOf(b)') = Cardinality(GrantsOf(b)) + 1
           /\ \A h \in GrantsOf(b) \cup {g} : h.nth < Cardinality(GrantsOf(b)')
<1>1. GrantsOf(b)' = GrantsOf(b) \cup {g}
  BY DEF GrantsOf
<1>2. IsFiniteSet(GrantsOf(b)) /\ Cardinality(GrantsOf(b)) \in Nat
  BY GrantSets
<1>3. \A h \in GrantsOf(b) : h.nth \in Nat /\ h.nth < Cardinality(GrantsOf(b))
  BY DEF Spent, TypeInv, TypeOK, GrantsOf
<1>4. g \notin GrantsOf(b)
  BY <1>2, <1>3
<1>5. Cardinality(GrantsOf(b) \cup {g}) = Cardinality(GrantsOf(b)) + 1
  BY <1>2, <1>4, FS_AddElement
<1>6. \A h \in GrantsOf(b) \cup {g} : h.nth < Cardinality(GrantsOf(b)) + 1
  BY <1>2, <1>3
<1>. QED  BY <1>1, <1>5, <1>6

\* One more grant of b, in a window that it opens or in its latest.
LEMMA RecordSpends ==
    ASSUME BurstInv, NEW b \in Buckets, NEW row, row.start \in Time, row.start <= clock, clock' = clock,
           row.start = last[b] => granted[b] < LimitOf[b],
           row.start # last[b] => last[b] = Never \/ last[b] + WindowOf[b] <= row.start,
           Before(row.start, b), Record(b, row), counter'[RowOf(b)].start = row.start
    PROVE  Spent(b)'
<1>0. /\ LimitOf[b] \in Nat \ {0} /\ WindowOf[b] \in Nat \ {0} /\ MaxDelay \in Nat
      /\ last \in [Buckets -> Time \cup {Never}] /\ granted \in [Buckets -> Nat]
      /\ clock \in Nat /\ Time \subseteq Nat /\ Spent(b) /\ TypeInv
  BY BucketTypes, NumberTypes DEF BurstInv, TypeInv, TypeOK
<1>. DEFINE s == row.start
<1>1. PICK g : /\ g.bucket = b /\ g.start = s /\ g.at = clock /\ g.nth = Cardinality(GrantsOf(b))
               /\ taken' = taken \cup {g}
  BY DEF Record
<1>a. \A t \in Time : t \in Nat /\ t # Never
  BY DEF Time, Never
<1>b. last[b] \in Time \/ last[b] = Never
  BY <1>0
<1>2. s \in Time /\ s \in Nat /\ s # Never /\ s <= clock
  BY <1>a
<1>3. /\ last' = [last EXCEPT ![b] = s]
      /\ granted' = [granted EXCEPT ![b] = IF last[b] = s THEN @ + 1 ELSE 1]
  BY DEF Record
<1>4. last'[b] = s /\ granted'[b] = IF last[b] = s THEN granted[b] + 1 ELSE 1
  BY <1>0, <1>3
<1>5. /\ GrantsOf(b)' = GrantsOf(b) \cup {g}
      /\ \A h \in GrantsOf(b) \cup {g} : h.nth < Cardinality(GrantsOf(b)')
  BY <1>0, <1>1, EveryGrantCounts
<1>6. \A t : t # s => WindowGrants(b, t)' = WindowGrants(b, t)
  BY <1>1 DEF WindowGrants
<1>7. WindowGrants(b, s)' = WindowGrants(b, s) \cup {g}
  BY <1>1 DEF WindowGrants
<1>8. /\ Cardinality(WindowGrants(b, s)') <= Cardinality(WindowGrants(b, s)) + 1
      /\ Cardinality(WindowGrants(b, s)') \in Nat /\ Cardinality(WindowGrants(b, s)) \in Nat
  <2>1. IsFiniteSet(WindowGrants(b, s))
    BY <1>0, GrantSets
  <2>. QED  BY <1>7, <2>1, OneMore
<1>9. s = last[b] \/ (s # last[b] /\ \A h \in GrantsOf(b) : h.start + WindowOf[b] <= s)
  <2>. SUFFICES ASSUME s # last[b], NEW h \in GrantsOf(b) PROVE h.start + WindowOf[b] <= s
    OBVIOUS
  <2>1. h.start \in Nat /\ h.start <= last[b]
    BY <1>0, GrantSets DEF Spent
  <2>2. last[b] \in Nat /\ last[b] # Never
    <3>1. last[b] # Never
      BY <2>1 DEF Never
    <3>. QED  BY <1>a, <1>b, <3>1
  <2>3. last[b] + WindowOf[b] <= s
    BY <2>2
  <2>. QED  BY <1>0, <1>2, <2>1, <2>2, <2>3
<1>10. granted'[b] <= LimitOf[b] /\ Cardinality(WindowGrants(b, s)') <= granted'[b] /\ granted'[b] \in Nat
  <2>1. CASE s = last[b]
    <3>1. Cardinality(WindowGrants(b, s)) <= granted[b] /\ granted[b] \in Nat /\ granted[b] < LimitOf[b]
      BY <1>0, <2>1 DEF Spent
    <3>2. granted'[b] = granted[b] + 1
      BY <1>4, <2>1
    <3>. QED  BY <1>0, <1>8, <3>1, <3>2
  <2>2. CASE s # last[b]
    <3>1. WindowGrants(b, s) = {}
      <4>. SUFFICES ASSUME NEW h \in WindowGrants(b, s) PROVE FALSE
        OBVIOUS
      <4>1. h \in GrantsOf(b) /\ h.start = s
        BY DEF WindowGrants, GrantsOf
      <4>. QED  BY <1>0, <1>2, <1>9, <2>2, <4>1
    <3>2. granted'[b] = 1
      BY <1>4, <2>2
    <3>. QED  BY <1>0, <1>8, <3>1, <3>2, FS_EmptySet
  <2>. QED  BY <2>1, <2>2
<1>11. \A h \in GrantsOf(b) : /\ h.start \in Nat /\ h.at \in Nat /\ h.start <= s /\ Apart(b, h.start, s)
                              /\ h.start <= h.at /\ h.at <= clock
  <2>. SUFFICES ASSUME NEW h \in GrantsOf(b)
                PROVE  /\ h.start \in Nat /\ h.at \in Nat /\ h.start <= s /\ Apart(b, h.start, s)
                       /\ h.start <= h.at /\ h.at <= clock
    OBVIOUS
  <2>1. h.start \in Nat /\ h.at \in Nat
    BY <1>0, GrantSets
  <2>2. h.start <= h.at /\ h.at <= clock
    BY <1>0 DEF Spent
  <2>3. CASE s = last[b]
    BY <1>0, <2>1, <2>2, <2>3 DEF Spent
  <2>4. CASE s # last[b]
    <3>1. h.start + WindowOf[b] <= s
      BY <1>9, <2>4
    <3>. HIDE DEF s
    <3>2. h.start <= s
      BY <1>0, <1>2, <2>1, <3>1
    <3>. QED  BY <2>1, <2>2, <3>1, <3>2 DEF Apart
  <2>. QED  BY <2>3, <2>4
<1>12. \A h \in GrantsOf(b) : h.start < s => h.at <= s + MaxDelay
  <2>. SUFFICES ASSUME NEW h \in GrantsOf(b), h.start < s PROVE h.at <= s + MaxDelay
    OBVIOUS
  <2>1. h.start # s
    BY <1>2, <1>11
  <2>. QED  BY <1>2, <2>1 DEF Before
<1>13. \A h, k \in GrantsOf(b) \cup {g} :
          Apart(b, h.start, k.start) /\ (h.start < k.start => h.at <= k.start + MaxDelay)
  <2>. SUFFICES ASSUME NEW h \in GrantsOf(b) \cup {g}, NEW k \in GrantsOf(b) \cup {g}
                PROVE  Apart(b, h.start, k.start) /\ (h.start < k.start => h.at <= k.start + MaxDelay)
    OBVIOUS
  <2>1. CASE h \in GrantsOf(b) /\ k \in GrantsOf(b)
    BY <1>0, <2>1 DEF Spent
  <2>2. CASE h \in GrantsOf(b) /\ k = g
    BY <1>1, <1>11, <1>12, <2>2
  <2>3. CASE h = g /\ k \in GrantsOf(b)
    <3>1. k.start \in Nat /\ k.start <= s /\ Apart(b, k.start, s) /\ h.start = s
      BY <1>1, <1>11, <2>3
    <3>. HIDE DEF s
    <3>. QED  BY <1>2, <3>1 DEF Apart
  <2>4. CASE h = g /\ k = g
    <3>1. h.start = s /\ k.start = s
      BY <1>1, <2>4
    <3>. HIDE DEF s
    <3>. QED  BY <1>2, <3>1 DEF Apart
  <2>. QED  BY <2>1, <2>2, <2>3, <2>4
<1>14. \A t \in Time : Cardinality(WindowGrants(b, t)') <= LimitOf[b]
  <2>1. Cardinality(WindowGrants(b, s)') <= LimitOf[b]
    BY <1>0, <1>8, <1>10
  <2>. QED  BY <1>0, <1>6, <2>1 DEF Spent
<1>15. WindowGrants(b, last[b])' = WindowGrants(b, s)'
  BY <1>4 DEF WindowGrants
<1>16. \A h \in GrantsOf(b)' :
          /\ h.start <= last'[b] /\ Apart(b, h.start, last'[b])
          /\ h.start <= h.at /\ h.at <= clock'
  <2>1. g.start <= s /\ Apart(b, g.start, s) /\ g.start <= g.at /\ g.at <= clock
    BY <1>0, <1>1, <1>2 DEF Apart
  <2>. QED  BY <1>4, <1>5, <1>11, <2>1
<1>17. Before(counter[RowOf(b)].start, b)'
  <2>1. \A h \in GrantsOf(b)' : h.start = s \/ h.at <= s + MaxDelay
    BY <1>1, <1>2, <1>5 DEF Before
  <2>. QED  BY <2>1 DEF Before
<1>18. last'[b] <= clock' /\ granted'[b] <= LimitOf[b] /\ Cardinality(WindowGrants(b, last[b])') <= granted'[b]
  BY <1>2, <1>4, <1>10, <1>15
<1>. QED  BY <1>5, <1>13, <1>14, <1>16, <1>17, <1>18 DEF Spent, Apart

\* A step that grants b nothing, and leaves its row, takes it, or starts it anew.
LEMMA StaysSpent ==
    ASSUME BurstInv, NEW b \in Buckets, last'[b] = last[b], granted'[b] = granted[b],
           GrantsOf(b)' = GrantsOf(b), \A t : WindowGrants(b, t)' = WindowGrants(b, t),
           clock' \in Nat, clock <= clock',
           Before(counter'[RowOf(b)].start, b)
    PROVE  Spent(b)'
<1>1. Spent(b) /\ clock \in Nat /\ last[b] \in Int
  BY DEF BurstInv, WindowInv, Shape, Never
<1>2. WindowGrants(b, last[b])' = WindowGrants(b, last[b])
  BY DEF WindowGrants
<1>3. \A g \in GrantsOf(b) : g.at \in Nat
  BY NumberTypes, GrantSets DEF BurstInv
<1>4. last[b] <= clock' /\ \A g \in GrantsOf(b) : g.at <= clock'
  BY <1>1, <1>3 DEF Spent
<1>5. Before(counter[RowOf(b)].start, b)'
  BY DEF Before
<1>. QED  BY <1>1, <1>2, <1>4, <1>5 DEF Spent, Apart

\* An attempt that counts for b leaves Spent of every bucket.
LEMMA CountSpends ==
    ASSUME BurstInv, NEW b \in Buckets, NEW now \in Nat, now <= clock, clock <= now + MaxDelay,
           NEW row, row = Counted(counter[RowOf(b)], Window[b[1]], now), row.start \in Time,
           counter' = [counter EXCEPT ![RowOf(b)] = row], clock' = clock,
           (row.count <= LimitOf[b] /\ Record(b, row)) \/ UNCHANGED history
    PROVE  \A x \in Buckets : Spent(x)'
<1>0. /\ LimitOf[b] \in Nat \ {0} /\ MaxDelay \in Nat /\ RowOf(b) \in Rows
      /\ last \in [Buckets -> Time \cup {Never}] /\ granted \in [Buckets -> Nat]
      /\ clock \in Nat /\ Time \subseteq Nat /\ TypeInv /\ WindowInv /\ DOMAIN counter = Rows
      /\ \A x \in Buckets : Spent(x)
  BY BucketTypes, NumberTypes DEF BurstInv, TypeInv, TypeOK
<1>1. ASSUME NEW x \in Buckets PROVE Before(counter'[RowOf(x)].start, x)
  <2>1. CASE RowOf(x) = RowOf(b)
    <3>1. counter'[RowOf(x)] = row
      BY <1>0, <2>1
    <3>2. row.start = counter[RowOf(x)].start \/ clock <= row.start + MaxDelay
      BY <1>0, <2>1, CountedKnows
    <3>3. CASE row.start = counter[RowOf(x)].start
      BY <1>0, <3>1, <3>3 DEF Spent
    <3>4. CASE clock <= row.start + MaxDelay
      <4>1. \A g \in GrantsOf(x) : g.at \in Nat /\ g.at <= clock
        BY <1>0, GrantSets DEF Spent
      <4>2. row.start \in Nat /\ clock \in Nat /\ MaxDelay \in Nat
        BY <1>0
      <4>3. \A g \in GrantsOf(x) : g.at <= row.start + MaxDelay
        BY <3>4, <4>1, <4>2
      <4>. QED  BY <3>1, <4>3 DEF Before
    <3>. QED  BY <3>2, <3>3, <3>4
  <2>2. CASE RowOf(x) # RowOf(b)
    <3>1. counter'[RowOf(x)] = counter[RowOf(x)] /\ Spent(x)
      BY <1>0, <2>2
    <3>. QED  BY <3>1 DEF Spent
  <2>. QED  BY <2>1, <2>2
<1>2. CASE UNCHANGED history
  <2>. SUFFICES ASSUME NEW x \in Buckets PROVE Spent(x)'
    OBVIOUS
  <2>1. last' = last /\ granted' = granted /\ taken' = taken
    BY <1>2 DEF history
  <2>2. GrantsOf(x)' = GrantsOf(x) /\ \A t : WindowGrants(x, t)' = WindowGrants(x, t)
    BY <2>1 DEF GrantsOf, WindowGrants
  <2>. QED  BY <1>0, <1>1, <2>1, <2>2, StaysSpent
<1>3. CASE row.count <= LimitOf[b] /\ Record(b, row)
  <2>1. ASSUME NEW x \in Buckets, x # b PROVE Spent(x)'
    <3>1. last'[x] = last[x] /\ granted'[x] = granted[x]
      BY <1>0, <1>3, <2>1 DEF Record
    <3>2. GrantsOf(x)' = GrantsOf(x) /\ \A t : WindowGrants(x, t)' = WindowGrants(x, t)
      <4>1. PICK g : g.bucket = b /\ taken' = taken \cup {g}
        BY <1>3 DEF Record
      <4>. QED  BY <2>1, <4>1 DEF GrantsOf, WindowGrants
    <3>. QED  BY <1>0, <1>1, <3>1, <3>2, StaysSpent
  <2>2. Spent(b)'
    <3>1. /\ row.count \in Nat /\ row.start <= clock
          /\ row.start = last[b] => granted[b] < row.count
          /\ row.start # last[b] => last[b] = Never \/ last[b] + WindowOf[b] <= row.start
      BY <1>0, CountedKnows
    <3>2. row.start = last[b] => granted[b] < LimitOf[b]
      BY <1>0, <1>3, <3>1
    <3>3. counter'[RowOf(b)] = row
      BY <1>0
    <3>4. Before(row.start, b)
      BY <1>1, <3>3
    <3>. QED  BY <1>3, <3>1, <3>2, <3>3, <3>4, RecordSpends
  <2>. QED  BY <2>1, <2>2
<1>. QED  BY <1>2, <1>3

LEMMA BurstStep == BurstInv /\ [Next]_vars => BurstInv'
<1>. SUFFICES ASSUME BurstInv, [Next]_vars PROVE BurstInv'
  OBVIOUS
<1>0. /\ TypeInv /\ WindowInv /\ \A x \in Buckets : Spent(x)
      /\ req \in [Requests -> Attempt] /\ clock \in Nat /\ MaxDelay \in Nat /\ Time \subseteq Nat
  BY NumberTypes DEF BurstInv, TypeInv, TypeOK
<1>a. MaxDelay \in Nat /\ \A s \in Time : s \in Nat
  BY NumberTypes
<1>b. \A x \in Buckets : last[x] = Never \/ last[x] \in Time
  BY <1>0 DEF TypeInv, TypeOK
<1>1. TypeInv' /\ WindowInv'
  BY <1>0, TypeStep, StepWindow
<1>2. ASSUME UNCHANGED history, clock' \in Nat, clock <= clock',
             \A k \in Rows : counter'[k].start = counter[k].start \/ counter'[k].start = Never
      PROVE  \A x \in Buckets : Spent(x)'
  <2>. SUFFICES ASSUME NEW x \in Buckets PROVE Spent(x)'
    OBVIOUS
  <2>1. last' = last /\ granted' = granted /\ taken' = taken
    BY <1>2 DEF history
  <2>2. GrantsOf(x)' = GrantsOf(x) /\ \A t : WindowGrants(x, t)' = WindowGrants(x, t)
    BY <2>1 DEF GrantsOf, WindowGrants
  <2>3. Before(counter'[RowOf(x)].start, x)
    <3>1. RowOf(x) \in Rows /\ Before(counter[RowOf(x)].start, x)
      BY <1>0, BucketTypes DEF Spent
    <3>. QED  BY <1>2, <3>1 DEF Before
  <2>. QED  BY <1>2, <2>1, <2>2, <2>3, StaysSpent
<1>3. CASE UNCHANGED vars
  BY <1>0, <1>1, <1>2, <1>3 DEF vars, history, BurstInv
<1>4. CASE Tick
  BY <1>0, <1>1, <1>2, <1>4 DEF Tick, BurstInv
<1>5. CASE Cleanup
  <2>1. \A k \in Rows : counter'[k].start = counter[k].start \/ counter'[k].start = Never
    BY <1>5 DEF Cleanup, NoCounter
  <2>. QED  BY <1>0, <1>1, <1>2, <1>5, <2>1 DEF Cleanup, BurstInv
<1>6. ASSUME NEW q \in Requests, CountAttempt(q) PROVE BurstInv'
  <2>1. PICK l \in Attempt : l = req[q]
    BY <1>0
  <2>. DEFINE b == <<l.rule, Subject(l.caller, l.rule)>>
              row == Counted(counter[RowOf(b)], Window[l.rule], l.now)
              passed == row.count <= Limit[l.rule]
  <2>2. l.pc = "store" /\ l.rule \in RuleIds /\ clock' = clock
    BY <1>6, <2>1 DEF CountAttempt
  <2>3. CASE b[2] = NoSubject
    <3>1. UNCHANGED <<counter, history>>
      BY <1>6, <2>1, <2>3 DEF CountAttempt
    <3>. QED  BY <1>0, <1>1, <1>2, <2>2, <3>1 DEF BurstInv
  <2>4. CASE b[2] # NoSubject
    <3>1. /\ l.caller \in Callers /\ l.now \in Nat /\ l.age \in Nat /\ l.age <= MaxDelay /\ l.now + l.age = clock
          /\ l.now \in Time
      <4>1. l.now \in Time /\ l.age \in 0 .. MaxDelay
        BY DEF Attempt
      <4>2. l.caller \in Callers /\ l.age <= MaxDelay /\ l.now + l.age = clock
        BY <1>0, <2>1, <2>2 DEF WindowInv, Recent
      <4>. QED  BY <1>a, <4>1, <4>2
    <3>2. b \in Buckets /\ b[1] = l.rule /\ LimitOf[b] = Limit[l.rule] /\ RowOf(b) \in Rows /\ Window[b[1]] \in Nat
      <4>1. b \in StoreBuckets
        BY <2>2, <2>4, <3>1 DEF StoreBuckets
      <4>2. l.rule \in 0 .. Rules /\ Window[l.rule] \in Nat
        BY <2>2, RuleTypes
      <4>. QED  BY <4>1, <4>2, BucketTypes
    <3>3. /\ counter' = [counter EXCEPT ![RowOf(b)] = row]
          /\ (passed /\ Record(b, row)) \/ UNCHANGED history
      BY <1>6, <2>1, <2>4 DEF CountAttempt
    <3>4. row = Counted(counter[RowOf(b)], Window[b[1]], l.now) /\ (passed <=> row.count <= LimitOf[b])
      BY <3>2
    <3>5. row.start \in Time
      <4>1. counter[RowOf(b)] \in Counter
            /\ ((counter[RowOf(b)].start = Never) <=> (counter[RowOf(b)].count = 0))
        BY <1>0, <3>2 DEF TypeInv, TypeOK
      <4>2. row \in Counter /\ row.start # Never
        <5>. HIDE DEF b
        <5>. QED  BY <3>1, <3>2, <4>1, CountedType
      <4>. HIDE DEF row
      <4>. QED  BY <4>2 DEF Counter
    <3>6. l.now <= clock /\ clock <= l.now + MaxDelay
      BY <1>0, <3>1
    <3>7. (row.count <= LimitOf[b] /\ Record(b, row)) \/ UNCHANGED history
      BY <3>3, <3>4
    <3>. HIDE DEF b, row, passed
    <3>8. \A x \in Buckets : Spent(x)'
      BY <2>2, <3>1, <3>2, <3>3, <3>4, <3>5, <3>6, <3>7, CountSpends
    <3>. QED  BY <1>1, <3>8 DEF BurstInv
  <2>. QED  BY <2>3, <2>4
<1>7. ASSUME NEW q \in Requests, AllowLocked(q) PROVE BurstInv'
  <2>1. PICK l \in Attempt : l = req[q]
    BY <1>0
  <2>. DEFINE b == <<0, <<l.inst, l.caller>>>>
              old == counter[RowOf(b)]
              new == old.start = Never \/ l.now - old.start >= Window[0]
              after == IF new THEN [start |-> l.now, count |-> 1] ELSE [old EXCEPT !.count = @ + 1]
  <2>2. l.pc = "memory" /\ clock' = clock
    BY <1>7, <2>1 DEF AllowLocked
  <2>3. /\ l.caller \in Callers /\ l.inst \in Instances /\ l.now \in Nat /\ l.age \in Nat
        /\ l.age <= MaxDelay /\ l.now + l.age = clock /\ l.now \in Time
    <3>1. l.now \in Time /\ l.age \in 0 .. MaxDelay
      BY DEF Attempt
    <3>2. l.caller \in Callers /\ (l.pc = "memory" => l.inst \in Instances) /\ l.age <= MaxDelay /\ l.now + l.age = clock
      BY <1>0, <2>1, <2>2 DEF WindowInv, Recent
    <3>. QED  BY <1>a, <2>2, <3>1, <3>2
  <2>4. /\ b \in Buckets /\ b[1] = 0 /\ LimitOf[b] = Limit[0] /\ RowOf(b) \in Rows
        /\ Limit[0] \in Nat \ {0} /\ Window[0] \in Nat \ {0}
    <3>1. b \in MemoryBuckets
      BY <2>3 DEF MemoryBuckets
    <3>. QED  BY <3>1, BucketTypes, RuleTypes
  <2>5. CASE new \/ old.count < Limit[0]
    <3>1. counter' = [counter EXCEPT ![RowOf(b)] = after] /\ Record(b, after)
      BY <1>7, <2>1, <2>5 DEF AllowLocked
    <3>2. l.now <= clock /\ clock <= l.now + MaxDelay
      BY <1>0, <2>3
    <3>3. old \in Row /\ old \in Counter /\ ((old.start = Never) <=> (old.count = 0))
      BY <1>0, <2>4 DEF WindowInv, Shape, TypeInv, TypeOK
    <3>4. after = Counted(old, Window[0], l.now) /\ after.count <= Limit[0]
      <4>. HIDE DEF old
      <4>. QED  BY <2>3, <2>4, <2>5, <3>3, MemoryCounts
    <3>5. after.start \in Time
      <4>1. after \in Counter /\ after.start # Never
        <5>1. Window[0] \in Nat
          BY <2>4
        <5>. HIDE DEF old, after
        <5>. QED  BY <2>3, <3>3, <3>4, <5>1, CountedType
      <4>. HIDE DEF after
      <4>. QED  BY <4>1 DEF Counter
    <3>6. after = Counted(counter[RowOf(b)], Window[b[1]], l.now) /\ after.count <= LimitOf[b]
      BY <2>4, <3>4
    <3>. HIDE DEF b, after
    <3>7. \A x \in Buckets : Spent(x)'
      BY <1>0, <2>2, <2>3, <2>4, <3>1, <3>2, <3>5, <3>6, CountSpends
    <3>. QED  BY <1>1, <3>7 DEF BurstInv
  <2>6. CASE ~(new \/ old.count < Limit[0])
    <3>1. UNCHANGED <<counter, history>>
      BY <1>7, <2>1, <2>6 DEF AllowLocked
    <3>. QED  BY <1>0, <1>1, <1>2, <2>2, <3>1 DEF BurstInv
  <2>. QED  BY <2>5, <2>6
<1>8. ASSUME NEW q \in Requests, CountFails(q) \/ Answer(q) PROVE BurstInv'
  BY <1>0, <1>1, <1>2, <1>8 DEF CountFails, Answer, BurstInv
<1>9. ASSUME NEW q \in Requests, NEW c \in Callers, Decide(q, c) \/ \E i \in Instances : Allow(q, c, i)
      PROVE  BurstInv'
  <2>1. UNCHANGED <<clock, counter, history>>
    BY <1>9 DEF Decide, Allow
  <2>. QED  BY <1>0, <1>1, <1>2, <2>1 DEF BurstInv
<1>. QED  BY <1>3, <1>4, <1>5, <1>6, <1>7, <1>8, <1>9 DEF Next, Step

LEMMA BurstInit == Init => BurstInv
<1>. SUFFICES ASSUME Init PROVE BurstInv
  OBVIOUS
<1>1. \A b, s : WindowGrants(b, s) = {} /\ GrantsOf(b) = {}
  BY DEF Init, WindowGrants, GrantsOf
<1>2. Cardinality({}) = 0
  BY FS_EmptySet
<1>3. ASSUME NEW b \in Buckets PROVE Spent(b)
  <2>1. last[b] <= clock /\ granted[b] = 0 /\ LimitOf[b] \in Nat
    BY BucketTypes DEF Init, Never
  <2>2. Before(counter[RowOf(b)].start, b)
    BY <1>1 DEF Before
  <2>. QED  BY <1>1, <1>2, <2>1, <2>2 DEF Spent
<1>. QED  BY <1>3, InitTypes, InitWindow DEF BurstInv

\* In a span shorter than a window by MaxDelay, the grants are those of two windows:
\* of three, the first ends at most MaxDelay after the second begins, and the third
\* begins a window later than that.
LEMMA TwoWindows ==
    ASSUME BurstInv, NEW b \in Buckets, NEW t \in Time
    PROVE  Cardinality({g \in GrantsOf(b) : t <= g.at /\ g.at < t + WindowOf[b] - MaxDelay}) <= 2 * LimitOf[b]
<1>. DEFINE W == WindowOf[b]
            G == {g \in GrantsOf(b) : t <= g.at /\ g.at < t + W - MaxDelay}
<1>0. /\ LimitOf[b] \in Nat \ {0} /\ W \in Nat \ {0} /\ MaxDelay \in Nat /\ t \in Nat
      /\ TypeInv /\ Spent(b) /\ Time \subseteq Nat
  BY BucketTypes, NumberTypes DEF BurstInv
<1>1. \A g \in G : /\ g \in GrantsOf(b) /\ g.start \in Time /\ g.start \in Nat /\ g.at \in Nat
                   /\ g.start <= g.at /\ t <= g.at /\ g.at < t + W - MaxDelay
  BY <1>0, GrantSets DEF Spent
<1>2. ASSUME NEW x \in G, NEW y \in G, NEW z \in G, x.start < y.start, y.start < z.start PROVE FALSE
  <2>1. /\ x.start \in Nat /\ y.start \in Nat /\ z.start \in Nat /\ x.at \in Nat /\ z.at \in Nat
        /\ t <= x.at /\ z.start <= z.at /\ z.at < t + W - MaxDelay
    BY <1>1
  <2>2. x.at <= y.start + MaxDelay /\ Apart(b, y.start, z.start)
    BY <1>0, <1>1, <1>2 DEF Spent
  <2>3. y.start + W <= z.start
    BY <1>0, <1>2, <2>1, <2>2 DEF Apart
  <2>. HIDE DEF W, G
  <2>. QED  BY <1>0, <2>1, <2>2, <2>3
<1>3. \A g \in G : g \in WindowGrants(b, g.start)
  BY DEF GrantsOf, WindowGrants
<1>4. IsFiniteSet(G) /\ \A s : IsFiniteSet(WindowGrants(b, s)) /\ Cardinality(WindowGrants(b, s)) \in Nat
  <2>1. G \subseteq GrantsOf(b) /\ IsFiniteSet(GrantsOf(b))
    BY <1>0, GrantSets
  <2>. QED  BY <1>0, <2>1, GrantSets, FS_Subset
<1>. HIDE DEF G, W
<1>5. CASE G = {}
  <2>1. Cardinality(G) <= 2 * LimitOf[b]
    BY <1>0, <1>5, FS_EmptySet
  <2>. QED  BY <2>1 DEF G, W
<1>6. CASE G # {}
  <2>1. PICK g \in G : TRUE
    BY <1>6
  <2>2. PICK h \in G : \A k \in G : k.start = g.start \/ k.start = h.start
    <3>1. CASE \E h \in G : h.start # g.start
      <4>1. PICK h \in G : h.start # g.start
        BY <3>1
      <4>2. ASSUME NEW k \in G, k.start # g.start, k.start # h.start PROVE FALSE
        <5>1. g.start \in Nat /\ h.start \in Nat /\ k.start \in Nat
          BY <1>1, <2>1, <4>1, <4>2
        <5>2. /\ g.start < h.start \/ h.start < g.start
              /\ g.start < k.start \/ k.start < g.start
              /\ h.start < k.start \/ k.start < h.start
          BY <4>1, <4>2, <5>1
        <5>. QED  BY <1>2, <2>1, <4>1, <4>2, <5>2
      <4>. QED  BY <4>1, <4>2
    <3>2. CASE \A h \in G : h.start = g.start
      BY <2>1, <3>2
    <3>. QED  BY <3>1, <3>2
  <2>. DEFINE A == WindowGrants(b, g.start)
              B == WindowGrants(b, h.start)
  <2>3. G \subseteq A \cup B
    BY <1>3, <2>2
  <2>4. Cardinality(A) <= LimitOf[b] /\ Cardinality(B) <= LimitOf[b]
    BY <1>0, <1>1, <2>1, <2>2 DEF Spent
  <2>5. /\ IsFiniteSet(A) /\ IsFiniteSet(B)
        /\ Cardinality(A) \in Nat /\ Cardinality(B) \in Nat
    BY <1>4
  <2>. HIDE DEF A, B
  <2>6. /\ IsFiniteSet(A \cup B) /\ Cardinality(A \cup B) = Cardinality(A) + Cardinality(B) - Cardinality(A \cap B)
    BY <2>5, FS_Union
  <2>7. IsFiniteSet(A \cap B)
    BY <2>5, FS_Subset
  <2>8. Cardinality(A \cap B) \in Nat /\ Cardinality(A \cup B) \in Nat /\ Cardinality(G) \in Nat
    BY <1>4, <2>6, <2>7, FS_CardinalityType
  <2>9. Cardinality(G) <= Cardinality(A \cup B)
    BY <2>3, <2>6, FS_Subset
  <2>10. Cardinality(G) <= 2 * LimitOf[b]
    BY <1>0, <2>4, <2>5, <2>6, <2>8, <2>9
  <2>. QED  BY <2>10 DEF G, W
<1>. QED  BY <1>5, <1>6

\* Both limiters: in any span of real time shorter than a window by the longest
\* delay of an attempt, a subject is granted at most twice the limit, however the
\* attempts overlap, fail and are cleaned up.
THEOREM BurstAtMostTwice == Spec => []BurstBound
<1>1. BurstInv => BurstBound
  BY TwoWindows DEF BurstInv, TypeInv, BurstBound
<1>. QED  BY <1>1, BurstInit, BurstStep, PTL DEF Spec
=============================================================================
