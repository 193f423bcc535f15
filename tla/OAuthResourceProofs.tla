------------------------ MODULE OAuthResourceProofs ------------------------
(***************************************************************************)
(* For any number of instances, keys, requests and proofs, and for every   *)
(* window and delay with CleanupWindow >= ProofWindow + MaxDelay: a DPoP    *)
(* proof is accepted once, a token that was signed can be verified by every *)
(* instance, and signingKey finds a key unless two rotations overlapped.    *)
(***************************************************************************)
EXTENDS OAuthResource, WellFoundedInduction, TLAPS

-----------------------------------------------------------------------------
(* The newest key.                                                         *)

\* A set of natural numbers has a least element, what the order of a SELECT
\* relies on.
LEMMA SmallestExists ==
    ASSUME NEW S \in SUBSET Nat, S # {} PROVE \E x \in S : \A y \in S : x <= y
<1>. DEFINE R == {ss \in Nat \X Nat : ss[1] < ss[2]}
<1>1. IsWellFoundedOn(R, Nat)
  BY NatLessThanWellFounded DEF OpToRel
<1>. HIDE DEF R
<1>2. PICK x \in S : \A y \in S : ~(<<y, x>> \in R)
  BY <1>1, WFMin
<1>3. \A y \in S : ~(y < x)
  BY <1>2 DEF R
<1>4. x \in Nat /\ \A y \in S : y \in Nat
  OBVIOUS
<1>. QED  BY <1>3, <1>4

\* A set of keys has a newest one: loadKeys takes it.
LEMMA NewestKey ==
    ASSUME NEW S \in SUBSET Key, S # {} PROVE \E k \in S : \A j \in S : j <= k
<1>. DEFINE T == {MaxKey - k : k \in S}
<1>1. MaxKey \in Nat /\ \A k \in S : k \in Nat /\ MaxKey - k \in Nat
  BY OAuthResourceAssumption DEF Key
<1>2. T \in SUBSET Nat /\ T # {}
  BY <1>1
<1>3. PICK x \in T : \A y \in T : x <= y
  BY <1>2, SmallestExists
<1>4. PICK k \in S : x = MaxKey - k
  OBVIOUS
<1>5. ASSUME NEW j \in S PROVE j <= k
  <2>1. MaxKey - k <= MaxKey - j
    BY <1>3, <1>4
  <2>. QED  BY <2>1, <1>1
<1>. QED  BY <1>5

\* loadKeys finds a key exactly when one of the rows is not retired.
LEMMA NewestIsLive ==
    /\ Live = {} => Newest = NoKey
    /\ Live # {} => Newest \in Live /\ Newest # NoKey
<1>1. Live \in SUBSET Key
  BY DEF Live
<1>2. ASSUME Live # {} PROVE Newest \in Live
  <2>1. \E k \in Live : \A j \in Live : j <= k
    BY <1>1, <1>2, NewestKey
  <2>. QED  BY <1>2, <2>1 DEF Newest
<1>3. NoKey \notin Live
  BY OAuthResourceAssumption DEF Live, Key, NoKey
<1>. QED  BY <1>2, <1>3 DEF Newest

\* What loadKeys puts into memory has the type of the memory.
LEMMA LoadedType == Newest \in Key \cup {NoKey} /\ Rows \in SUBSET Key
  BY NewestIsLive DEF Live, Rows

-----------------------------------------------------------------------------
(* Types.                                                                  *)

\* The call that begins to insert a key keeps the types of the rows and calls.
LEMMA GenerateType ==
    ASSUME TypeOK, NEW i \in Instances, NEW op \in {"sign", "rotate"}, Generate(i, op)
    PROVE  key' \in [Key -> {"none", "made", "live", "retired"}] /\ job' \in [Instances -> Job]
<1>1. PICK k \in Key : /\ key' = [key EXCEPT ![k] = "made"]
                       /\ job' = [job EXCEPT ![i] = [op |-> op, pc |-> "insert", key |-> k]]
  BY DEF Generate
<1>2. [op |-> op, pc |-> "insert", key |-> k] \in Job
  BY DEF Job
<1>. QED  BY <1>1, <1>2 DEF TypeOK

\* loadKeys keeps the types of the memory of the instances.
LEMMA LoadKeysType ==
    ASSUME TypeOK, NEW i \in Instances, LoadKeys(i)
    PROVE  signer' \in [Instances -> Key \cup {NoKey}] /\ verifiers' \in [Instances -> SUBSET Key]
  BY LoadedType DEF LoadKeys, TypeOK

LEMMA NoJobType == NoJob \in Job
  BY DEF NoJob, Job

LEMMA IdleType == Idle \in Request
  BY DEF Idle, Request

LEMMA InitTypes == Init => TypeOK
<1>. SUFFICES ASSUME Init PROVE TypeOK
  OBVIOUS
<1>1. iat \in [Proofs -> Time] /\ now \in Time
  BY OAuthResourceAssumption DEF Init, Time
<1>2. claim \in [Proofs -> Int] /\ accepted \in [Proofs -> Nat]
  BY DEF Init, NoTime
<1>3. /\ key \in [Key -> {"none", "made", "live", "retired"}]
      /\ signer \in [Instances -> Key \cup {NoKey}] /\ verifiers \in [Instances -> SUBSET Key]
  BY DEF Init
<1>4. job \in [Instances -> Job] /\ req \in [Requests -> Request]
  BY NoJobType, IdleType DEF Init
<1>. QED  BY <1>1, <1>2, <1>3, <1>4 DEF TypeOK, Init

\* The steps of an instance on the keys keep the types.
LEMMA KeyTypes ==
    ASSUME TypeOK, NEW i \in Instances, KeyStep(i), UNCHANGED part PROVE TypeOK'
<1>. USE DEF proofs
<1>1. CASE SigningKey(i)
  <2>1. CASE signer[i] # NoKey /\ minted' = minted \cup {signer[i]} /\ UNCHANGED <<key, signer, verifiers, job>>
    <3>1. signer[i] \in Key
      BY <2>1 DEF TypeOK
    <3>. QED  BY <1>1, <2>1, <3>1 DEF TypeOK, SigningKey
  <2>2. CASE Newest # NoKey /\ LoadKeys(i) /\ minted' = minted \cup {Newest} /\ UNCHANGED <<key, job>>
    <3>1. Newest \in Key
      BY <2>2, LoadedType
    <3>. QED  BY <1>1, <2>2, <3>1, LoadKeysType DEF TypeOK, SigningKey
  <2>3. CASE LoadKeys(i) /\ Generate(i, "sign") /\ UNCHANGED minted
    BY <1>1, <2>3, LoadKeysType, GenerateType DEF TypeOK, SigningKey
  <2>. QED  BY <1>1, <2>1, <2>2, <2>3 DEF SigningKey
<1>2. CASE Rotate(i)
  <2>1. signer' \in [Instances -> Key \cup {NoKey}] /\ overlapped' \in BOOLEAN
    BY <1>2 DEF Rotate, TypeOK
  <2>. QED  BY <1>2, <2>1, GenerateType DEF TypeOK, Rotate
<1>3. CASE CreateKey(i)
  <2>1. [job[i] EXCEPT !.pc = IF job[i].op = "rotate" THEN "retire" ELSE "reload"] \in Job
    BY DEF TypeOK, Job
  <2>2. job' \in [Instances -> Job]
    BY <1>3, <2>1 DEF CreateKey, TypeOK
  <2>. QED  BY <1>3, <2>2 DEF TypeOK, CreateKey
<1>4. CASE RetireKeys(i)
  <2>1. [job[i] EXCEPT !.pc = "reload"] \in Job
    BY DEF TypeOK, Job
  <2>2. job' \in [Instances -> Job]
    BY <1>4, <2>1 DEF RetireKeys, TypeOK
  <2>. QED  BY <1>4, <2>2 DEF TypeOK, RetireKeys
<1>5. CASE Reload(i)
  <2>1. minted' \subseteq Key /\ nilSigner' \in BOOLEAN
    BY <1>5, LoadedType DEF Reload, TypeOK
  <2>2. job' \in [Instances -> Job]
    BY <1>5, NoJobType DEF Reload, TypeOK
  <2>. QED  BY <1>5, <2>1, <2>2, LoadKeysType DEF TypeOK, Reload
<1>6. CASE Fail(i)
  <2>1. job' \in [Instances -> Job]
    BY <1>6, NoJobType DEF Fail, TypeOK
  <2>2. minted' \subseteq Key
    BY <1>6, LoadedType DEF Fail, TypeOK
  <2>3. signer' \in [Instances -> Key \cup {NoKey}] /\ verifiers' \in [Instances -> SUBSET Key]
    BY <1>6, LoadKeysType DEF Fail, TypeOK
  <2>. QED  BY <1>6, <2>1, <2>2, <2>3 DEF TypeOK, Fail
<1>7. CASE Restart(i)
  BY <1>7, NoJobType DEF TypeOK, Restart
<1>8. ASSUME NEW k \in Key, Verifier(i, k) PROVE TypeOK'
  <2>1. refused' \in BOOLEAN
    BY <1>8 DEF Verifier, TypeOK
  <2>. QED  BY <1>8, <2>1, LoadKeysType DEF TypeOK, Verifier
<1>. QED  BY <1>1, <1>2, <1>3, <1>4, <1>5, <1>6, <1>7, <1>8 DEF KeyStep

\* So do the checks, the claims, Cleanup and the clock.
LEMMA ProofTypes == ASSUME TypeOK, ProofStep, UNCHANGED part PROVE TypeOK'
<1>. USE DEF keys
<1>1. ASSUME NEW q \in Requests, ClaimProof(q) PROVE TypeOK'
  <2>1. req[q].at \in Int /\ ProofWindow \in Int
    BY OAuthResourceAssumption DEF TypeOK, Request, Time, NoTime
  <2>2. claim' \in [Proofs -> Int] /\ accepted' \in [Proofs -> Nat]
    BY <1>1, <2>1 DEF ClaimProof, TypeOK
  <2>. QED  BY <1>1, <2>2, IdleType DEF TypeOK, ClaimProof
<1>2. ASSUME NEW q \in Requests, NEW p \in Proofs, CheckDPoP(q, p) PROVE TypeOK'
  <2>1. [pc |-> "claim", at |-> now, proof |-> p] \in Request
    BY DEF TypeOK, Request
  <2>. QED  BY <1>2, <2>1 DEF TypeOK, CheckDPoP, proofs
<1>3. CASE Cleanup
  BY <1>3 DEF TypeOK, Cleanup, NoTime
<1>4. CASE Tick
  BY <1>4, OAuthResourceAssumption DEF TypeOK, Tick, Time
<1>. QED  BY <1>1, <1>2, <1>3, <1>4 DEF ProofStep

LEMMA TypeStep == TypeOK /\ [Next]_vars => TypeOK'
<1>1. ASSUME TypeOK, UNCHANGED vars PROVE TypeOK'
  BY <1>1 DEF TypeOK, vars
<1>. QED  BY <1>1, KeyTypes, ProofTypes DEF Next

\* Rows, the memory of the instances and the requests keep their types.
THEOREM TypeCorrect == Spec => []TypeOK
  BY InitTypes, TypeStep, PTL DEF Spec

-----------------------------------------------------------------------------
(* Tokens stay verifiable.                                                 *)

\* The key of every token and every signer in memory has a row that no
\* operation deletes.
KeysKept ==
    /\ TypeOK
    /\ minted \subseteq Rows
    /\ \A i \in Instances : signer[i] # NoKey => signer[i] \in Rows
    /\ ~refused

\* What loadKeys hands out has a row.
LEMMA NewestHasRow == Newest # NoKey => Newest \in Rows
  BY NewestIsLive DEF Live, Rows

\* No statement of a key takes a row away, and signers come from rows.
LEMMA RowsStay ==
    ASSUME TypeOK, NEW i \in Instances, KeyStep(i) PROVE Rows \subseteq Rows'
<1>1. ASSUME NEW op \in {"sign", "rotate"}, Generate(i, op) PROVE Rows \subseteq Rows'
  BY <1>1 DEF Generate, Rows, TypeOK
<1>2. ASSUME UNCHANGED key PROVE Rows \subseteq Rows'
  BY <1>2 DEF Rows
<1>3. CASE CreateKey(i)
  BY <1>3 DEF CreateKey, Rows, TypeOK
<1>4. CASE RetireKeys(i)
  BY <1>4 DEF RetireKeys, Rows, TypeOK
<1>5. CASE SigningKey(i)
  BY <1>1, <1>2, <1>5 DEF SigningKey
<1>6. CASE Rotate(i)
  BY <1>1, <1>6 DEF Rotate
<1>. QED  BY <1>2, <1>3, <1>4, <1>5, <1>6 DEF KeyStep, Reload, Fail, Restart, Verifier

\* A signer that a step puts into memory has a row.
LEMMA LoadedSigner ==
    ASSUME KeysKept, NEW i \in Instances, LoadKeys(i) \/ UNCHANGED signer \/ signer' = [signer EXCEPT ![i] = NoKey],
           NEW j \in Instances, signer'[j] # NoKey
    PROVE  signer'[j] \in Rows
<1>1. signer \in [Instances -> Key \cup {NoKey}] /\ (signer[j] # NoKey => signer[j] \in Rows)
  BY DEF KeysKept, TypeOK
<1>. QED  BY <1>1, NewestHasRow DEF LoadKeys

LEMMA KeysKeptStep == KeysKept /\ [Next]_vars => KeysKept'
<1>. SUFFICES ASSUME KeysKept, [Next]_vars PROVE KeysKept'
  OBVIOUS
<1>1. TypeOK'
  BY TypeStep DEF KeysKept
<1>2. ASSUME UNCHANGED <<key, signer, minted, refused>> PROVE KeysKept'
  BY <1>1, <1>2 DEF KeysKept, Rows
<1>3. CASE UNCHANGED vars
  BY <1>2, <1>3 DEF vars
<1>4. CASE ProofStep
  BY <1>2, <1>4 DEF ProofStep, ClaimProof, CheckDPoP, Cleanup, Tick, keys
<1>5. ASSUME NEW i \in Instances, KeyStep(i) PROVE KeysKept'
  <2>1. Rows \subseteq Rows'
    BY <1>5, RowsStay DEF KeysKept
  <2>2. LoadKeys(i) \/ UNCHANGED signer \/ signer' = [signer EXCEPT ![i] = NoKey]
    BY <1>5 DEF KeyStep, SigningKey, Rotate, CreateKey, RetireKeys, Reload, Fail, Restart, Verifier
  <2>3. \A j \in Instances : signer'[j] # NoKey => signer'[j] \in Rows'
    BY <2>1, <2>2, LoadedSigner
  <2>4. minted' \subseteq Rows
    <3>1. \/ minted' = minted
          \/ minted' = minted \cup {signer[i]} /\ signer[i] # NoKey
          \/ minted' = minted \cup ({Newest} \ {NoKey})
      <4>1. CASE SigningKey(i)
        BY <4>1 DEF SigningKey
      <4>2. CASE Reload(i)
        BY <4>2 DEF Reload
      <4>3. CASE Fail(i)
        BY <4>3 DEF Fail
      <4>. QED  BY <1>5, <4>1, <4>2, <4>3 DEF KeyStep, Rotate, CreateKey, RetireKeys, Restart, Verifier
    <3>. QED  BY <3>1, NewestHasRow DEF KeysKept
  <2>5. ~refused'
    BY <1>5 DEF KeysKept, KeyStep, SigningKey, Rotate, CreateKey, RetireKeys, Reload, Fail, Restart, Verifier
  <2>. QED  BY <1>1, <2>1, <2>3, <2>4, <2>5 DEF KeysKept
<1>. QED  BY <1>3, <1>4, <1>5 DEF Next

\* verifyAccessToken of every instance finds the key of every token that was
\* signed, through rotations, failures and restarts of any number of instances.
THEOREM TokensStayVerifiable == Spec => []Verifiable
<1>1. Init => KeysKept
  <2>. SUFFICES ASSUME Init PROVE KeysKept
    OBVIOUS
  <2>. QED  BY InitTypes DEF Init, KeysKept
<1>2. KeysKept => Verifiable
  BY DEF KeysKept, Verifiable
<1>. QED  BY <1>1, <1>2, KeysKeptStep, PTL DEF Spec

-----------------------------------------------------------------------------
(* signingKey finds a key.                                                 *)

\* As long as no two rotations overlap, a rotation that retires the other keys
\* has its own key in the table, and whoever reloads finds one.
KeyLeft ==
    /\ TypeOK
    /\ ~overlapped =>
         /\ ~nilSigner
         /\ \A i, j \in Instances : job[i].op = "rotate" /\ job[j].op = "rotate" => i = j
         /\ \A i \in Instances : job[i].pc = "insert" => job[i].key \in Key
         /\ \A i \in Instances : job[i].pc = "retire" =>
              job[i].op = "rotate" /\ job[i].key \in Key /\ key[job[i].key] = "live"
         /\ \A i \in Instances : job[i].pc = "reload" => Live # {}

\* The steps on the keys as far as they change the rows and the calls.
LEMMA KeyLeftStep == KeyLeft /\ [Next]_vars => KeyLeft'
<1>. SUFFICES ASSUME KeyLeft, [Next]_vars PROVE KeyLeft'
  OBVIOUS
<1>1. TypeOK'
  BY TypeStep DEF KeyLeft
<1>2. ASSUME UNCHANGED <<key, job, nilSigner, overlapped>> PROVE KeyLeft'
  BY <1>1, <1>2 DEF KeyLeft, Live
<1>3. CASE UNCHANGED vars
  BY <1>2, <1>3 DEF vars
<1>4. CASE ProofStep
  BY <1>2, <1>4 DEF ProofStep, ClaimProof, CheckDPoP, Cleanup, Tick, keys
<1>5. ASSUME NEW i \in Instances, NEW op \in {"sign", "rotate"}, Generate(i, op), ~overlapped, ~nilSigner',
             op = "rotate" => \A j \in Instances : job[j].op # "rotate"
      PROVE  KeyLeft'
  <2>1. PICK k \in Key : /\ key[k] = "none" /\ key' = [key EXCEPT ![k] = "made"]
                         /\ job' = [job EXCEPT ![i] = [op |-> op, pc |-> "insert", key |-> k]]
    BY <1>5 DEF Generate
  <2>2. /\ \A j \in Instances : j # i => job'[j] = job[j]
        /\ job'[i].op = op /\ job'[i].pc = "insert" /\ job'[i].key = k
    BY <2>1 DEF KeyLeft, TypeOK
  <2>3. \A j \in Key : key[j] = "live" <=> key'[j] = "live"
    BY <2>1 DEF KeyLeft, TypeOK
  <2>4. Live' = Live
    BY <2>3 DEF Live
  <2>. QED  BY <1>1, <1>5, <2>2, <2>3, <2>4 DEF KeyLeft
<1>6. ASSUME NEW i \in Instances, UNCHANGED <<key, overlapped>>, ~overlapped => ~nilSigner', job' = [job EXCEPT ![i] = NoJob]
      PROVE  KeyLeft'
  <2>1. \A j \in Instances : IF j = i THEN job'[j].op = "none" /\ job'[j].pc = "idle" ELSE job'[j] = job[j]
    BY <1>6 DEF KeyLeft, TypeOK, NoJob
  <2>. QED  BY <1>1, <1>6, <2>1 DEF KeyLeft, Live
<1>7. ASSUME NEW i \in Instances, SigningKey(i) PROVE KeyLeft'
  <2>1. CASE UNCHANGED <<key, job>>
    BY <1>2, <1>7, <2>1 DEF SigningKey
  <2>2. CASE Generate(i, "sign") /\ ~overlapped
    BY <1>5, <1>7, <2>2 DEF SigningKey, KeyLeft
  <2>. QED  BY <1>1, <1>7, <2>1, <2>2 DEF SigningKey, KeyLeft
<1>8. ASSUME NEW i \in Instances, Rotate(i) PROVE KeyLeft'
  <2>1. CASE overlapped'
    BY <1>1, <2>1 DEF KeyLeft
  <2>2. CASE ~overlapped'
    BY <1>5, <1>8, <2>2 DEF Rotate, KeyLeft
  <2>. QED  BY <2>1, <2>2
<1>9. ASSUME NEW i \in Instances, CreateKey(i) PROVE KeyLeft'
  <2>. SUFFICES ASSUME ~overlapped PROVE KeyLeft'
    BY <1>1, <1>9 DEF CreateKey, KeyLeft
  <2>1. job[i].key \in Key
    BY <1>9 DEF CreateKey, KeyLeft
  <2>2. /\ \A j \in Instances : j # i => job'[j] = job[j]
        /\ job'[i].op = job[i].op /\ job'[i].key = job[i].key
        /\ job'[i].pc = IF job[i].op = "rotate" THEN "retire" ELSE "reload"
    BY <1>9 DEF CreateKey, KeyLeft, TypeOK, Job
  <2>3. key'[job[i].key] = "live" /\ \A k \in Key : key[k] = "live" => key'[k] = "live"
    BY <1>9, <2>1 DEF CreateKey, KeyLeft, TypeOK
  <2>4. Live' # {}
    BY <2>1, <2>3 DEF Live
  <2>. QED  BY <1>1, <1>9, <2>1, <2>2, <2>3, <2>4 DEF CreateKey, KeyLeft
<1>10. ASSUME NEW i \in Instances, RetireKeys(i) PROVE KeyLeft'
  <2>. SUFFICES ASSUME ~overlapped PROVE KeyLeft'
    BY <1>1, <1>10 DEF RetireKeys, KeyLeft
  <2>1. job[i].op = "rotate" /\ job[i].key \in Key /\ key[job[i].key] = "live"
    BY <1>10 DEF RetireKeys, KeyLeft
  <2>2. /\ \A j \in Instances : j # i => job'[j] = job[j]
        /\ job'[i].op = job[i].op /\ job'[i].key = job[i].key /\ job'[i].pc = "reload"
    BY <1>10 DEF RetireKeys, KeyLeft, TypeOK, Job
  <2>3. key'[job[i].key] = "live"
    BY <1>10, <2>1 DEF RetireKeys, KeyLeft, TypeOK
  <2>4. Live' # {}
    BY <2>1, <2>3 DEF Live
  <2>5. \A j \in Instances : j # i => job[j].pc # "retire"
    BY <2>1 DEF KeyLeft
  <2>. QED  BY <1>1, <1>10, <2>1, <2>2, <2>3, <2>4, <2>5 DEF RetireKeys, KeyLeft
<1>11. ASSUME NEW i \in Instances, Reload(i) PROVE KeyLeft'
  <2>1. ~overlapped => ~nilSigner'
    BY <1>11, NewestIsLive DEF Reload, KeyLeft
  <2>. QED  BY <1>6, <1>11, <2>1 DEF Reload
<1>12. ASSUME NEW i \in Instances, Fail(i) \/ Restart(i) PROVE KeyLeft'
  BY <1>6, <1>12 DEF Fail, Restart, KeyLeft
<1>13. ASSUME NEW i \in Instances, NEW k \in Key, Verifier(i, k) PROVE KeyLeft'
  BY <1>2, <1>13 DEF Verifier
<1>. QED  BY <1>3, <1>4, <1>7, <1>8, <1>9, <1>10, <1>11, <1>12, <1>13 DEF Next, KeyStep

\* signingKey returns no key without an error only after two instances rotated
\* at the same time, whatever fails or restarts in between.
THEOREM SigningKeyFound == Spec => []SignerFound
<1>1. Init => KeyLeft
  <2>. SUFFICES ASSUME Init PROVE KeyLeft
    OBVIOUS
  <2>. QED  BY InitTypes DEF Init, KeyLeft, NoJob
<1>2. KeyLeft => SignerFound
  BY DEF KeyLeft, SignerFound
<1>. QED  BY <1>1, <1>2, KeyLeftStep, PTL DEF Spec

-----------------------------------------------------------------------------
(* Proofs are accepted once.                                               *)

\* A request under way is not older than MaxDelay and its proof was fresh at
\* its check; the row of an accepted proof stays until no such request exists.
ClaimsKept ==
    /\ TypeOK
    /\ \A q \in Requests : req[q].pc = "claim" =>
         /\ req[q].proof \in Proofs /\ req[q].at \in Time
         /\ req[q].at <= now /\ now <= req[q].at + MaxDelay
         /\ iat[req[q].proof] <= req[q].at + ProofWindow /\ req[q].at <= iat[req[q].proof] + ProofWindow
    /\ \A p \in Proofs :
         \/ claim[p] # NoTime /\ iat[p] <= claim[p] /\ accepted[p] = 1
         \/ claim[p] = NoTime /\ accepted[p] = 0
         \/ claim[p] = NoTime /\ accepted[p] = 1 /\ iat[p] + CleanupWindow < now

\* Times and windows are integers: the arithmetic of the steps below.
LEMMA Times == ASSUME TypeOK PROVE /\ now \in Nat /\ \A p \in Proofs : iat[p] \in Nat /\ claim[p] \in Int /\ accepted[p] \in Nat
                                   /\ ProofWindow \in Nat /\ CleanupWindow \in Nat /\ MaxDelay \in Nat
                                   /\ CleanupWindow >= ProofWindow + MaxDelay
                                   /\ \A t \in Time : t \in Nat
  BY OAuthResourceAssumption DEF TypeOK, Time

LEMMA ClaimsKeptStep == ClaimsKept /\ [Next]_vars => ClaimsKept'
<1>. SUFFICES ASSUME ClaimsKept, [Next]_vars PROVE ClaimsKept'
  OBVIOUS
<1>1. TypeOK' /\ TypeOK
  BY TypeStep DEF ClaimsKept
<1>2. ASSUME UNCHANGED <<iat, claim, now, req, accepted>> PROVE ClaimsKept'
  BY <1>1, <1>2 DEF ClaimsKept
<1>3. CASE UNCHANGED vars
  BY <1>2, <1>3 DEF vars
<1>4. ASSUME NEW i \in Instances, KeyStep(i) PROVE ClaimsKept'
  BY <1>2, <1>4 DEF KeyStep, SigningKey, Rotate, CreateKey, RetireKeys, Reload, Fail, Restart, Verifier, proofs
<1>5. ASSUME NEW q \in Requests, NEW p \in Proofs, CheckDPoP(q, p) PROVE ClaimsKept'
  <2>1. /\ \A o \in Requests : o # q => req'[o] = req[o]
        /\ req'[q].pc = "claim" /\ req'[q].at = now /\ req'[q].proof = p
    BY <1>1, <1>5 DEF CheckDPoP, TypeOK
  <2>2. iat[p] <= now + ProofWindow /\ now <= iat[p] + ProofWindow
    BY <1>1, <1>5, Times DEF CheckDPoP, Distance
  <2>3. now \in Time /\ now <= now + MaxDelay
    BY <1>1, Times DEF TypeOK
  <2>4. UNCHANGED <<iat, claim, now, accepted>>
    BY <1>5 DEF CheckDPoP, proofs
  <2>. QED  BY <1>1, <2>1, <2>2, <2>3, <2>4, Times DEF ClaimsKept
<1>6. ASSUME NEW q \in Requests, ClaimProof(q) PROVE ClaimsKept'
  <2>. DEFINE p == req[q].proof
  <2>1. /\ p \in Proofs /\ req[q].at \in Nat /\ now <= req[q].at + MaxDelay
        /\ iat[p] <= req[q].at + ProofWindow /\ req[q].at <= iat[p] + ProofWindow
    BY <1>1, <1>6, Times DEF ClaimProof, ClaimsKept
  <2>2. \A o \in Requests : IF o = q THEN req'[o].pc = "idle" ELSE req'[o] = req[o]
    BY <1>1, <1>6 DEF ClaimProof, TypeOK, Idle
  <2>3. CASE claim[p] # NoTime
    BY <1>1, <1>6, <2>2, <2>3 DEF ClaimProof, ClaimsKept
  <2>4. CASE claim[p] = NoTime
    <3>1. accepted[p] = 0
      BY <1>1, <2>1, <2>4, Times DEF ClaimsKept
    <3>2. /\ claim' = [claim EXCEPT ![p] = req[q].at + ProofWindow]
          /\ accepted' = [accepted EXCEPT ![p] = accepted[p] + 1]
          /\ UNCHANGED <<iat, now>>
      BY <1>6, <2>4 DEF ClaimProof
    <3>3. accepted'[p] = 1 /\ iat[p] <= claim'[p] /\ claim'[p] # NoTime
      BY <1>1, <2>1, <3>1, <3>2, Times DEF TypeOK, NoTime
    <3>4. \A o \in Proofs : o # p => accepted'[o] = accepted[o] /\ claim'[o] = claim[o]
      BY <1>1, <3>2 DEF TypeOK
    <3>. QED  BY <1>1, <2>1, <2>2, <3>2, <3>3, <3>4 DEF ClaimsKept
  <2>. QED  BY <2>3, <2>4
<1>7. CASE Cleanup
  <2>1. /\ claim' = [o \in Proofs |-> IF claim[o] < now - CleanupWindow THEN NoTime ELSE claim[o]]
        /\ UNCHANGED <<iat, now, req, accepted>>
    BY <1>7 DEF Cleanup
  <2>2. ASSUME NEW p \in Proofs, claim[p] < now - CleanupWindow
        PROVE  /\ claim'[p] = NoTime
               /\ accepted[p] = 0 \/ (accepted[p] = 1 /\ iat[p] + CleanupWindow < now)
    <3>1. claim'[p] = NoTime
      BY <2>1, <2>2
    <3>2. CASE iat[p] <= claim[p] /\ accepted[p] = 1
      <4>1. iat[p] + CleanupWindow < now
        BY <1>1, <2>2, <3>2, Times
      <4>. QED  BY <3>1, <3>2, <4>1
    <3>. QED  BY <3>1, <3>2 DEF ClaimsKept
  <2>3. \A p \in Proofs : ~(claim[p] < now - CleanupWindow) => claim'[p] = claim[p]
    BY <2>1
  <2>. QED  BY <1>1, <2>1, <2>2, <2>3 DEF ClaimsKept
<1>8. CASE Tick
  <2>1. now' = now + 1 /\ UNCHANGED <<iat, claim, req, accepted>>
    BY <1>8 DEF Tick
  <2>2. ASSUME NEW q \in Requests, req[q].pc = "claim"
        PROVE  req[q].at <= now' /\ now' <= req[q].at + MaxDelay
    <3>1. req[q].at \in Nat /\ req[q].at <= now /\ now < req[q].at + MaxDelay
      BY <1>1, <1>8, <2>2, Times DEF Tick, ClaimsKept
    <3>. QED  BY <1>1, <2>1, <3>1, Times
  <2>3. \A p \in Proofs : iat[p] + CleanupWindow < now => iat[p] + CleanupWindow < now'
    BY <1>1, <2>1, Times
  <2>. QED  BY <1>1, <2>1, <2>2, <2>3 DEF ClaimsKept
<1>. QED  BY <1>3, <1>4, <1>5, <1>6, <1>7, <1>8 DEF Next, ProofStep

\* ClaimOAuthProof accepts a proof once, although Cleanup removes its row: by
\* then it is too old for every request that was checked in time.
THEOREM ProofAcceptedOnce == Spec => []ProofOnce
<1>1. Init => ClaimsKept
  <2>. SUFFICES ASSUME Init PROVE ClaimsKept
    OBVIOUS
  <2>. QED  BY InitTypes DEF Init, ClaimsKept, Idle
<1>2. ClaimsKept => ProofOnce
  BY Times DEF ClaimsKept, ProofOnce
<1>. QED  BY <1>1, <1>2, ClaimsKeptStep, PTL DEF Spec
=============================================================================
