--------------------------- MODULE OAuthResource ---------------------------
(***************************************************************************)
(* plugins/oauthprovider, the side of a resource request: the signing keys  *)
(* in the table and in the memory of each instance (keys.go), and the DPoP   *)
(* proofs that are claimed once (dpop.go).                                   *)
(*                                                                         *)
(* keyMu makes the work on the keys of one instance a sequence (job); the    *)
(* instances interleave statement by statement.  Signatures are taken to be  *)
(* sound; the row and the grant of a token are in OAuthGrants.               *)
(***************************************************************************)
EXTENDS Integers, FiniteSets

CONSTANTS
    Parts,          \* what a behaviour is about: keys and proofs share no state
    Instances, Requests, Proofs,
    MaxKey,         \* keys that are generated, at most
    ProofWindow,    \* DefaultDPoPProofWindow
    CleanupWindow,  \* cleanupWindow
    MaxDelay,       \* a request takes at most this long from the check to the claim
    MaxTime         \* bound of the clock

ASSUME OAuthResourceAssumption ==
    /\ Parts \subseteq {"keys", "proofs"}
    /\ MaxKey \in Nat /\ ProofWindow \in Nat /\ CleanupWindow \in Nat /\ MaxDelay \in Nat /\ MaxTime \in Nat
    /\ CleanupWindow >= ProofWindow + MaxDelay

NoKey == 0
Key == 1 .. MaxKey
NoTime == -1
Time == 0 .. MaxTime
NoProof == "noproof"

VARIABLES
    part,       \* the part of this behaviour, one of Parts
    key,        \* key[k]: the row of oauth_keys; a larger k has a later created_at
    signer,     \* signer[i]: p.signer of an instance
    verifiers,  \* verifiers[i]: the identifiers in p.verifiers
    job,        \* job[i]: the call that holds keyMu of an instance
    minted,     \* the key identifiers of the tokens that clients hold
    iat,        \* iat[p]: the issue time of a proof
    claim,      \* claim[p]: expires_at of the row of oauth_proofs
    now,
    req,        \* req[q]: the local state of a resource request
    accepted,   \* history: accepted[p], the requests that were accepted with a proof
    refused,    \* history: the key of a minted token was unknown to an instance
    nilSigner,  \* history: signingKey returned no key and no error
    overlapped  \* history: two rotations ran at the same time

vars == <<part, key, signer, verifiers, job, minted, iat, claim, now, req,
          accepted, refused, nilSigner, overlapped>>
keys == <<key, signer, verifiers, job, minted, nilSigner, overlapped>>
proofs == <<iat, claim, now, accepted>>

-----------------------------------------------------------------------------
NoJob == [op |-> "none", pc |-> "idle", key |-> NoKey]
Job == [op : {"none", "sign", "rotate"}, pc : {"idle", "insert", "retire", "reload"}, key : Key \cup {NoKey}]
Idle == [pc |-> "idle", at |-> NoTime, proof |-> NoProof]
Request == [pc : {"idle", "claim"}, at : Time \cup {NoTime}, proof : Proofs \cup {NoProof}]

Rows == {k \in Key : key[k] \in {"live", "retired"}}
Live == {k \in Key : key[k] = "live"}

\* ListOAuthKeys orders by created_at, newest first; loadKeys takes the first
\* row that is not retired.
Newest == IF Live = {} THEN NoKey ELSE CHOOSE k \in Live : \A j \in Live : j <= k

Init ==
    /\ part \in Parts
    /\ key = [k \in Key |-> "none"]
    /\ signer = [i \in Instances |-> NoKey]
    /\ verifiers = [i \in Instances |-> {}]
    /\ job = [i \in Instances |-> NoJob]
    /\ minted = {} /\ refused = FALSE /\ nilSigner = FALSE /\ overlapped = FALSE
    /\ iat \in IF part = "proofs" THEN [Proofs -> Time] ELSE {[p \in Proofs |-> 0]}
    /\ claim = [p \in Proofs |-> NoTime]
    /\ now = 0
    /\ req = [q \in Requests |-> Idle]
    /\ accepted = [p \in Proofs |-> 0]

-----------------------------------------------------------------------------
(* Signing and rotation.                                                   *)

\* loadKeys: one SELECT, then the signer and the verifiers.
LoadKeys(i) ==
    /\ signer' = [signer EXCEPT ![i] = Newest]
    /\ verifiers' = [verifiers EXCEPT ![i] = Rows]

\* generateKey makes the key and its created_at before the INSERT.
Generate(i, op) ==
    \E k \in Key :
        /\ key[k] = "none" /\ \A j \in Key : j < k => key[j] # "none"
        /\ key' = [key EXCEPT ![k] = "made"]
        /\ job' = [job EXCEPT ![i] = [op |-> op, pc |-> "insert", key |-> k]]

\* signingKey: the key in memory, the table, or the first key.
SigningKey(i) ==
    /\ job[i].pc = "idle"
    /\ \/ /\ signer[i] # NoKey
          /\ minted' = minted \cup {signer[i]}
          /\ UNCHANGED <<key, signer, verifiers, job>>
       \/ /\ signer[i] = NoKey /\ Newest # NoKey
          /\ LoadKeys(i) /\ minted' = minted \cup {Newest}
          /\ UNCHANGED <<key, job>>
       \/ /\ signer[i] = NoKey /\ Newest = NoKey
          /\ LoadKeys(i) /\ Generate(i, "sign")
          /\ UNCHANGED minted
    /\ UNCHANGED <<proofs, req, refused, nilSigner, overlapped>>

\* Rotate takes the lock and forgets the signer.
Rotate(i) ==
    /\ job[i].pc = "idle"
    /\ signer' = [signer EXCEPT ![i] = NoKey]
    /\ Generate(i, "rotate")
    /\ overlapped' = (overlapped \/ \E j \in Instances : job[j].op = "rotate")
    /\ UNCHANGED <<verifiers, minted, proofs, req, refused, nilSigner>>

CreateKey(i) ==
    /\ job[i].pc = "insert"
    /\ key' = [key EXCEPT ![job[i].key] = "live"]
    /\ job' = [job EXCEPT ![i].pc = IF job[i].op = "rotate" THEN "retire" ELSE "reload"]
    /\ UNCHANGED <<signer, verifiers, minted, proofs, req, refused, nilSigner, overlapped>>

\* Mutant: the new key is retired with the others.
RetireAll(i) ==
    /\ job[i].pc = "retire"
    /\ key' = [k \in Key |-> IF key[k] = "live" THEN "retired" ELSE key[k]]
    /\ job' = [job EXCEPT ![i].pc = "reload"]
    /\ UNCHANGED <<signer, verifiers, minted, proofs, req, refused, nilSigner, overlapped>>

\* Mutant: the old keys are deleted.
RetireDeletes(i) ==
    /\ job[i].pc = "retire"
    /\ key' = [k \in Key |-> IF key[k] = "live" /\ k # job[i].key THEN "gone" ELSE key[k]]
    /\ job' = [job EXCEPT ![i].pc = "reload"]
    /\ UNCHANGED <<signer, verifiers, minted, proofs, req, refused, nilSigner, overlapped>>

\* RetireOAuthKeys: every other key that is not retired.
RetireKeys(i) ==
    /\ job[i].pc = "retire"
    /\ key' = [k \in Key |-> IF key[k] = "live" /\ k # job[i].key THEN "retired" ELSE key[k]]
    /\ job' = [job EXCEPT ![i].pc = "reload"]
    /\ UNCHANGED <<signer, verifiers, minted, proofs, req, refused, nilSigner, overlapped>>

\* The end of generateKey; signingKey returns what loadKeys found.
Reload(i) ==
    /\ job[i].pc = "reload"
    /\ LoadKeys(i)
    /\ job' = [job EXCEPT ![i] = NoJob]
    /\ minted' = IF job[i].op = "sign" /\ Newest # NoKey THEN minted \cup {Newest} ELSE minted
    /\ nilSigner' = (nilSigner \/ (job[i].op = "sign" /\ Newest = NoKey))
    /\ UNCHANGED <<key, proofs, req, refused, overlapped>>

\* A statement of generateKey fails: signingKey reads the table again and takes
\* the key of a concurrent process, if there is one.
Fail(i) ==
    /\ job[i].pc # "idle"
    /\ job' = [job EXCEPT ![i] = NoJob]
    /\ \/ /\ job[i].op = "sign" /\ LoadKeys(i)
          /\ minted' = minted \cup ({Newest} \ {NoKey})
       \/ UNCHANGED <<signer, verifiers, minted>>
    /\ UNCHANGED <<key, proofs, req, refused, nilSigner, overlapped>>

\* The process is restarted and its memory is empty.
Restart(i) ==
    /\ signer' = [signer EXCEPT ![i] = NoKey]
    /\ verifiers' = [verifiers EXCEPT ![i] = {}]
    /\ job' = [job EXCEPT ![i] = NoJob]
    /\ UNCHANGED <<key, minted, proofs, req, refused, nilSigner, overlapped>>

-----------------------------------------------------------------------------
(* Verification.                                                           *)

\* verifier of verifyAccessToken: from memory, or after a reload.
Verifier(i, k) ==
    /\ job[i].pc = "idle" /\ k \in minted
    /\ IF k \in verifiers[i] THEN UNCHANGED <<signer, verifiers>> ELSE LoadKeys(i)
    /\ refused' = (refused \/ (k \notin verifiers[i] /\ k \notin Rows))
    /\ UNCHANGED <<key, job, minted, proofs, req, nilSigner, overlapped>>

Distance(a, b) == IF a >= b THEN a - b ELSE b - a

\* checkDPoP: the age of the proof.
CheckDPoP(q, p) ==
    /\ req[q].pc = "idle" /\ Distance(now, iat[p]) <= ProofWindow
    /\ req' = [req EXCEPT ![q] = [pc |-> "claim", at |-> now, proof |-> p]]
    /\ UNCHANGED <<keys, proofs, refused>>

\* ClaimOAuthProof: an INSERT with a primary key.
ClaimProof(q) ==
    LET p == req[q].proof IN
    /\ req[q].pc = "claim"
    /\ IF claim[p] = NoTime
         THEN /\ claim' = [claim EXCEPT ![p] = req[q].at + ProofWindow]
              /\ accepted' = [accepted EXCEPT ![p] = @ + 1]
         ELSE UNCHANGED <<claim, accepted>>
    /\ req' = [req EXCEPT ![q] = Idle]
    /\ UNCHANGED <<keys, iat, now, refused>>

\* Mutant: rows go as soon as they expire.
CleanupAtOnce ==
    /\ \E p \in Proofs : claim[p] # NoTime /\ claim[p] < now
    /\ claim' = [p \in Proofs |-> IF claim[p] < now THEN NoTime ELSE claim[p]]
    /\ UNCHANGED <<keys, iat, now, req, accepted, refused>>

\* Cleanup, DeleteExpiredOAuthRows: expires_at < now - cleanupWindow.
Cleanup ==
    /\ \E p \in Proofs : claim[p] # NoTime /\ claim[p] < now - CleanupWindow
    /\ claim' = [p \in Proofs |-> IF claim[p] < now - CleanupWindow THEN NoTime ELSE claim[p]]
    /\ UNCHANGED <<keys, iat, now, req, accepted, refused>>

\* No request is older than MaxDelay.
Tick ==
    /\ now < MaxTime
    /\ \A q \in Requests : req[q].pc = "idle" \/ now < req[q].at + MaxDelay
    /\ now' = now + 1
    /\ UNCHANGED <<keys, iat, claim, req, accepted, refused>>

-----------------------------------------------------------------------------
KeyStep(i) ==
    \/ SigningKey(i) \/ Rotate(i) \/ CreateKey(i) \/ RetireKeys(i) \/ Reload(i) \/ Fail(i) \/ Restart(i)
    \/ \E k \in Key : Verifier(i, k)

ProofStep ==
    \/ \E q \in Requests : ClaimProof(q) \/ \E p \in Proofs : CheckDPoP(q, p)
    \/ Cleanup \/ Tick

Next ==
    /\ \/ part = "keys" /\ \E i \in Instances : KeyStep(i)
       \/ part = "proofs" /\ ProofStep
    /\ UNCHANGED part

Spec == Init /\ [][Next]_vars

-----------------------------------------------------------------------------
(* Properties.                                                             *)

TypeOK ==
    /\ part \in Parts
    /\ key \in [Key -> {"none", "made", "live", "retired"}]
    /\ signer \in [Instances -> Key \cup {NoKey}] /\ verifiers \in [Instances -> SUBSET Key]
    /\ job \in [Instances -> Job] /\ minted \subseteq Key
    /\ iat \in [Proofs -> Time] /\ claim \in [Proofs -> Int] /\ now \in Time
    /\ req \in [Requests -> Request] /\ accepted \in [Proofs -> Nat]
    /\ refused \in BOOLEAN /\ nilSigner \in BOOLEAN /\ overlapped \in BOOLEAN

\* A token that any instance signed is verified by every instance and by the
\* published key set, although an instance goes on to sign with a key that
\* another has retired, and restarts with an empty memory.
Verifiable == TypeOK /\ minted \subseteq Rows /\ ~refused

\* signingKey returns a key whenever it returns no error, unless two instances
\* rotated at the same time and each retired the key of the other.
SignerFound == nilSigner => overlapped

\* A proof is accepted once, although its row is removed after a while: at that
\* time it is outside the window of every request, and of those under way.
ProofOnce == \A p \in Proofs : accepted[p] <= 1
=============================================================================
