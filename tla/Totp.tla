-------------------------------- MODULE Totp --------------------------------
(***************************************************************************)
(* The second factor of one user: enrolment, confirmation, challenge,      *)
(* code, recovery code, regeneration and removal (handlers_totp.go), over  *)
(* the statements of internal/sqlstore/totp.go and tokens.go.              *)
(*                                                                         *)
(* Users do not share rows of these tables, so one user is enough; the     *)
(* user is not deleted here (module Accounts).  Every store statement is   *)
(* one step.  A transaction that deletes and then inserts is two: under    *)
(* READ COMMITTED its DELETE matches the rows of its own snapshot and does *)
(* not see what a concurrent transaction inserts.                          *)
(*                                                                         *)
(* A code of the authenticator is the pair of its secret and its step: two *)
(* distinct pairs are taken to show distinct digits.                       *)
(***************************************************************************)
EXTENDS Integers, FiniteSets

CONSTANTS
    Secrets, Challenges, Sessions, Requests,
    Mixes,          \* what a behaviour is about: does the user start with a confirmed
                    \* enrolment, the endpoints in use, may a request end between two
                    \* statements, the secrets; bounds: the last time step, and
                    \* how many challenges are issued
    Skew,           \* totp.Params.Skew: steps accepted on each side
    SetSize,        \* RecoveryCodeCount
    StoreFails,     \* may the store refuse a statement whose failure is only logged?
    MaxStep,        \* bound: the last time step
    MaxSet          \* bound: how many sets of recovery codes are issued

AllOps == {"signin", "enrol", "confirm", "disable", "verify", "recovery", "regenerate"}

ASSUME TotpAssumption ==
    /\ Secrets # {} /\ StoreFails \in BOOLEAN
    /\ Mixes \subseteq [enrolled : BOOLEAN, ops : SUBSET AllOps, aborts : BOOLEAN, secrets : SUBSET Secrets,
                       last : 1..MaxStep, challenges : 1..Cardinality(Challenges)]
    /\ \A m \in Mixes : m.secrets # {}
    /\ Skew \in Nat /\ SetSize \in Nat \ {0}
    /\ MaxStep \in Nat \ {0} /\ MaxSet \in Nat \ {0}
    /\ "none" \notin Secrets \cup Challenges \cup Sessions

VARIABLES
    mix,        \* the member of Mixes, fixed
    clock,      \* the current time step
    row,        \* the TOTP row of the user
    codes,      \* the recovery codes in the table, by set and index
    sets,       \* how many sets were issued
    chal,       \* chal[c]: the one-time tokens of kind "mfa"
    sess,       \* sess[s]: the sessions of the user
    req,        \* req[q]: the local state of a request
    accepted,   \* history: how often each proof was accepted
    proven,     \* history: the secrets of which a code was accepted
    confirms    \* history: how many confirmations committed

vars == <<mix, clock, row, codes, sets, chal, sess, req, accepted, proven, confirms>>

\* What only the histories record.
ghosts == <<accepted, proven, confirms>>

Ops == mix.ops

-----------------------------------------------------------------------------
TimeSteps == 1..MaxStep

Codes == [secret : Secrets, step : TimeSteps]

RecoveryCodes == [set : 1..MaxSet, index : 1..SetSize]

SetOf(n) == [set : {n}, index : 1..SetSize]

NoCode == [secret |-> "none", step |-> 0]

Row == [exists : BOOLEAN, secret : Secrets \cup {"none"}, confirmed : BOOLEAN, lastStep : Nat]
NoEnrolment == [exists |-> FALSE, secret |-> "none", confirmed |-> FALSE, lastStep |-> 0]

\* chal: the challenge that the session consumed.  checked: the value of confirms
\* when the sign-in asked for the second factor.  born: the same at the insert.
SessRow == [st : {"unborn", "live", "gone"}, method : {"password", "totp", "recovery"},
            chal : Challenges \cup {"none"}, checked : Nat, born : Nat]

Steps == {"idle", "mfa", "issue", "token", "session", "upsert", "insert", "read", "validate",
          "advance", "confirm", "codes", "replace", "delete", "purge", "spend", "list",
          "revoke", "done"}

\* code: the proof that the request carries.  secret: the secret it read.
\* drop: the rows that the DELETE of its transaction matched.  logged: the
\* revocation of a session failed.
Local == [op : AllOps, pc : Steps, code : Codes \cup RecoveryCodes \cup {NoCode},
          secret : Secrets \cup {"none"}, chal : Challenges \cup {"none"},
          keep : Sessions \cup {"none"}, todo : SUBSET Sessions,
          drop : SUBSET (Challenges \cup RecoveryCodes),
          checked : Nat, era : Nat, ok : BOOLEAN, logged : BOOLEAN]

Fresh(op, pc) ==
    [op |-> op, pc |-> pc, code |-> NoCode, secret |-> "none", chal |-> "none", keep |-> "none",
     todo |-> {}, drop |-> {}, checked |-> 0, era |-> 0, ok |-> FALSE, logged |-> FALSE]

Free(q) == req[q].pc \in {"idle", "done"}

Live == {s \in Sessions : sess[s].st = "live"}

Pending == {c \in Challenges : chal[c] = "live"}

\* The handler answers.  Only what a property still needs is kept.
Return(q, ok) ==
    req' = [req EXCEPT ![q] =
              IF ok /\ req[q].op = "confirm"
                THEN [Fresh("confirm", "done") EXCEPT
                        !.ok = TRUE, !.keep = req[q].keep, !.era = req[q].era, !.logged = req[q].logged]
                ELSE Fresh("signin", "done")]

Goto(q, pc) == req' = [req EXCEPT ![q].pc = pc]

-----------------------------------------------------------------------------
\* A user without an enrolment, or one with a confirmed enrolment and a set of
\* recovery codes; nobody is signed in or somebody is, by password.
Init ==
    LET first == CHOOSE x \in mix.secrets : TRUE
        NoSession == [st |-> "unborn", method |-> "password", chal |-> "none",
                      checked |-> 0, born |-> 0]
    IN
    /\ clock = 1
    /\ mix \in Mixes
    /\ row = IF mix.enrolled THEN [exists |-> TRUE, secret |-> first, confirmed |-> TRUE, lastStep |-> 0]
                        ELSE NoEnrolment
    /\ codes = IF mix.enrolled THEN SetOf(1) ELSE {}
    /\ sets = IF mix.enrolled THEN 1 ELSE 0
    /\ chal = [c \in Challenges |-> "unborn"]
    /\ sess \in {[s \in Sessions |-> IF s \in open THEN [NoSession EXCEPT !.st = "live"]
                                                   ELSE NoSession] :
                    open \in {T \in SUBSET Sessions : Cardinality(T) <= 1}}
    /\ req = [q \in Requests |-> Fresh("signin", "idle")]
    /\ accepted = [p \in Codes \cup RecoveryCodes |-> 0]
    /\ proven = IF mix.enrolled THEN {first} ELSE {}
    /\ confirms = IF mix.enrolled THEN 1 ELSE 0

Tick ==
    /\ clock < mix.last
    /\ clock' = clock + 1
    /\ UNCHANGED <<row, codes, sets, chal, sess, req, ghosts>>

\* The lifetime of a challenge ends.
ExpireChallenge(c) ==
    /\ chal[c] = "live"
    /\ chal' = [chal EXCEPT ![c] = "gone"]
    /\ UNCHANGED <<clock, row, codes, sets, sess, req, ghosts>>

\* The client goes away, or the process ends: the statements that are left of
\* the handler do not run.
Abort(q) ==
    /\ mix.aborts /\ ~Free(q)
    /\ Return(q, FALSE)
    /\ UNCHANGED <<clock, row, codes, sets, chal, sess, ghosts>>

-----------------------------------------------------------------------------
(* First factor.                                                           *)

\* SignIn, after the password is proven.
SignInStart(q) ==
    /\ "signin" \in Ops /\ Free(q)
    /\ req' = [req EXCEPT ![q] = Fresh("signin", "mfa")]
    /\ UNCHANGED <<clock, row, codes, sets, chal, sess, ghosts>>

\* Mutant: the second factor is never asked for.
TotpIgnored(q) ==
    /\ req[q].pc = "mfa"
    /\ req' = [req EXCEPT ![q].pc = "session", ![q].checked = confirms]
    /\ UNCHANGED <<clock, row, codes, sets, chal, sess, ghosts>>

\* mfaChallenge: totpConfirmed reads the enrolment.
TotpConfirmed(q) ==
    /\ req[q].pc = "mfa"
    /\ req' = [req EXCEPT ![q].pc = IF row.confirmed THEN "issue" ELSE "session",
                          ![q].checked = confirms]
    /\ UNCHANGED <<clock, row, codes, sets, chal, sess, ghosts>>

\* issueToken with ReplaceExisting: DeleteByIdentifier.
IssueDelete(q) ==
    /\ req[q].pc = "issue"
    /\ req' = [req EXCEPT ![q].pc = "token", ![q].drop = Pending]
    /\ UNCHANGED <<clock, row, codes, sets, chal, sess, ghosts>>

\* issueToken: Create and commit.  The caller answers with the challenge.
IssueToken(q, c) ==
    /\ req[q].pc = "token" /\ chal[c] = "unborn"
    /\ Cardinality({x \in Challenges : chal[x] # "unborn"}) < mix.challenges
    /\ chal' = [x \in Challenges |->
                   IF x = c THEN "live"
                   ELSE IF x \in req[q].drop \cap Pending THEN "gone" ELSE chal[x]]
    /\ Return(q, TRUE)
    /\ UNCHANGED <<clock, row, codes, sets, sess, ghosts>>

\* createSession, of the sign-in and of the second step.  The session that the
\* request carried is deleted first.
CreateSession(q, s, carried) ==
    LET l == req[q] IN
    /\ l.pc = "session" /\ sess[s].st = "unborn"
    /\ sess' = [x \in Sessions |->
                   IF x = s THEN [st |-> "live", chal |-> l.chal, checked |-> l.checked,
                                  born |-> confirms,
                                  method |-> CASE l.op = "signin" -> "password"
                                               [] l.op = "verify" -> "totp"
                                               [] l.op = "recovery" -> "recovery"]
                   ELSE IF x \in carried \cap Live THEN [sess[x] EXCEPT !.st = "gone"]
                   ELSE sess[x]]
    /\ Return(q, TRUE)
    /\ UNCHANGED <<clock, row, codes, sets, chal, ghosts>>

-----------------------------------------------------------------------------
(* Enrolment.                                                              *)

\* handleTOTPEnrol: requireSession and Get.  A confirmed enrolment is refused.
EnrolStart(q, s) ==
    /\ "enrol" \in Ops /\ Free(q) /\ s \in Live
    /\ ~row.confirmed
    /\ req' = [req EXCEPT ![q] = Fresh("enrol", "upsert")]
    /\ UNCHANGED <<clock, row, codes, sets, chal, sess, ghosts>>

FreshSecret(x) == x # row.secret /\ x \notin proven /\ \A q \in Requests : req[q].secret # x

\* TOTP().Upsert: the UPDATE; when it matches no row, the INSERT follows.
UpsertUpdate(q, x) ==
    /\ req[q].pc = "upsert" /\ FreshSecret(x)
    /\ IF row.exists
         THEN /\ row' = [exists |-> TRUE, secret |-> x, confirmed |-> FALSE, lastStep |-> 0]
              /\ Return(q, TRUE)
         ELSE row' = row /\ Goto(q, "insert")
    /\ UNCHANGED <<clock, codes, sets, chal, sess, ghosts>>

\* The INSERT fails on the primary key when another enrolment came first.
UpsertInsert(q, x) ==
    /\ req[q].pc = "insert" /\ FreshSecret(x)
    /\ row' = IF row.exists THEN row
              ELSE [exists |-> TRUE, secret |-> x, confirmed |-> FALSE, lastStep |-> 0]
    /\ Return(q, ~row.exists)
    /\ UNCHANGED <<clock, codes, sets, chal, sess, ghosts>>

\* handleTOTPConfirm, handleTOTPDisable and handleTOTPRegenerate: requireSession.
CodeStart(q, op, s, code) ==
    /\ op \in Ops \cap {"confirm", "disable", "regenerate"}
    /\ Free(q) /\ s \in Live
    /\ req' = [req EXCEPT ![q] = [Fresh(op, "read") EXCEPT
                                    !.code = code, !.keep = IF op = "confirm" THEN s ELSE "none"]]
    /\ UNCHANGED <<clock, row, codes, sets, chal, sess, ghosts>>

\* Mutant: the challenge is looked up and not consumed.
PeekChallenge(q, op, c, code) ==
    /\ op \in Ops /\ Free(q) /\ chal[c] = "live"
    /\ \/ op = "verify" /\ code \in Codes
       \/ op = "recovery" /\ code \in RecoveryCodes
    /\ req' = [req EXCEPT ![q] = [Fresh(op, IF op = "verify" THEN "read" ELSE "spend") EXCEPT
                                    !.code = code, !.chal = c]]
    /\ UNCHANGED <<clock, row, codes, sets, chal, sess, ghosts>>

\* consumeToken, the first statement of handleTOTPVerify and handleTOTPRecovery.
ConsumeChallenge(q, op, c, code) ==
    /\ op \in Ops /\ Free(q) /\ chal[c] = "live"
    /\ \/ op = "verify" /\ code \in Codes
       \/ op = "recovery" /\ code \in RecoveryCodes
    /\ chal' = [chal EXCEPT ![c] = "consumed"]
    /\ req' = [req EXCEPT ![q] = [Fresh(op, IF op = "verify" THEN "read" ELSE "spend") EXCEPT
                                    !.code = code, !.chal = c]]
    /\ UNCHANGED <<clock, row, codes, sets, sess, ghosts>>

\* totpEnrolment, and what each handler asks of ConfirmedAt.
ReadEnrolment(q) ==
    LET l == req[q] IN
    /\ l.pc = "read"
    /\ IF /\ row.exists
          /\ l.op = "confirm" => ~row.confirmed
          /\ l.op \in {"verify", "regenerate"} => row.confirmed
         THEN req' = [req EXCEPT ![q].pc = "validate", ![q].secret = row.secret]
         ELSE Return(q, FALSE)
    /\ UNCHANGED <<clock, row, codes, sets, chal, sess, ghosts>>

\* totp.Validate: the steps around the clock, against the secret that was read.
Valid(secret, code) == code.secret = secret /\ code.step \in (clock - Skew)..(clock + Skew)

Validate(q) ==
    /\ req[q].pc = "validate"
    /\ IF Valid(req[q].secret, req[q].code) THEN Goto(q, "advance") ELSE Return(q, FALSE)
    /\ UNCHANGED <<clock, row, codes, sets, chal, sess, ghosts>>

\* The statement that follows an accepted code.
AfterCode == [verify |-> "session", confirm |-> "confirm", disable |-> "delete",
              regenerate |-> "codes"]

Accept(code) == accepted' = [accepted EXCEPT ![code] = @ + 1]

\* The code is accepted and the row keeps the step last.
Advance(q, last) ==
    LET l == req[q] IN
    /\ row' = [row EXCEPT !.lastStep = last]
    /\ Accept(l.code)
    /\ proven' = proven \cup {l.code.secret}
    /\ Goto(q, AfterCode[l.op])

\* Mutant: the UPDATE has no condition on last_step.
AdvanceAlways(q) ==
    /\ req[q].pc = "advance" /\ row.exists
    /\ Advance(q, req[q].code.step)
    /\ UNCHANGED <<clock, codes, sets, chal, sess, confirms>>

\* TOTP().AdvanceStep: UPDATE ... WHERE user_id = ? AND last_step < ?.
AdvanceStep(q) ==
    LET l == req[q] IN
    /\ l.pc = "advance"
    /\ IF row.exists /\ row.lastStep < l.code.step
         THEN Advance(q, l.code.step)
         ELSE Return(q, FALSE) /\ UNCHANGED <<row, accepted, proven>>
    /\ UNCHANGED <<clock, codes, sets, chal, sess, confirms>>

\* TOTP().Confirm: UPDATE ... WHERE user_id = ?.
Confirm(q) ==
    /\ req[q].pc = "confirm"
    /\ IF row.exists
         THEN /\ row' = [row EXCEPT !.confirmed = TRUE]
              /\ confirms' = confirms + 1
              /\ req' = [req EXCEPT ![q].pc = "codes", ![q].era = confirms + 1]
         ELSE Return(q, FALSE) /\ UNCHANGED <<row, confirms>>
    /\ UNCHANGED <<clock, codes, sets, chal, sess, accepted, proven>>

\* issueRecoveryCodes: ReplaceAll deletes the set it sees ...
ReplaceDelete(q) ==
    /\ req[q].pc = "codes"
    /\ req' = [req EXCEPT ![q].pc = "replace", ![q].drop = codes]
    /\ UNCHANGED <<clock, row, codes, sets, chal, sess, ghosts>>

\* ... and inserts a new one.
ReplaceInsert(q) ==
    LET l == req[q] IN
    /\ l.pc = "replace" /\ sets < MaxSet
    /\ codes' = (codes \ l.drop) \cup SetOf(sets + 1)
    /\ sets' = sets + 1
    /\ IF l.op = "confirm" THEN req' = [req EXCEPT ![q].pc = "list", ![q].drop = {}]
                           ELSE Return(q, TRUE)
    /\ UNCHANGED <<clock, row, chal, sess, accepted, proven, confirms>>

\* Mutant: the session list is taken to be only the current session.
RevokeNone(q) ==
    /\ req[q].pc = "list"
    /\ req' = [req EXCEPT ![q].pc = "revoke"]
    /\ UNCHANGED <<clock, row, codes, sets, chal, sess, ghosts>>

\* handleTOTPConfirm: revokeOtherSessions.  ListByUser may fail, which is logged
\* and ends the revocation; the handler still answers success.
RevokeList(q) ==
    /\ req[q].pc = "list"
    /\ \/ req' = [req EXCEPT ![q].pc = "revoke", ![q].todo = Live \ {req[q].keep}]
       \/ StoreFails /\ req' = [req EXCEPT ![q].pc = "revoke", ![q].logged = TRUE]
    /\ UNCHANGED <<clock, row, codes, sets, chal, sess, ghosts>>

\* One Delete per listed session.  A failure is logged and the next one follows.
RevokeOne(q, s) ==
    /\ req[q].pc = "revoke" /\ s \in req[q].todo
    /\ \/ /\ sess' = [sess EXCEPT ![s].st = "gone"]
          /\ req' = [req EXCEPT ![q].todo = @ \ {s}]
       \/ /\ StoreFails /\ sess' = sess
          /\ req' = [req EXCEPT ![q].todo = @ \ {s}, ![q].logged = TRUE]
    /\ UNCHANGED <<clock, row, codes, sets, chal, ghosts>>

RevokeDone(q) ==
    /\ req[q].pc = "revoke" /\ req[q].todo = {}
    /\ Return(q, TRUE)
    /\ UNCHANGED <<clock, row, codes, sets, chal, sess, ghosts>>

\* Mutant: the code is looked up and not deleted.
PeekRecovery(q) ==
    LET l == req[q] IN
    /\ l.pc = "spend"
    /\ IF l.code \in codes THEN Accept(l.code) /\ Goto(q, "delete")
                           ELSE Return(q, FALSE) /\ UNCHANGED accepted
    /\ UNCHANGED <<clock, row, codes, sets, chal, sess, proven, confirms>>

\* RecoveryCodes().Consume: DELETE ... WHERE user_id = ? AND code_hash = ?.
SpendRecovery(q) ==
    LET l == req[q] IN
    /\ l.pc = "spend"
    /\ IF l.code \in codes
         THEN /\ codes' = codes \ {l.code}
              /\ Accept(l.code)
              /\ Goto(q, "delete")
         ELSE Return(q, FALSE) /\ UNCHANGED <<codes, accepted>>
    /\ UNCHANGED <<clock, row, sets, chal, sess, proven, confirms>>

\* TOTP().Delete, of handleTOTPDisable and handleTOTPRecovery.  No row is no error.
DeleteEnrolment(q) ==
    /\ req[q].pc = "delete"
    /\ row' = NoEnrolment
    /\ Goto(q, "purge")
    /\ UNCHANGED <<clock, codes, sets, chal, sess, ghosts>>

\* RecoveryCodes().DeleteByUser.  A failure is logged and the handler goes on.
PurgeCodes(q) ==
    /\ req[q].pc = "purge"
    /\ codes' = {} \/ (StoreFails /\ codes' = codes)
    /\ IF req[q].op = "recovery" THEN Goto(q, "session") ELSE Return(q, TRUE)
    /\ UNCHANGED <<clock, row, sets, chal, sess, ghosts>>

-----------------------------------------------------------------------------
Guesses == {c \in Codes : c.secret \in mix.secrets}

Step ==
    \/ Tick
    \/ \E c \in Challenges : ExpireChallenge(c)
    \/ \E q \in Requests :
          \/ SignInStart(q) \/ TotpConfirmed(q) \/ IssueDelete(q) \/ Abort(q)
          \/ \E c \in Challenges : IssueToken(q, c)
          \/ \E s \in Sessions, carried \in {{}} \cup {{s} : s \in Sessions} :
                 CreateSession(q, s, carried)
          \/ \E s \in Sessions :
                \/ EnrolStart(q, s) \/ RevokeOne(q, s)
                \/ \E op \in Ops, code \in Guesses : CodeStart(q, op, s, code)
          \/ \E x \in mix.secrets : UpsertUpdate(q, x) \/ UpsertInsert(q, x)
          \/ \E op \in Ops, c \in Challenges, code \in Guesses \cup RecoveryCodes :
                 ConsumeChallenge(q, op, c, code)
          \/ ReadEnrolment(q) \/ Validate(q) \/ AdvanceStep(q) \/ Confirm(q)
          \/ ReplaceDelete(q) \/ ReplaceInsert(q) \/ RevokeList(q) \/ RevokeDone(q)
          \/ SpendRecovery(q) \/ DeleteEnrolment(q) \/ PurgeCodes(q)

Next == Step /\ UNCHANGED mix

Spec == Init /\ [][Next]_vars

-----------------------------------------------------------------------------
(* Properties.                                                             *)

TypeOK ==
    /\ mix \in Mixes /\ clock \in TimeSteps
    /\ row \in Row
    /\ codes \subseteq RecoveryCodes /\ sets \in 0..MaxSet
    /\ chal \in [Challenges -> {"unborn", "live", "consumed", "gone"}]
    /\ sess \in [Sessions -> SessRow]
    /\ req \in [Requests -> Local]
    /\ accepted \in [Codes \cup RecoveryCodes -> Nat]
    /\ proven \subseteq Secrets /\ confirms \in Nat

\* handlers_totp.go: "a code that an attacker reads cannot be used a second time
\* inside its own window".  No code of the enrolled authenticator is
\* accepted twice, by whatever endpoints and however the requests overlap.  (The
\* codes of a secret that a new enrolment replaced while it was being confirmed
\* may be: AdvanceStep does not ask which secret the row holds.)
CodeOnce == \A p \in Codes : p.secret = row.secret => accepted[p] <= 1

\* handlers_totp.go, of recovery codes: "one code authenticates one time".
RecoveryOnce == \A p \in RecoveryCodes : accepted[p] <= 1

\* One challenge stands for one attempt: no two sessions, and no session and a
\* request in flight, come from the same challenge, although a right code and a
\* recovery code may be sent with it at the same time.
ChallengeOnce ==
    LET uses(c) == Cardinality({s \in Sessions : sess[s].chal = c})
                   + Cardinality({q \in Requests : ~Free(q) /\ req[q].chal = c})
    IN  \A c \in Challenges : uses(c) <= 1

\* Each proof of the second factor counts once: the code, the recovery code and
\* the challenge it answers.
FactorOnce == TypeOK /\ CodeOnce /\ RecoveryOnce /\ ChallengeOnce

\* While an enrolment is confirmed, a session of the password alone was begun
\* before that confirmation: its sign-in had asked for the second factor earlier.
PasswordSessionPredates ==
    \A s \in Live : (row.confirmed /\ sess[s].method = "password") => sess[s].checked < confirms

\* handlers_totp.go: "a session that existed before the upgrade must not survive
\* it": once the confirmation has answered, only its own session is left of those
\* from before, unless a revocation failed, which the handler logs and passes over.
UpgradeEndsSessions ==
    \A q \in Requests : LET l == req[q] IN
        (l.pc = "done" /\ l.ok /\ l.op = "confirm" /\ ~l.logged) =>
            \A s \in Live : sess[s].born >= l.era \/ s = l.keep
=============================================================================
