------------------------------ MODULE Accounts ------------------------------
(***************************************************************************)
(* The flows that change an account while other requests of the same       *)
(* account are in flight: sign-in, password change, password reset, proof  *)
(* of the address (magic link and email verification), email change, and   *)
(* the admin operations Disable, Enable and ResetPassword.                 *)
(*                                                                         *)
(* A request is a record of its local variables and a program counter.     *)
(* Every statement a handler sends to the store is one step; a transaction *)
(* whose statements are all writes is one step (its commit), a transaction *)
(* that reads first is two, because READ COMMITTED, the isolation of the   *)
(* Postgres store, does not hold a plain SELECT.                           *)
(*                                                                         *)
(* A password is named by the era in which it was set: era[u] counts the   *)
(* committed changes of u that have to end the sessions from before.       *)
(***************************************************************************)
EXTENDS Integers, FiniteSets

CONSTANTS
    Users, Sessions, Requests,
    Ops,                    \* the flows of a run, a subset of AllOps
    RequireVerification,    \* EmailPasswordOptions.RequireEmailVerification
    StoreFails,             \* may the store refuse a revocation?
    Registered,             \* the users rows there may be at the start
    WeakHashes,             \* the values weak may have at the start
    MaxEra,                 \* bound: no flow that moves era[u] starts from here
    MaxMail                 \* bound: live one-time tokens at a time

AllOps == {"signin", "change", "reset", "magic", "verify", "email",
           "disable", "enable", "adminreset", "delete"}

ASSUME AccountsAssumption ==
    /\ Users # {} /\ Ops \subseteq AllOps
    /\ {RequireVerification, StoreFails} \subseteq BOOLEAN
    /\ WeakHashes \subseteq BOOLEAN
    /\ Registered \subseteq [exists : {TRUE}, verified : BOOLEAN, disabled : {FALSE}, must : BOOLEAN]
    /\ {MaxEra, MaxMail} \subseteq Nat
    /\ "none" \notin Sessions

VARIABLES
    user,       \* user[u]: the users row, the columns these flows use
    cred,       \* cred[u]: the credentials row; gen = 0 is no row
    sess,       \* sess[s]: the sessions table
    mailed,     \* the live one-time tokens, as <<flow, user>>
    req,        \* req[q]: the local state of a request
    era,        \* history: see above
    credEra,    \* history: the era in which the password last changed
    reverted    \* history: users whose new password a rehash has overwritten

vars == <<user, cred, sess, mailed, req, era, credEra, reverted>>

-----------------------------------------------------------------------------
UserRow == [exists : BOOLEAN, verified : BOOLEAN, disabled : BOOLEAN, must : BOOLEAN]

\* weak: the hash was made with other Argon2 parameters than the configured.
Cred == [gen : Nat, weak : BOOLEAN]
NoCred == [gen |-> 0, weak |-> FALSE]

\* proof: the password that was proven for the session, 0 for another method.
\* born: the era in which the row was inserted.  since: credEra when the request
\* that created it began.
SessRow == [st : {"unborn", "live", "gone"}, user : Users, proof : Nat, born : Nat, since : Nat]

Steps == {"idle", "mail", "user", "cred", "rehash", "session", "commit", "keep", "list",
          "revoke", "revokeall", "done"}

\* row: the user row this request read.  keep: the session the revocation
\* spares.  era: the era this request committed.  logged: a revocation failed.
Local == [op : AllOps, pc : Steps, user : Users, pw : Nat, since : Nat, row : UserRow,
          keep : Sessions \cup {"none"}, todo : SUBSET Sessions, era : Nat,
          logged : BOOLEAN]

NoUserRow == [exists |-> FALSE, verified |-> FALSE, disabled |-> FALSE, must |-> FALSE]

Fresh(op, pc, u) ==
    [op |-> op, pc |-> pc, user |-> u, pw |-> 0, since |-> 0, row |-> NoUserRow, keep |-> "none",
     todo |-> {}, era |-> 0, logged |-> FALSE]

Free(q) == req[q].pc \in {"idle", "done"}

LiveOf(u) == {s \in Sessions : sess[s].st = "live" /\ sess[s].user = u}

Unborn == {s \in Sessions : sess[s].st = "unborn"}

\* The sessions table without the rows in S.
Without(S) ==
    [s \in Sessions |-> IF s \in S /\ sess[s].st = "live" THEN [sess[s] EXCEPT !.st = "gone"]
                                                          ELSE sess[s]]

\* A slot whose request is over.  What OldSessionsEnd needs of one that committed
\* an era and answered success stays in the record.
Done(u, eraDone, kept) ==
    [Fresh("signin", "done", u) EXCEPT !.era = eraDone, !.keep = kept]

\* The handler returns.
Return(q, ok) ==
    LET l == req[q] IN
    req' = [req EXCEPT ![q] = IF ok /\ ~l.logged /\ l.era > 0
                                THEN Done(l.user, l.era, l.keep) ELSE Done(l.user, 0, "none")]

Goto(q, pc) == req' = [req EXCEPT ![q].pc = pc]

-----------------------------------------------------------------------------
Init ==
    /\ user \in [Users -> Registered]
    /\ cred \in [Users -> {[gen |-> 1, weak |-> w] : w \in WeakHashes}]
    /\ sess = [s \in Sessions |-> [st |-> "unborn", user |-> CHOOSE u \in Users : TRUE,
                                   proof |-> 0, born |-> 0, since |-> 0]]
    /\ mailed = {}
    /\ req = [q \in Requests |-> Fresh("signin", "idle", CHOOSE u \in Users : TRUE)]
    /\ era = [u \in Users |-> 1]
    /\ credEra = [u \in Users |-> 1]
    /\ reverted = {}

\* issueToken with ReplaceExisting: one live token per flow and address.  The
\* foreign key refuses a token of an absent user.
Issued(op, u) ==
    /\ user[u].exists /\ <<op, u>> \notin mailed /\ Cardinality(mailed) < MaxMail
    /\ mailed' = mailed \cup {<<op, u>>}

\* The three requests below ask for no session, so reading the user and issuing
\* the token are one step: only the deletion of the user could come between.
ForgotPassword(u) ==
    /\ "reset" \in Ops /\ Issued("reset", u)
    /\ UNCHANGED <<user, cred, sess, req, era, credEra, reverted>>

SendMagicLink(u) ==
    /\ "magic" \in Ops /\ Issued("magic", u)
    /\ UNCHANGED <<user, cred, sess, req, era, credEra, reverted>>

\* handleVerificationSend: a verified address gets no message.
SendVerification(u) ==
    /\ "verify" \in Ops /\ ~user[u].verified /\ Issued("verify", u)
    /\ UNCHANGED <<user, cred, sess, req, era, credEra, reverted>>

\* handleEmailChange: requireSession, then the password of a user who has one.
EmailChangeStart(q, s, pw) ==
    LET u == sess[s].user IN
    /\ "email" \in Ops /\ Free(q)
    /\ s \in LiveOf(u) /\ ~user[u].disabled /\ ~user[u].must
    /\ cred[u].gen \in {0, pw}
    /\ req' = [req EXCEPT ![q] = Fresh("email", "mail", u)]
    /\ UNCHANGED <<user, cred, sess, mailed, era, credEra, reverted>>

\* The answer is the same for an address that somebody has, for a token that
\* could not be issued and for one that was.
EmailChangeMail(q) ==
    LET l == req[q] IN
    /\ l.pc = "mail"
    /\ Issued("email", l.user) \/ mailed' = mailed
    /\ Return(q, TRUE)
    /\ UNCHANGED <<user, cred, sess, era, credEra, reverted>>

\* deleteUser: one DELETE that cascades to every row of the user.
DeleteUser(u) ==
    /\ "delete" \in Ops /\ user[u].exists
    /\ user' = [user EXCEPT ![u].exists = FALSE]
    /\ cred' = [cred EXCEPT ![u] = NoCred]
    /\ sess' = Without(LiveOf(u))
    /\ mailed' = {t \in mailed : t[2] # u}
    /\ UNCHANGED <<req, era, credEra, reverted>>

-----------------------------------------------------------------------------
(* SignIn (operations.go).                                                 *)

\* GetByNormalizedEmail; pw is the password of the form.
SignInReadUser(q, u, pw) ==
    /\ "signin" \in Ops /\ Free(q) /\ user[u].exists
    /\ req' = [req EXCEPT ![q] = [Fresh("signin", "cred", u) EXCEPT !.row = user[u],
                                                !.pw = pw, !.since = credEra[u]]]
    /\ UNCHANGED <<user, cred, sess, mailed, era, credEra, reverted>>

\* GetCredential and every check of SignIn.  The checks of the user use the row
\* of the earlier read.
SignInCheck(q) ==
    LET l == req[q]
        c == cred[l.user]
    IN
    /\ l.op = "signin" /\ l.pc = "cred"
    /\ IF c.gen = l.pw /\ ~l.row.disabled /\ (RequireVerification => l.row.verified)
         THEN Goto(q, IF c.weak THEN "rehash" ELSE "session")
         ELSE Return(q, FALSE)
    /\ UNCHANGED <<user, cred, sess, mailed, era, credEra, reverted>>

\* SetCredential writes the hash of the password of the form: an UPDATE, or an
\* INSERT when no row matched.  A failure is logged and the sign-in goes on.
SignInRehash(q) ==
    LET l == req[q] IN
    /\ l.pc = "rehash"
    /\ cred' = IF user[l.user].exists
                 THEN [cred EXCEPT ![l.user] = [gen |-> l.pw, weak |-> FALSE]] ELSE cred
    /\ reverted' = IF cred[l.user].gen # l.pw THEN reverted \cup {l.user} ELSE reverted
    /\ Goto(q, "session")
    /\ UNCHANGED <<user, sess, mailed, era, credEra>>

\* Mutant: no foreign key, so the row of an absent user is inserted.
IssueUnowned(q, carried) ==
    LET l == req[q] IN
    /\ l.pc = "session"
    /\ \E s \in Unborn :
          sess' = [Without(carried) EXCEPT ![s] =
                     [st |-> "live", user |-> l.user, proof |-> l.pw,
                      born |-> era[l.user], since |-> l.since]]
    /\ Return(q, TRUE)
    /\ UNCHANGED <<user, cred, mailed, era, credEra, reverted>>

\* createSession: the session of the token that the request carried goes first,
\* then the row is inserted.  The foreign key refuses an absent user.
IssueSession(q, carried) ==
    LET l == req[q] IN
    /\ l.pc = "session"
    /\ carried # {} => l.op # "verify"
    /\ \/ /\ user[l.user].exists
          /\ \E s \in Unborn :
                sess' = [Without(carried) EXCEPT ![s] =
                           [st |-> "live", user |-> l.user, proof |-> l.pw,
                            born |-> era[l.user], since |-> l.since]]
          /\ Return(q, TRUE)
       \/ /\ ~user[l.user].exists \/ Unborn = {}
          /\ sess' = Without(carried)
          /\ Return(q, FALSE)
    /\ UNCHANGED <<user, cred, mailed, era, credEra, reverted>>

-----------------------------------------------------------------------------
(* Flows that begin with a one-time token: reset, magic, verify, email.    *)

\* consumeToken: one UPDATE that matches a live token once.
Consumed(op, u) ==
    /\ <<op, u>> \in mailed /\ era[u] < MaxEra
    /\ mailed' = mailed \ {<<op, u>>}

ConsumeToken(q, op, u) ==
    /\ Free(q) /\ op # "verify" /\ Consumed(op, u)
    /\ req' = [req EXCEPT ![q] = Fresh(op, "user", u)]
    /\ UNCHANGED <<user, cred, sess, era, credEra, reverted>>

\* handleVerificationVerify resolves the session of the request first; that one
\* ends with the others, and its holder gets a fresh one.
VerifyToken(q, u, cookie) ==
    /\ Free(q) /\ Consumed("verify", u)
    /\ cookie # "none" => cookie \in LiveOf(u) /\ ~user[u].disabled
    /\ req' = [req EXCEPT ![q] = [Fresh("verify", "user", u) EXCEPT !.keep = cookie]]
    /\ UNCHANGED <<user, cred, sess, era, credEra, reverted>>

\* GetByID.  proveEmailOwnership does nothing for a verified address.
ReadUser(q) ==
    LET l == req[q]
        after == IF l.op = "change" THEN "cred"
                 ELSE IF l.op \notin {"magic", "verify"} \/ ~user[l.user].verified THEN "commit"
                 ELSE IF l.op = "magic" \/ l.keep # "none" THEN "session"
                 ELSE "done"
    IN
    /\ l.pc = "user"
    /\ IF user[l.user].exists /\ after # "done"
         THEN req' = [req EXCEPT ![q].pc = after, ![q].row = user[l.user]]
         ELSE Return(q, user[l.user].exists)
    /\ UNCHANGED <<user, cred, sess, mailed, era, credEra, reverted>>

\* A new era of u: the sessions from before have to end, and so has the
\* password if the change is one of the password.
NewEra(u, password) ==
    /\ era' = [era EXCEPT ![u] = @ + 1]
    /\ credEra' = IF password THEN [credEra EXCEPT ![u] = era[u] + 1] ELSE credEra

\* A write of a user that was deleted meanwhile fails and rolls back; so does an
\* email change whose address somebody took.
CommitFails(q) ==
    /\ req[q].pc = "commit" /\ (~user[req[q].user].exists \/ req[q].op = "email")
    /\ Return(q, FALSE)
    /\ UNCHANGED <<user, cred, sess, mailed, era, credEra, reverted>>

\* handlePasswordReset: the credential.
ResetCommit(q) ==
    LET l == req[q] IN
    /\ l.pc = "commit" /\ l.op = "reset" /\ user[l.user].exists
    /\ cred' = [cred EXCEPT ![l.user] = [gen |-> era[l.user] + 1, weak |-> FALSE]]
    /\ NewEra(l.user, TRUE)
    /\ req' = [req EXCEPT ![q].pc = "revokeall", ![q].era = era[l.user] + 1]
    /\ UNCHANGED <<user, sess, mailed, reverted>>

\* handlePasswordReset: DeleteByUser.  A failure is logged and the answer is
\* success.
ResetRevoke(q) ==
    LET l == req[q] IN
    /\ l.pc = "revokeall"
    /\ \/ sess' = Without(LiveOf(l.user)) /\ Return(q, TRUE)
       \/ /\ StoreFails
          /\ sess' = sess
          /\ req' = [req EXCEPT ![q] = Done(l.user, 0, "none")]
    /\ UNCHANGED <<user, cred, mailed, era, credEra, reverted>>

\* Mutant: the sessions from before the proof stay.
ProveKeepsSessions(q) ==
    LET l == req[q] IN
    /\ l.pc = "commit" /\ l.op \in {"magic", "verify"} /\ user[l.user].exists
    /\ cred' = IF l.op = "magic" THEN [cred EXCEPT ![l.user] = NoCred] ELSE cred
    /\ user' = [user EXCEPT ![l.user] = [l.row EXCEPT !.verified = TRUE]]
    /\ NewEra(l.user, l.op = "magic")
    /\ req' = [req EXCEPT ![q] = Done(l.user, era[l.user] + 1, "none")]
    /\ UNCHANGED <<sess, mailed, reverted>>

\* Mutant: the password from before the proof stays.
ProveKeepsPassword(q) ==
    LET l == req[q] IN
    /\ l.pc = "commit" /\ l.op \in {"magic", "verify"} /\ user[l.user].exists
    /\ sess' = Without(LiveOf(l.user))
    /\ user' = [user EXCEPT ![l.user] = [l.row EXCEPT !.verified = TRUE]]
    /\ NewEra(l.user, l.op = "magic")
    /\ req' = [req EXCEPT ![q] = Done(l.user, era[l.user] + 1, "none")]
    /\ UNCHANGED <<cred, mailed, reverted>>

\* proveEmailOwnership: one transaction.  The magic link also deletes the
\* password.  The whole row that was read is written back.
ProveCommit(q) ==
    LET l == req[q] IN
    /\ l.pc = "commit" /\ l.op \in {"magic", "verify"} /\ user[l.user].exists
    /\ cred' = IF l.op = "magic" THEN [cred EXCEPT ![l.user] = NoCred] ELSE cred
    /\ sess' = Without(LiveOf(l.user))
    /\ user' = [user EXCEPT ![l.user] = [l.row EXCEPT !.verified = TRUE]]
    /\ NewEra(l.user, l.op = "magic")
    /\ IF l.op = "magic" \/ l.keep # "none"
         THEN req' = [req EXCEPT ![q].pc = "session", ![q].era = era[l.user] + 1]
         ELSE req' = [req EXCEPT ![q] = Done(l.user, era[l.user] + 1, "none")]
    /\ UNCHANGED <<mailed, reverted>>

\* handleEmailChangeVerify: a plain Update of the whole row.
EmailCommit(q) ==
    LET l == req[q] IN
    /\ l.pc = "commit" /\ l.op = "email" /\ user[l.user].exists
    /\ user' = [user EXCEPT ![l.user] = [l.row EXCEPT !.verified = TRUE]]
    /\ NewEra(l.user, FALSE)
    /\ req' = [req EXCEPT ![q].pc = "keep", ![q].era = era[l.user] + 1]
    /\ UNCHANGED <<cred, sess, mailed, reverted>>

\* handleEmailChangeVerify resolves the session of the request; it is kept when
\* it belongs to the user and is valid.
EmailKeep(q, cookie) ==
    LET l == req[q] IN
    /\ l.pc = "keep"
    /\ cookie # "none" => cookie \in LiveOf(l.user) /\ ~user[l.user].disabled
    /\ req' = [req EXCEPT ![q].pc = "list", ![q].keep = cookie]
    /\ UNCHANGED <<user, cred, sess, mailed, era, credEra, reverted>>

-----------------------------------------------------------------------------
(* ChangePassword (operations.go), called by handlePasswordChange.         *)

\* requireSessionOpen: the request carries a valid session.
ChangeStart(q, s, pw) ==
    LET u == sess[s].user IN
    /\ "change" \in Ops /\ Free(q) /\ era[u] < MaxEra
    /\ s \in LiveOf(u) /\ ~user[u].disabled
    /\ req' = [req EXCEPT ![q] = [Fresh("change", "user", u) EXCEPT !.keep = s, !.pw = pw]]
    /\ UNCHANGED <<user, cred, sess, mailed, era, credEra, reverted>>

\* GetCredential and the check of the current password.
ChangeCheck(q) ==
    LET l == req[q] IN
    /\ l.op = "change" /\ l.pc = "cred"
    /\ IF cred[l.user].gen = l.pw THEN Goto(q, "commit") ELSE Return(q, FALSE)
    /\ UNCHANGED <<user, cred, sess, mailed, era, credEra, reverted>>

\* One transaction: the credential and, for a temporary password, the row that
\* GetUser read, with the flag cleared.  KeepOtherSessions skips the revocation.
ChangeCommit(q, keepOthers) ==
    LET l == req[q] IN
    /\ l.pc = "commit" /\ l.op = "change" /\ user[l.user].exists
    /\ cred' = [cred EXCEPT ![l.user] = [gen |-> era[l.user] + 1, weak |-> FALSE]]
    /\ user' = IF l.row.must THEN [user EXCEPT ![l.user] = [l.row EXCEPT !.must = FALSE]] ELSE user
    /\ NewEra(l.user, TRUE)
    /\ IF keepOthers THEN Return(q, TRUE)
       ELSE req' = [req EXCEPT ![q].pc = "list", ![q].era = era[l.user] + 1]
    /\ UNCHANGED <<sess, mailed, reverted>>

\* revokeOtherSessions: ListByUser.  A failure is logged and ends it.
RevokeList(q) ==
    LET l == req[q] IN
    /\ l.pc = "list"
    /\ \/ req' = [req EXCEPT ![q].pc = "revoke", ![q].todo = LiveOf(l.user) \ {l.keep}]
       \/ StoreFails /\ req' = [req EXCEPT ![q].pc = "revoke", ![q].logged = TRUE]
    /\ UNCHANGED <<user, cred, sess, mailed, era, credEra, reverted>>

\* revokeOtherSessions: one Delete per listed session.  A failure is logged and
\* the loop goes on.
RevokeOne(q, s) ==
    LET l == req[q] IN
    /\ l.pc = "revoke" /\ s \in l.todo
    /\ \/ /\ sess' = Without({s})
          /\ req' = [req EXCEPT ![q].todo = @ \ {s}]
       \/ /\ StoreFails /\ sess' = sess
          /\ req' = [req EXCEPT ![q].todo = @ \ {s}, ![q].logged = TRUE]
    /\ UNCHANGED <<user, cred, mailed, era, credEra, reverted>>

RevokeDone(q) ==
    /\ req[q].pc = "revoke" /\ req[q].todo = {}
    /\ Return(q, TRUE)
    /\ UNCHANGED <<user, cred, sess, mailed, era, credEra, reverted>>

-----------------------------------------------------------------------------
(* plugins/admin: one transaction each, GetByID and then the writes.       *)

AdminRead(q, op, u) ==
    /\ op \in Ops \cap {"disable", "enable", "adminreset"}
    /\ Free(q) /\ user[u].exists /\ (op = "enable" \/ era[u] < MaxEra)
    /\ op = "disable" => ~user[u].disabled
    /\ op = "enable" => user[u].disabled
    /\ req' = [req EXCEPT ![q] = [Fresh(op, "commit", u) EXCEPT !.row = user[u]]]
    /\ UNCHANGED <<user, cred, sess, mailed, era, credEra, reverted>>

\* Disable: the row and the sessions.  (The guard of the last administrator is
\* module AdminGuard.)
DisableCommit(q) ==
    LET l == req[q] IN
    /\ l.pc = "commit" /\ l.op = "disable" /\ user[l.user].exists
    /\ user' = [user EXCEPT ![l.user] = [l.row EXCEPT !.disabled = TRUE]]
    /\ sess' = Without(LiveOf(l.user))
    /\ NewEra(l.user, FALSE)
    /\ req' = [req EXCEPT ![q] = Done(l.user, era[l.user] + 1, "none")]
    /\ UNCHANGED <<cred, mailed, reverted>>

EnableCommit(q) ==
    LET l == req[q] IN
    /\ l.pc = "commit" /\ l.op = "enable" /\ user[l.user].exists
    /\ user' = [user EXCEPT ![l.user] = [l.row EXCEPT !.disabled = FALSE]]
    /\ Return(q, TRUE)
    /\ UNCHANGED <<cred, sess, mailed, era, credEra, reverted>>

\* ResetPassword: the credential, the row and the sessions.
AdminResetCommit(q, temporary) ==
    LET l == req[q] IN
    /\ l.pc = "commit" /\ l.op = "adminreset" /\ user[l.user].exists
    /\ cred' = [cred EXCEPT ![l.user] = [gen |-> era[l.user] + 1, weak |-> FALSE]]
    /\ user' = [user EXCEPT ![l.user] = [l.row EXCEPT !.must = temporary]]
    /\ sess' = Without(LiveOf(l.user))
    /\ NewEra(l.user, TRUE)
    /\ req' = [req EXCEPT ![q] = Done(l.user, era[l.user] + 1, "none")]
    /\ UNCHANGED <<mailed, reverted>>

-----------------------------------------------------------------------------
Cookies == Sessions \cup {"none"}

Next ==
    \/ \E u \in Users :
          \/ ForgotPassword(u) \/ SendMagicLink(u) \/ SendVerification(u)
          \/ DeleteUser(u)
          \/ \E q \in Requests :
                \/ \E pw \in 1..era[u] : SignInReadUser(q, u, pw)
                \/ \E op \in Ops : AdminRead(q, op, u)
                \/ \E op \in Ops : ConsumeToken(q, op, u)
                \/ \E c \in Cookies : VerifyToken(q, u, c)
    \/ \E q \in Requests :
          \/ SignInCheck(q) \/ SignInRehash(q)
          \/ \E carried \in {{}} \cup {{s} : s \in Sessions} : IssueSession(q, carried)
          \/ ReadUser(q) \/ CommitFails(q) \/ ResetCommit(q) \/ ResetRevoke(q)
          \/ ProveCommit(q) \/ EmailCommit(q)
          \/ \E c \in Cookies : EmailKeep(q, c)
          \/ EmailChangeMail(q)
          \/ \E s \in Sessions : \/ \E pw \in 1..era[sess[s].user] :
                                    ChangeStart(q, s, pw) \/ EmailChangeStart(q, s, pw)
                                 \/ RevokeOne(q, s)
          \/ ChangeCheck(q) \/ RevokeList(q) \/ RevokeDone(q)
          \/ \E k \in BOOLEAN : ChangeCommit(q, k) \/ AdminResetCommit(q, k)
          \/ DisableCommit(q) \/ EnableCommit(q)

Spec == Init /\ [][Next]_vars

-----------------------------------------------------------------------------
(* Properties.                                                             *)

TypeOK ==
    /\ user \in [Users -> UserRow]
    /\ cred \in [Users -> Cred]
    /\ sess \in [Sessions -> SessRow]
    /\ mailed \subseteq (AllOps \X Users)
    /\ req \in [Requests -> Local]
    /\ era \in [Users -> Nat] /\ credEra \in [Users -> Nat]
    /\ reverted \subseteq Users

\* No session and no password outlives its user, although sign-ins, resets and
\* changes that read the user before the delete go on to write after it.
OwnedRowsHaveOwner ==
    /\ TypeOK
    /\ \A u \in Users : ~user[u].exists => LiveOf(u) = {} /\ cred[u] = NoCred

\* When a password change, a password reset, an email change, a proof of the
\* address, a Disable or an admin reset has answered, no session that was there
\* when it committed is alive, except the one it keeps.  A revocation that the
\* store refused is the exception, and it is in the log.
OldSessionsEnd ==
    \A q \in Requests : LET l == req[q] IN
        (l.pc = "done" /\ l.era > 0) =>
            \A s \in LiveOf(l.user) : sess[s].born >= l.era \/ s = l.keep

\* No session is proven with a password that was replaced or deleted before its
\* sign-in began, with one exception: a sign-in that verified the old password
\* of a weak hash and whose rehash landed after the replacement (SignIn writes
\* the hash back without a condition).
ReplacedPasswordIsDead ==
    \A s \in Sessions :
        (sess[s].st = "live" /\ sess[s].proof > 0 /\ sess[s].user \notin reverted) =>
            sess[s].proof >= sess[s].since
=============================================================================
