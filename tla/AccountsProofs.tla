--------------------------- MODULE AccountsProofs ---------------------------
(***************************************************************************)
(* For any number of users, sessions and requests: no row outlives its     *)
(* user, a flow that ends the earlier sessions has ended them when it      *)
(* answers, and no session is proven with a password that was replaced     *)
(* before its sign-in began, unless a rehash wrote that password back.     *)
(* For any number of processes that migrate the tables at the same time,   *)
(* from any older database: what the record table names is there, each     *)
(* statement finds the tables it names, and an instance that starts to     *)
(* serve has its schema, whole.                                            *)
(***************************************************************************)
EXTENDS Accounts, Sequences, TLAPS

\* What a flow that has committed an era leaves of the sessions from before it.
Ended(l) ==
    (l.pc \in {"session", "revoke", "done"} /\ l.era > 0 /\ (l.pc = "done" \/ ~l.logged)) =>
        \A s \in Sessions : sess[s].st = "live" /\ sess[s].user = l.user =>
            sess[s].born >= l.era \/ s = l.keep \/ (l.pc = "revoke" /\ s \in l.todo)

\* A request writes back a row it has read of a user who was there, has no era
\* before its commit, and opens a session on a password that was not replaced
\* before it began.
Kept(l) ==
    /\ l.pc \in {"cred", "commit"} => l.row.exists
    /\ l.pc \in {"idle", "mail", "user", "cred", "rehash", "commit"} => l.era = 0
    /\ l.op # "signin" => l.since = 0
    /\ l.since <= credEra[l.user] /\ l.era <= era[l.user]
    /\ l.pc \in {"rehash", "session"} /\ l.pw > 0 => l.pw >= l.since \/ l.user \in reverted
    /\ Ended(l)

Tables ==
    /\ user \in [Users -> UserRow] /\ cred \in [Users -> Cred]
    /\ sess \in [Sessions -> SessRow] /\ mailed \subseteq (AllOps \X Users)
    /\ era \in [Users -> Nat] /\ credEra \in [Users -> Nat] /\ reverted \subseteq Users

Owned ==
    \A u \in Users : ~user[u].exists =>
        /\ cred[u] = NoCred
        /\ \A s \in Sessions : sess[s].user = u => sess[s].st # "live"

\* A password is from the latest change of it, unless a rehash wrote it back.
Newest ==
    \A u \in Users :
        /\ credEra[u] <= era[u]
        /\ cred[u].gen > 0 /\ u \notin reverted => cred[u].gen >= credEra[u]

Inv ==
    /\ Tables /\ Owned /\ Newest /\ ReplacedPasswordIsDead
    /\ req \in [Requests -> Local] /\ (\A q \in Requests : Kept(req[q]))

-----------------------------------------------------------------------------
(* Requests.                                                               *)

LEMMA StepNames ==
    /\ {"idle", "mail", "user", "cred", "rehash", "session", "commit", "keep", "list", "revoke",
        "revokeall", "done"} \subseteq Steps
    /\ {"signin", "change", "reset", "magic", "verify", "email", "disable", "enable", "adminreset"} \subseteq AllOps
BY DEF Steps, AllOps

LEMMA FreshCall ==
    ASSUME NEW op \in AllOps, NEW pc \in Steps, NEW u \in Users
    PROVE  /\ Fresh(op, pc, u) \in Local
           /\ Fresh(op, pc, u).op = op /\ Fresh(op, pc, u).pc = pc /\ Fresh(op, pc, u).user = u
           /\ Fresh(op, pc, u).era = 0 /\ Fresh(op, pc, u).since = 0 /\ ~Fresh(op, pc, u).logged
BY DEF Fresh, Local, NoUserRow, UserRow

LEMMA DoneCall ==
    ASSUME NEW u \in Users, NEW e \in Nat, NEW k \in Sessions \cup {"none"}
    PROVE  /\ Done(u, e, k) \in Local
           /\ Done(u, e, k).op = "signin" /\ Done(u, e, k).pc = "done" /\ Done(u, e, k).user = u
           /\ Done(u, e, k).era = e /\ Done(u, e, k).since = 0 /\ Done(u, e, k).keep = k
<1>. DEFINE f == Fresh("signin", "done", u)
            m == [f EXCEPT !.era = e, !.keep = k]
<1>1. f \in Local /\ f.op = "signin" /\ f.pc = "done" /\ f.user = u /\ f.since = 0
  BY StepNames, FreshCall
<1>2. Done(u, e, k) = m
  BY DEF Done
<1>. HIDE DEF f
<1>3. m \in Local /\ m.op = "signin" /\ m.pc = "done" /\ m.user = u /\ m.era = e /\ m.since = 0 /\ m.keep = k
  BY <1>1 DEF Local
<1>. QED  BY <1>2, <1>3

\* The handler returns.
LEMMA ReturnMoves ==
    ASSUME req \in [Requests -> Local], NEW q \in Requests, NEW ok \in BOOLEAN, Return(q, ok)
    PROVE  \E m \in Local :
              /\ req' = [req EXCEPT ![q] = m]
              /\ m.op = "signin" /\ m.pc = "done" /\ m.since = 0 /\ m.user = req[q].user
              /\ m.era = 0 \/ (ok /\ ~req[q].logged /\ m.era = req[q].era /\ m.keep = req[q].keep)
<1>1. req[q].user \in Users /\ req[q].era \in Nat /\ req[q].keep \in Sessions \cup {"none"}
  BY DEF Local
<1>2. CASE ok /\ ~req[q].logged /\ req[q].era > 0
  <2>1. req' = [req EXCEPT ![q] = Done(req[q].user, req[q].era, req[q].keep)]
    BY <1>2 DEF Return
  <2>. DEFINE m == Done(req[q].user, req[q].era, req[q].keep)
  <2>2. m \in Local /\ m.op = "signin" /\ m.pc = "done" /\ m.since = 0 /\ m.user = req[q].user
        /\ m.era = req[q].era /\ m.keep = req[q].keep
    BY <1>1, DoneCall
  <2>. HIDE DEF m
  <2>. QED  BY <1>2, <2>1, <2>2 DEF m
<1>3. CASE ~(ok /\ ~req[q].logged /\ req[q].era > 0)
  <2>1. req' = [req EXCEPT ![q] = Done(req[q].user, 0, "none")]
    BY <1>3 DEF Return
  <2>. DEFINE m == Done(req[q].user, 0, "none")
  <2>2. m \in Local /\ m.op = "signin" /\ m.pc = "done" /\ m.since = 0 /\ m.user = req[q].user /\ m.era = 0
    BY <1>1, DoneCall
  <2>. HIDE DEF m
  <2>. QED  BY <2>1, <2>2 DEF m
<1>. QED  BY <1>2, <1>3

\* The tables only move forward: eras grow, a session that is alive was there
\* before or was born in the era that its user has now.
Forward ==
    /\ \A u \in Users : era'[u] >= era[u] /\ credEra'[u] >= credEra[u]
    /\ reverted \subseteq reverted'
    /\ \A s \in Sessions : sess'[s].st = "live" => sess'[s] = sess[s] \/ sess'[s].born = era'[sess'[s].user]

\* A request that does not move keeps what is known of it.
LEMMA KeptStays ==
    ASSUME Tables, Tables', Forward, NEW l \in Local, Kept(l)
    PROVE  Kept(l)'
<1>1. l.user \in Users /\ l.since \in Nat /\ l.era \in Nat
  BY DEF Local
<1>2. /\ credEra[l.user] \in Nat /\ credEra'[l.user] \in Nat /\ era[l.user] \in Nat /\ era'[l.user] \in Nat
      /\ credEra'[l.user] >= credEra[l.user] /\ era'[l.user] >= era[l.user]
  BY <1>1 DEF Tables, Forward
<1>3. l.since <= credEra'[l.user] /\ l.era <= era'[l.user]
  BY <1>1, <1>2 DEF Kept
<1>4. l.user \in reverted => l.user \in reverted'
  BY DEF Forward
<1>5. Ended(l)'
  BY <1>3 DEF Ended, Kept, Forward
<1>. QED  BY <1>3, <1>4, <1>5 DEF Kept

\* A step of request q that leaves it in the local state m.
LEMMA MoveKeeps ==
    ASSUME Inv, Tables', Forward, NEW q \in Requests, NEW m \in Local, req' = [req EXCEPT ![q] = m], Kept(m)'
    PROVE  req' \in [Requests -> Local] /\ (\A p \in Requests : Kept(req[p]))'
<1>1. \A p \in Requests : req'[p] = IF p = q THEN m ELSE req[p]
  BY DEF Inv
<1>2. ASSUME NEW p \in Requests PROVE Kept(req[p])'
  <2>1. CASE p = q
    BY <1>1, <2>1
  <2>2. CASE p # q
    <3>1. PICK l \in Local : l = req[p]
      BY DEF Inv
    <3>2. Kept(l)'
      BY <3>1, KeptStays DEF Inv
    <3>. QED  BY <1>1, <2>2, <3>1, <3>2
  <2>. QED  BY <2>1, <2>2
<1>. QED  BY <1>1, <1>2 DEF Inv

\* Statements that write nothing but their own request and the mail.
Quiet ==
    /\ UNCHANGED <<user, cred, sess, era, credEra, reverted>>
    /\ mailed' \subseteq AllOps \X Users

LEMMA QuietTables ==
    ASSUME Inv, Quiet
    PROVE  Tables' /\ Owned' /\ Newest' /\ ReplacedPasswordIsDead' /\ Forward
<1>1. Tables' /\ Owned' /\ Newest' /\ ReplacedPasswordIsDead'
  BY DEF Inv, Quiet, Tables, Owned, Newest, ReplacedPasswordIsDead
<1>2. Forward
  BY DEF Inv, Tables, Quiet, Forward
<1>. QED  BY <1>1, <1>2

LEMMA QuietKeeps ==
    ASSUME Inv, Quiet, NEW q \in Requests, NEW m \in Local, req' = [req EXCEPT ![q] = m], Kept(m)
    PROVE  Inv'
<1>1. Kept(m)'
  BY DEF Quiet, Kept, Ended
<1>. QED  BY <1>1, QuietTables, MoveKeeps DEF Inv

\* The mail, and the end of a behaviour.
LEMMA MailKeeps == ASSUME Inv, Quiet, req' = req PROVE Inv'
<1>1. ASSUME NEW p \in Requests PROVE Kept(req[p])'
  BY <1>1 DEF Inv, Quiet, Kept, Ended
<1>. QED  BY <1>1, QuietTables DEF Inv

\* An answer with an error.
LEMMA RefuseKeeps == ASSUME Inv, Quiet, NEW q \in Requests, Return(q, FALSE) PROVE Inv'
<1>1. req \in [Requests -> Local]
  BY DEF Inv
<1>2. PICK m \in Local :
        /\ req' = [req EXCEPT ![q] = m]
        /\ m.op = "signin" /\ m.pc = "done" /\ m.since = 0 /\ m.user = req[q].user /\ m.era = 0
  BY <1>1, ReturnMoves
<1>3. credEra[m.user] \in Nat /\ era[m.user] \in Nat
  BY DEF Inv, Tables, Local
<1>4. Kept(m)
  BY <1>2, <1>3 DEF Kept, Ended
<1>. QED  BY <1>2, <1>4, QuietKeeps

\* The first statement of a flow that signs nobody in.
LEMMA StartKeeps ==
    ASSUME Inv, Quiet, NEW q \in Requests, NEW m \in Local, req' = [req EXCEPT ![q] = m],
           m.era = 0, m.since = 0, m.pc \notin {"cred", "rehash", "session"}, m.pc = "commit" => m.row.exists
    PROVE  Inv'
<1>1. credEra[m.user] \in Nat /\ era[m.user] \in Nat
  BY DEF Inv, Tables, Local
<1>2. Kept(m)
  BY <1>1 DEF Kept, Ended
<1>. QED  BY <1>2, QuietKeeps

LEMMA Facts ==
    ASSUME Inv, NEW q \in Requests
    PROVE  /\ req \in [Requests -> Local] /\ req[q] \in Local /\ Kept(req[q]) /\ req[q].user \in Users
           /\ user[req[q].user] \in UserRow /\ cred[req[q].user] \in Cred
           /\ era[req[q].user] \in Nat /\ credEra[req[q].user] \in Nat
BY DEF Inv, Tables, Local

\* The next statement of the handler.
LEMMA GotoMoves ==
    ASSUME req \in [Requests -> Local], NEW q \in Requests, NEW pc \in Steps, Goto(q, pc)
    PROVE  \E m \in Local :
              /\ req' = [req EXCEPT ![q] = m] /\ m.pc = pc
              /\ m.op = req[q].op /\ m.user = req[q].user /\ m.pw = req[q].pw /\ m.since = req[q].since
              /\ m.row = req[q].row /\ m.era = req[q].era
<1>. DEFINE m == [req[q] EXCEPT !.pc = pc]
<1>1. req' = [req EXCEPT ![q] = m]
  BY DEF Goto
<1>2. req[q] \in Local
  OBVIOUS
<1>3. /\ m \in Local /\ m.pc = pc
      /\ m.op = req[q].op /\ m.user = req[q].user /\ m.pw = req[q].pw /\ m.since = req[q].since
      /\ m.row = req[q].row /\ m.era = req[q].era
  BY <1>2 DEF Local
<1>. HIDE DEF m
<1>. QED  BY <1>1, <1>3

-----------------------------------------------------------------------------
(* Statements that read.                                                   *)

LEMMA RequestMailKeeps ==
    ASSUME Inv, NEW u \in Users, ForgotPassword(u) \/ SendMagicLink(u) \/ SendVerification(u)
    PROVE  Inv'
<1>1. \A op \in {"reset", "magic", "verify"} : Issued(op, u) => mailed' \subseteq AllOps \X Users
  BY StepNames DEF Issued, Inv, Tables
<1>2. Quiet /\ req' = req
  BY <1>1 DEF ForgotPassword, SendMagicLink, SendVerification, Quiet
<1>. QED  BY <1>2, MailKeeps

LEMMA EmailChangeStartKeeps ==
    ASSUME Inv, NEW q \in Requests, NEW s \in Sessions, NEW pw \in Nat, EmailChangeStart(q, s, pw)
    PROVE  Inv'
<1>1. sess[s].user \in Users /\ Quiet
  BY DEF EmailChangeStart, Quiet, Inv, Tables, SessRow
<1>. DEFINE m == Fresh("email", "mail", sess[s].user)
<1>2. req' = [req EXCEPT ![q] = m]
  BY DEF EmailChangeStart
<1>3. m \in Local /\ m.pc = "mail" /\ m.era = 0 /\ m.since = 0
  BY <1>1, StepNames, FreshCall
<1>. HIDE DEF m
<1>. QED  BY <1>1, <1>2, <1>3, StartKeeps

LEMMA EmailChangeMailKeeps == ASSUME Inv, NEW q \in Requests, EmailChangeMail(q) PROVE Inv'
<1>1. PICK m \in Local :
        /\ req' = [req EXCEPT ![q] = m]
        /\ m.pc = "done" /\ m.since = 0 /\ (m.era = 0 \/ m.era = req[q].era)
  <2>1. Return(q, TRUE)
    BY DEF EmailChangeMail
  <2>. QED  BY <2>1, Facts, ReturnMoves
<1>2. req[q].era = 0
  BY Facts DEF EmailChangeMail, Kept
<1>3. Quiet
  BY Facts, StepNames DEF EmailChangeMail, Quiet, Issued, Inv, Tables
<1>. QED  BY <1>1, <1>2, <1>3, StartKeeps

LEMMA SignInReadUserKeeps ==
    ASSUME Inv, NEW q \in Requests, NEW u \in Users, NEW pw \in Nat, SignInReadUser(q, u, pw)
    PROVE  Inv'
<1>. DEFINE f == Fresh("signin", "cred", u)
            m == [f EXCEPT !.row = user[u], !.pw = pw, !.since = credEra[u]]
<1>1. f \in Local /\ f.pc = "cred" /\ f.op = "signin" /\ f.era = 0 /\ f.user = u
  BY StepNames, FreshCall
<1>2. user[u] \in UserRow /\ user[u].exists /\ credEra[u] \in Nat /\ era[u] \in Nat
  BY DEF SignInReadUser, Inv, Tables
<1>3. req' = [req EXCEPT ![q] = m] /\ Quiet
  BY DEF SignInReadUser, Quiet, Inv, Tables
<1>. HIDE DEF f
<1>4. m \in Local /\ m.pc = "cred" /\ m.op = "signin" /\ m.era = 0 /\ m.user = u /\ m.since = credEra[u] /\ m.row = user[u]
  BY <1>1, <1>2 DEF Local
<1>. HIDE DEF m
<1>5. Kept(m)
  BY <1>2, <1>4 DEF Kept, Ended
<1>. QED  BY <1>3, <1>4, <1>5, QuietKeeps

\* The password of the form is the one in the row, which is from the latest
\* change, unless a rehash wrote it back.
LEMMA SignInCheckKeeps == ASSUME Inv, NEW q \in Requests, SignInCheck(q) PROVE Inv'
<1>1. Quiet
  BY DEF SignInCheck, Quiet, Inv, Tables
<1>2. CASE Return(q, FALSE)
  BY <1>1, <1>2, RefuseKeeps
<1>3. ASSUME NEW pc \in {"rehash", "session"}, Goto(q, pc), cred[req[q].user].gen = req[q].pw PROVE Inv'
  <2>1. PICK m \in Local :
          /\ req' = [req EXCEPT ![q] = m] /\ m.pc = pc
          /\ m.op = req[q].op /\ m.user = req[q].user /\ m.pw = req[q].pw /\ m.since = req[q].since /\ m.era = req[q].era
    <3>1. pc \in Steps
      BY StepNames
    <3>. QED  BY <1>3, <3>1, Facts, GotoMoves
  <2>2. req[q].op = "signin" /\ req[q].era = 0 /\ req[q].since <= credEra[req[q].user]
    BY Facts DEF SignInCheck, Kept
  <2>3. req[q].pw > 0 /\ req[q].user \notin reverted => req[q].pw >= credEra[req[q].user]
    BY <1>3, Facts DEF Inv, Newest
  <2>4. req[q].pw \in Nat /\ req[q].since \in Nat /\ credEra[req[q].user] \in Nat /\ era[req[q].user] \in Nat
    BY Facts DEF Local
  <2>5. Kept(m)
    BY <2>1, <2>2, <2>3, <2>4 DEF Kept, Ended
  <2>. QED  BY <1>1, <2>1, <2>5, QuietKeeps
<1>4. \/ Return(q, FALSE)
      \/ \E pc \in {"rehash", "session"} : Goto(q, pc) /\ cred[req[q].user].gen = req[q].pw
  BY DEF SignInCheck
<1>. QED  BY <1>2, <1>3, <1>4

LEMMA ConsumeTokenKeeps ==
    ASSUME Inv, NEW q \in Requests, NEW op \in AllOps, NEW u \in Users, ConsumeToken(q, op, u)
    PROVE  Inv'
<1>. DEFINE m == Fresh(op, "user", u)
<1>1. req' = [req EXCEPT ![q] = m] /\ Quiet
  BY DEF ConsumeToken, Consumed, Quiet, Inv, Tables
<1>2. m \in Local /\ m.pc = "user" /\ m.era = 0 /\ m.since = 0
  BY StepNames, FreshCall
<1>. HIDE DEF m
<1>. QED  BY <1>1, <1>2, StartKeeps

LEMMA VerifyTokenKeeps ==
    ASSUME Inv, NEW q \in Requests, NEW u \in Users, NEW c \in Cookies, VerifyToken(q, u, c)
    PROVE  Inv'
<1>. DEFINE f == Fresh("verify", "user", u)
            m == [f EXCEPT !.keep = c]
<1>1. req' = [req EXCEPT ![q] = m] /\ Quiet
  BY DEF VerifyToken, Consumed, Quiet, Inv, Tables
<1>2. f \in Local /\ f.pc = "user" /\ f.era = 0 /\ f.since = 0
  BY StepNames, FreshCall
<1>. HIDE DEF f
<1>3. m \in Local /\ m.pc = "user" /\ m.era = 0 /\ m.since = 0
  BY <1>2 DEF Local, Cookies
<1>. HIDE DEF m
<1>. QED  BY <1>1, <1>3, StartKeeps

\* A return before the commit says nothing about the sessions.
LEMMA EarlyReturnKeeps ==
    ASSUME Inv, Quiet, NEW q \in Requests, NEW ok \in BOOLEAN, Return(q, ok), req[q].era = 0
    PROVE  Inv'
<1>1. PICK m \in Local :
        /\ req' = [req EXCEPT ![q] = m]
        /\ m.pc = "done" /\ m.since = 0 /\ (m.era = 0 \/ m.era = req[q].era)
  BY Facts, ReturnMoves
<1>. QED  BY <1>1, StartKeeps

LEMMA ReadUserKeeps == ASSUME Inv, NEW q \in Requests, ReadUser(q) PROVE Inv'
<1>1. Quiet /\ req[q].pc = "user" /\ req[q].era = 0
  BY Facts DEF ReadUser, Quiet, Kept, Inv, Tables
<1>2. \/ Return(q, user[req[q].user].exists)
      \/ \E pc \in {"cred", "commit", "session"} :
            /\ req' = [req EXCEPT ![q].pc = pc, ![q].row = user[req[q].user]]
            /\ user[req[q].user].exists
            /\ pc = "session" => req[q].op # "signin"
  BY DEF ReadUser
<1>3. CASE Return(q, user[req[q].user].exists)
  <2>1. user[req[q].user].exists \in BOOLEAN
    BY Facts DEF UserRow
  <2>. QED  BY <1>1, <1>3, <2>1, EarlyReturnKeeps
<1>4. ASSUME NEW pc \in {"cred", "commit", "session"}, user[req[q].user].exists, pc = "session" => req[q].op # "signin",
             req' = [req EXCEPT ![q].pc = pc, ![q].row = user[req[q].user]]
      PROVE  Inv'
  <2>. DEFINE m == [req[q] EXCEPT !.pc = pc, !.row = user[req[q].user]]
  <2>1. req' = [req EXCEPT ![q] = m]
    BY <1>4
  <2>2. req[q] \in Local /\ pc \in Steps /\ user[req[q].user] \in UserRow
    BY Facts, StepNames
  <2>3. m \in Local /\ m.pc = pc /\ m.op = req[q].op /\ m.user = req[q].user /\ m.pw = req[q].pw
        /\ m.since = req[q].since /\ m.era = req[q].era /\ m.row = user[req[q].user]
    BY <2>2 DEF Local
  <2>. HIDE DEF m
  <2>4. m.pw \in Nat
    BY <2>3 DEF Local
  <2>5. Kept(m)
    BY <1>1, <1>4, <2>3, <2>4, Facts DEF Kept, Ended
  <2>. QED  BY <1>1, <2>1, <2>3, <2>5, QuietKeeps
<1>. QED  BY <1>2, <1>3, <1>4

LEMMA CommitFailsKeeps == ASSUME Inv, NEW q \in Requests, CommitFails(q) PROVE Inv'
BY RefuseKeeps DEF CommitFails, Quiet, Inv, Tables

LEMMA EmailKeepKeeps == ASSUME Inv, NEW q \in Requests, NEW c \in Cookies, EmailKeep(q, c) PROVE Inv'
<1>. DEFINE m == [req[q] EXCEPT !.pc = "list", !.keep = c]
<1>1. req' = [req EXCEPT ![q] = m] /\ Quiet
  BY DEF EmailKeep, Quiet, Inv, Tables
<1>2. req[q] \in Local /\ "list" \in Steps
  BY Facts, StepNames
<1>3. m \in Local /\ m.pc = "list" /\ m.op = req[q].op /\ m.user = req[q].user /\ m.since = req[q].since /\ m.era = req[q].era
  BY <1>2 DEF Local, Cookies
<1>. HIDE DEF m
<1>4. Kept(m)
  BY <1>3, Facts DEF Kept, Ended
<1>. QED  BY <1>1, <1>3, <1>4, QuietKeeps

LEMMA ChangeStartKeeps ==
    ASSUME Inv, NEW q \in Requests, NEW s \in Sessions, NEW pw \in Nat, ChangeStart(q, s, pw)
    PROVE  Inv'
<1>1. sess[s].user \in Users /\ Quiet
  BY DEF ChangeStart, Quiet, Inv, Tables, SessRow
<1>. DEFINE f == Fresh("change", "user", sess[s].user)
            m == [f EXCEPT !.keep = s, !.pw = pw]
<1>2. req' = [req EXCEPT ![q] = m]
  BY DEF ChangeStart
<1>3. f \in Local /\ f.pc = "user" /\ f.era = 0 /\ f.since = 0
  BY <1>1, StepNames, FreshCall
<1>. HIDE DEF f
<1>4. m \in Local /\ m.pc = "user" /\ m.era = 0 /\ m.since = 0
  BY <1>3 DEF Local
<1>. HIDE DEF m
<1>. QED  BY <1>1, <1>2, <1>4, StartKeeps

LEMMA ChangeCheckKeeps == ASSUME Inv, NEW q \in Requests, ChangeCheck(q) PROVE Inv'
<1>1. Quiet
  BY DEF ChangeCheck, Quiet, Inv, Tables
<1>2. CASE Return(q, FALSE)
  BY <1>1, <1>2, RefuseKeeps
<1>3. CASE Goto(q, "commit")
  <2>1. PICK m \in Local :
          /\ req' = [req EXCEPT ![q] = m] /\ m.pc = "commit"
          /\ m.op = req[q].op /\ m.user = req[q].user /\ m.since = req[q].since /\ m.row = req[q].row /\ m.era = req[q].era
    <3>1. "commit" \in Steps
      BY StepNames
    <3>. QED  BY <1>3, <3>1, Facts, GotoMoves
  <2>2. req[q].row.exists /\ req[q].era = 0
    BY Facts DEF ChangeCheck, Kept
  <2>3. Kept(m)
    BY <2>1, <2>2, Facts DEF Kept, Ended
  <2>. QED  BY <1>1, <2>1, <2>3, QuietKeeps
<1>. QED  BY <1>2, <1>3 DEF ChangeCheck

\* Every session that is alive is on the list, except the one that is kept.
LEMMA RevokeListKeeps == ASSUME Inv, NEW q \in Requests, RevokeList(q) PROVE Inv'
<1>1. Quiet /\ req[q] \in Local /\ "revoke" \in Steps
  BY Facts, StepNames DEF RevokeList, Quiet, Inv, Tables
<1>2. CASE req' = [req EXCEPT ![q].pc = "revoke", ![q].todo = LiveOf(req[q].user) \ {req[q].keep}]
  <2>. DEFINE m == [req[q] EXCEPT !.pc = "revoke", !.todo = LiveOf(req[q].user) \ {req[q].keep}]
  <2>1. req' = [req EXCEPT ![q] = m]
    BY <1>2
  <2>2. LiveOf(req[q].user) \ {req[q].keep} \in SUBSET Sessions
    BY DEF LiveOf
  <2>3. m \in Local /\ m.pc = "revoke" /\ m.op = req[q].op /\ m.user = req[q].user /\ m.since = req[q].since
        /\ m.era = req[q].era /\ m.keep = req[q].keep /\ m.todo = LiveOf(req[q].user) \ {req[q].keep}
    BY <1>1, <2>2 DEF Local
  <2>. HIDE DEF m
  <2>4. Ended(m)
    BY <2>3 DEF Ended, LiveOf
  <2>5. Kept(m)
    BY <2>3, <2>4, Facts DEF Kept
  <2>. QED  BY <1>1, <2>1, <2>3, <2>5, QuietKeeps
<1>3. CASE req' = [req EXCEPT ![q].pc = "revoke", ![q].logged = TRUE]
  <2>. DEFINE m == [req[q] EXCEPT !.pc = "revoke", !.logged = TRUE]
  <2>1. req' = [req EXCEPT ![q] = m]
    BY <1>3
  <2>2. m \in Local /\ m.pc = "revoke" /\ m.op = req[q].op /\ m.user = req[q].user /\ m.since = req[q].since
        /\ m.era = req[q].era /\ m.logged
    BY <1>1 DEF Local
  <2>. HIDE DEF m
  <2>3. Kept(m)
    BY <2>2, Facts DEF Kept, Ended
  <2>. QED  BY <1>1, <2>1, <2>2, <2>3, QuietKeeps
<1>. QED  BY <1>2, <1>3 DEF RevokeList

LEMMA RevokeDoneKeeps == ASSUME Inv, NEW q \in Requests, RevokeDone(q) PROVE Inv'
<1>1. Quiet /\ Return(q, TRUE) /\ req[q].pc = "revoke" /\ req[q].todo = {}
  BY DEF RevokeDone, Quiet, Inv, Tables
<1>2. PICK m \in Local :
        /\ req' = [req EXCEPT ![q] = m]
        /\ m.op = "signin" /\ m.pc = "done" /\ m.since = 0 /\ m.user = req[q].user
        /\ m.era = 0 \/ (~req[q].logged /\ m.era = req[q].era /\ m.keep = req[q].keep)
  BY <1>1, Facts, ReturnMoves
<1>3. Ended(m)
  BY <1>1, <1>2, Facts DEF Kept, Ended
<1>4. Kept(m)
  BY <1>2, <1>3, Facts DEF Kept
<1>. QED  BY <1>1, <1>2, <1>4, QuietKeeps

LEMMA AdminReadKeeps ==
    ASSUME Inv, NEW q \in Requests, NEW op \in AllOps, NEW u \in Users, AdminRead(q, op, u)
    PROVE  Inv'
<1>. DEFINE f == Fresh(op, "commit", u)
            m == [f EXCEPT !.row = user[u]]
<1>1. req' = [req EXCEPT ![q] = m] /\ Quiet /\ user[u] \in UserRow /\ user[u].exists
  BY DEF AdminRead, Quiet, Inv, Tables
<1>2. f \in Local /\ f.pc = "commit" /\ f.era = 0 /\ f.since = 0
  BY StepNames, FreshCall
<1>. HIDE DEF f
<1>3. m \in Local /\ m.pc = "commit" /\ m.era = 0 /\ m.since = 0 /\ m.row = user[u]
  BY <1>1, <1>2 DEF Local
<1>. HIDE DEF m
<1>. QED  BY <1>1, <1>3, StartKeeps

-----------------------------------------------------------------------------
(* Statements that write.                                                  *)

LEMMA WithoutRows ==
    ASSUME sess \in [Sessions -> SessRow], NEW S
    PROVE  /\ Without(S) \in [Sessions -> SessRow]
           /\ \A s \in Sessions :
                 /\ Without(S)[s].user = sess[s].user
                 /\ Without(S)[s].st = "live" => s \notin S /\ Without(S)[s] = sess[s]
BY DEF Without, SessRow

\* Sessions may have ended, and none has come.
Fewer ==
    /\ sess' \in [Sessions -> SessRow]
    /\ \A s \in Sessions : sess'[s].user = sess[s].user /\ (sess'[s].st = "live" => sess'[s] = sess[s])

\* The step leaves no session of u alive.
NoneStays(u) == \A s \in Sessions : sess'[s].st = "live" => sess'[s].user # u

LEMMA EndAll ==
    ASSUME Inv, NEW u \in Users, sess' = Without(LiveOf(u))
    PROVE  Fewer /\ NoneStays(u)
<1>1. sess \in [Sessions -> SessRow]
  BY DEF Inv, Tables
<1>. QED  BY <1>1, WithoutRows DEF Fewer, NoneStays, LiveOf

\* A step that ends sessions and moves no era keeps what is said of passwords.
LEMMA FewerKeeps ==
    ASSUME Inv, Fewer, UNCHANGED <<user, cred, era, credEra, reverted>>, mailed' \subseteq AllOps \X Users
    PROVE  Tables' /\ Owned' /\ Newest' /\ ReplacedPasswordIsDead' /\ Forward
<1>1. Tables' /\ Newest'
  BY DEF Inv, Fewer, Tables, Newest
<1>2. Owned'
  BY DEF Inv, Fewer, Owned
<1>3. ReplacedPasswordIsDead'
  BY DEF Inv, Fewer, ReplacedPasswordIsDead
<1>4. Forward
  BY DEF Inv, Fewer, Tables, Forward
<1>. QED  BY <1>1, <1>2, <1>3, <1>4

\* A commit that begins an era of u; password says whether the password changes.
LEMMA CommitRows ==
    ASSUME Inv, NEW u \in Users, NEW password \in BOOLEAN, NewEra(u, password),
           user[u].exists, user' \in [Users -> UserRow], \A v \in Users : user[v].exists => user'[v].exists,
           cred' \in [Users -> Cred], \A v \in Users : v # u => cred'[v] = cred[v],
           password => cred'[u].gen = 0 \/ cred'[u].gen = era[u] + 1,
           ~password => cred'[u] = cred[u],
           Fewer, mailed' = mailed, reverted' = reverted
    PROVE  Tables' /\ Owned' /\ Newest' /\ ReplacedPasswordIsDead' /\ Forward /\ era'[u] = era[u] + 1
<1>1. /\ era \in [Users -> Nat] /\ credEra \in [Users -> Nat] /\ cred \in [Users -> Cred]
      /\ \A v \in Users : credEra[v] <= era[v]
  BY DEF Inv, Tables, Newest
<1>2. /\ era' \in [Users -> Nat] /\ credEra' \in [Users -> Nat]
      /\ era'[u] = era[u] + 1 /\ credEra'[u] = (IF password THEN era[u] + 1 ELSE credEra[u])
      /\ \A v \in Users : v # u => era'[v] = era[v] /\ credEra'[v] = credEra[v]
  BY <1>1 DEF NewEra
<1>3. Tables'
  BY <1>2 DEF Inv, Tables, Fewer
<1>4. Owned'
  BY DEF Inv, Owned, Fewer
<1>5. Newest'
  <2>1. ASSUME NEW v \in Users PROVE credEra'[v] <= era'[v]
    BY <1>1, <1>2
  <2>2. ASSUME NEW v \in Users, cred'[v].gen > 0, v \notin reverted PROVE cred'[v].gen >= credEra'[v]
    <3>1. CASE v = u /\ password
      BY <1>1, <1>2, <2>2, <3>1
    <3>2. CASE ~(v = u /\ password)
      <4>1. cred'[v] = cred[v] /\ credEra'[v] = credEra[v]
        BY <1>2, <3>2
      <4>. QED  BY <2>2, <4>1 DEF Inv, Newest
    <3>. QED  BY <3>1, <3>2
  <2>. QED  BY <2>1, <2>2 DEF Newest
<1>6. ReplacedPasswordIsDead'
  BY DEF Inv, Fewer, ReplacedPasswordIsDead
<1>7. Forward
  <2>1. ASSUME NEW v \in Users PROVE era'[v] >= era[v] /\ credEra'[v] >= credEra[v]
    BY <1>1, <1>2
  <2>. QED  BY <2>1 DEF Fewer, Forward
<1>. QED  BY <1>2, <1>3, <1>4, <1>5, <1>6, <1>7

\* What is known of a request whose commit began an era, or ended with an answer.
LEMMA CommittedKept ==
    ASSUME Tables', NEW m \in Local, m.since = 0, m.era <= era'[m.user],
           m.pc \in {"session", "done", "revokeall", "keep", "list"},
           m.pc \in {"session", "done"} /\ m.era > 0 => NoneStays(m.user)
    PROVE  Kept(m)'
<1>1. credEra'[m.user] \in Nat /\ m.pw \in Nat
  BY DEF Tables, Local
<1>2. Ended(m)'
  BY DEF Ended, NoneStays
<1>. QED  BY <1>1, <1>2 DEF Kept

\* The transaction committed the era e, and the handler goes on.
GoesOn(q, pc, e) == req' = [req EXCEPT ![q].pc = pc, ![q].era = e]

LEMMA GoesOnMoves ==
    ASSUME req \in [Requests -> Local], NEW q \in Requests, NEW pc \in Steps, NEW e \in Nat, GoesOn(q, pc, e)
    PROVE  \E m \in Local :
              /\ req' = [req EXCEPT ![q] = m] /\ m.pc = pc /\ m.era = e
              /\ m.op = req[q].op /\ m.user = req[q].user /\ m.since = req[q].since
<1>. DEFINE m == [req[q] EXCEPT !.pc = pc, !.era = e]
<1>1. req' = [req EXCEPT ![q] = m]
  BY DEF GoesOn
<1>2. req[q] \in Local
  OBVIOUS
<1>3. m \in Local /\ m.pc = pc /\ m.era = e /\ m.op = req[q].op /\ m.user = req[q].user /\ m.since = req[q].since
  BY <1>2 DEF Local
<1>. HIDE DEF m
<1>. QED  BY <1>1, <1>3

\* The transaction committed the era e, and the handler has answered.
Answers(q, e) == req' = [req EXCEPT ![q] = Done(req[q].user, e, "none")]

LEMMA AnswersMoves ==
    ASSUME req \in [Requests -> Local], NEW q \in Requests, NEW e \in Nat, Answers(q, e)
    PROVE  \E m \in Local :
              /\ req' = [req EXCEPT ![q] = m] /\ m.pc = "done" /\ m.era = e
              /\ m.user = req[q].user /\ m.since = 0
<1>. DEFINE m == Done(req[q].user, e, "none")
<1>1. m \in Local /\ m.pc = "done" /\ m.era = e /\ m.user = req[q].user /\ m.since = 0
  <2>1. req[q].user \in Users
    BY DEF Local
  <2>. QED  BY <2>1, DoneCall
<1>2. req' = [req EXCEPT ![q] = m]
  BY DEF Answers
<1>. HIDE DEF m
<1>. QED  BY <1>1, <1>2

\* A commit that began an era of the user of request q, and where it goes from there.
LEMMA CommitKeeps ==
    ASSUME Inv, NEW q \in Requests, req[q].op # "signin",
           Tables', Owned', Newest', ReplacedPasswordIsDead', Forward, era'[req[q].user] = era[req[q].user] + 1,
           \/ \E pc \in {"revokeall", "keep", "list"} : GoesOn(q, pc, era[req[q].user] + 1)
           \/ NoneStays(req[q].user) /\ GoesOn(q, "session", era[req[q].user] + 1)
           \/ NoneStays(req[q].user) /\ Answers(q, era[req[q].user] + 1)
           \/ Return(q, TRUE) /\ req[q].era = 0
    PROVE  Inv'
<1>. DEFINE e == era[req[q].user] + 1
<1>1. PICK u \in Users, n \in Nat : u = req[q].user /\ n = e /\ era'[u] = n
  BY Facts
<1>2. req[q].since = 0
  BY Facts DEF Kept
<1>3. ASSUME NEW m \in Local, req' = [req EXCEPT ![q] = m], m.user = u, m.since = 0, m.era = 0 \/ m.era = n,
             m.pc \in {"session", "done", "revokeall", "keep", "list"},
             m.pc \in {"session", "done"} /\ m.era > 0 => NoneStays(u)
      PROVE  Inv'
  <2>1. Kept(m)'
    BY <1>1, <1>3, CommittedKept
  <2>. QED  BY <1>3, <2>1, MoveKeeps DEF Inv
<1>4. ASSUME NEW pc \in {"revokeall", "keep", "list", "session"}, GoesOn(q, pc, n), pc = "session" => NoneStays(u)
      PROVE  Inv'
  <2>1. PICK m \in Local :
          /\ req' = [req EXCEPT ![q] = m] /\ m.pc = pc /\ m.era = n
          /\ m.op = req[q].op /\ m.user = req[q].user /\ m.since = req[q].since
    <3>1. pc \in Steps
      BY StepNames
    <3>. QED  BY <1>4, <3>1, Facts, GoesOnMoves
  <2>. QED  BY <1>1, <1>2, <1>3, <1>4, <2>1
<1>5. ASSUME NoneStays(u), Answers(q, n) PROVE Inv'
  <2>1. PICK m \in Local :
          /\ req' = [req EXCEPT ![q] = m] /\ m.pc = "done" /\ m.era = n /\ m.user = req[q].user /\ m.since = 0
    BY <1>5, Facts, AnswersMoves
  <2>. QED  BY <1>1, <1>3, <1>5, <2>1
<1>6. ASSUME Return(q, TRUE), req[q].era = 0 PROVE Inv'
  <2>1. PICK m \in Local :
          /\ req' = [req EXCEPT ![q] = m]
          /\ m.pc = "done" /\ m.since = 0 /\ m.user = req[q].user /\ (m.era = 0 \/ m.era = req[q].era)
    BY <1>6, Facts, ReturnMoves
  <2>2. m.era = 0 /\ m.user = u
    BY <1>1, <1>6, <2>1
  <2>3. ~(m.era > 0)
    BY <2>2
  <2>. QED  BY <1>3, <2>1, <2>2, <2>3
<1>7. \/ \E pc \in {"revokeall", "keep", "list"} : GoesOn(q, pc, n)
      \/ NoneStays(u) /\ GoesOn(q, "session", n)
      \/ NoneStays(u) /\ Answers(q, n)
      \/ Return(q, TRUE) /\ req[q].era = 0
  <2>1. NoneStays(req[q].user) => NoneStays(u)
    BY <1>1
  <2>. QED  BY <1>1, <2>1
<1>. QED  BY <1>4, <1>5, <1>6, <1>7

\* The row that a transaction writes back is that of a user who was there.
LEMMA RowWritten ==
    ASSUME Inv, NEW q \in Requests, req[q].pc = "commit",
           \/ user' = user
           \/ \E b \in BOOLEAN :
                 \/ user' = [user EXCEPT ![req[q].user] = [req[q].row EXCEPT !.verified = b]]
                 \/ user' = [user EXCEPT ![req[q].user] = [req[q].row EXCEPT !.disabled = b]]
                 \/ user' = [user EXCEPT ![req[q].user] = [req[q].row EXCEPT !.must = b]]
    PROVE  user' \in [Users -> UserRow] /\ \A v \in Users : user[v].exists => user'[v].exists
<1>1. req[q].row \in UserRow /\ req[q].row.exists /\ user \in [Users -> UserRow] /\ req[q].user \in Users
  BY Facts DEF Kept, Local, Inv, Tables
<1>2. ASSUME NEW r \in UserRow, r.exists, user' = [user EXCEPT ![req[q].user] = r]
      PROVE  user' \in [Users -> UserRow] /\ \A v \in Users : user[v].exists => user'[v].exists
  BY <1>1, <1>2
<1>3. ASSUME NEW b \in BOOLEAN
      PROVE  /\ [req[q].row EXCEPT !.verified = b] \in UserRow /\ [req[q].row EXCEPT !.verified = b].exists
             /\ [req[q].row EXCEPT !.disabled = b] \in UserRow /\ [req[q].row EXCEPT !.disabled = b].exists
             /\ [req[q].row EXCEPT !.must = b] \in UserRow /\ [req[q].row EXCEPT !.must = b].exists
  BY <1>1 DEF UserRow
<1>. QED  BY <1>1, <1>2, <1>3

LEMMA SameSessions == ASSUME Inv, sess' = sess PROVE Fewer
BY DEF Inv, Tables, Fewer

LEMMA DeleteUserKeeps == ASSUME Inv, NEW u \in Users, DeleteUser(u) PROVE Inv'
<1>1. /\ user' = [user EXCEPT ![u].exists = FALSE] /\ cred' = [cred EXCEPT ![u] = NoCred]
      /\ sess' = Without(LiveOf(u)) /\ mailed' \subseteq mailed
      /\ UNCHANGED <<req, era, credEra, reverted>>
  BY DEF DeleteUser
<1>2. Fewer /\ NoneStays(u)
  BY <1>1, EndAll
<1>3. user \in [Users -> UserRow] /\ cred \in [Users -> Cred] /\ NoCred \in Cred /\ NoCred.gen = 0
  BY DEF Inv, Tables, NoCred, Cred
<1>4. /\ user' \in [Users -> UserRow] /\ cred' \in [Users -> Cred] /\ cred'[u] = NoCred
      /\ \A v \in Users : v # u => user'[v] = user[v] /\ cred'[v] = cred[v]
  BY <1>1, <1>3 DEF UserRow
<1>5. Tables'
  BY <1>1, <1>2, <1>4 DEF Inv, Tables, Fewer
<1>6. Owned'
  <2>1. ASSUME NEW v \in Users, ~user'[v].exists
        PROVE  cred'[v] = NoCred /\ \A s \in Sessions : sess'[s].user = v => sess'[s].st # "live"
    <3>1. CASE v = u
      BY <1>2, <1>4, <3>1 DEF NoneStays
    <3>2. CASE v # u
      BY <1>2, <1>4, <2>1, <3>2 DEF Inv, Owned, Fewer
    <3>. QED  BY <3>1, <3>2
  <2>. QED  BY <2>1 DEF Owned
<1>7. Newest'
  BY <1>1, <1>3, <1>4 DEF Inv, Newest
<1>8. ReplacedPasswordIsDead'
  BY <1>1, <1>2 DEF Inv, Fewer, ReplacedPasswordIsDead
<1>9. Forward
  BY <1>1, <1>2 DEF Inv, Tables, Fewer, Forward
<1>10. ASSUME NEW p \in Requests PROVE Kept(req[p])'
  <2>1. PICK l \in Local : l = req[p]
    BY DEF Inv
  <2>2. Kept(l)'
    BY <1>5, <1>9, <2>1, KeptStays DEF Inv
  <2>. QED  BY <1>1, <2>1, <2>2
<1>. QED  BY <1>1, <1>5, <1>6, <1>7, <1>8, <1>10 DEF Inv

\* A rehash writes the password back that it verified.  If another was set in
\* between, the user is one of the reverted.
LEMMA SignInRehashKeeps == ASSUME Inv, NEW q \in Requests, SignInRehash(q) PROVE Inv'
<1>1. PICK u \in Users, pw \in Nat : u = req[q].user /\ pw = req[q].pw
  BY Facts DEF Local
<1>. DEFINE c == [gen |-> pw, weak |-> FALSE]
<1>2. /\ cred' = IF user[u].exists THEN [cred EXCEPT ![u] = c] ELSE cred
      /\ reverted' = IF cred[u].gen # pw THEN reverted \cup {u} ELSE reverted
      /\ Goto(q, "session") /\ UNCHANGED <<user, sess, mailed, era, credEra>>
      /\ req[q].pc = "rehash"
  BY <1>1 DEF SignInRehash
<1>3. c \in Cred /\ c.gen = pw /\ cred \in [Users -> Cred]
  BY DEF Cred, Inv, Tables
<1>. HIDE DEF c
<1>4. /\ cred' \in [Users -> Cred]
      /\ \A v \in Users : cred'[v] = cred[v] \/ (v = u /\ user[u].exists /\ cred'[u].gen = pw)
  BY <1>2, <1>3
<1>5. Tables'
  BY <1>2, <1>4 DEF Inv, Tables
<1>6. Owned'
  BY <1>2, <1>4 DEF Inv, Owned
<1>7. Newest'
  <2>1. ASSUME NEW v \in Users, cred'[v].gen > 0, v \notin reverted' PROVE cred'[v].gen >= credEra[v]
    <3>1. v \notin reverted /\ (v = u => cred[u].gen = pw)
      BY <1>2, <2>1
    <3>2. cred'[v].gen = cred[v].gen
      BY <1>4, <3>1
    <3>. QED  BY <2>1, <3>1, <3>2 DEF Inv, Newest
  <2>. QED  BY <1>2, <2>1 DEF Inv, Newest
<1>8. ReplacedPasswordIsDead'
  BY <1>2 DEF Inv, ReplacedPasswordIsDead
<1>9. Forward
  BY <1>2 DEF Inv, Tables, Forward
<1>10. PICK m \in Local :
        /\ req' = [req EXCEPT ![q] = m] /\ m.pc = "session"
        /\ m.op = req[q].op /\ m.user = req[q].user /\ m.pw = req[q].pw /\ m.since = req[q].since /\ m.era = req[q].era
  <2>1. "session" \in Steps
    BY StepNames
  <2>. QED  BY <1>2, <2>1, Facts, GotoMoves
<1>11. Kept(m)'
  <2>1. Kept(m)
    BY <1>2, <1>10, Facts DEF Kept, Ended
  <2>. QED  BY <1>5, <1>9, <2>1, KeptStays DEF Inv
<1>. QED  BY <1>5, <1>6, <1>7, <1>8, <1>9, <1>10, <1>11, MoveKeeps DEF Inv

\* An answer after which no session of the user is alive, or which says nothing
\* of the earlier ones.
LEMMA AnswerKeeps ==
    ASSUME Inv, NEW q \in Requests, NEW m \in Local, req' = [req EXCEPT ![q] = m],
           Tables', Owned', Newest', ReplacedPasswordIsDead', Forward,
           m.pc = "done", m.since = 0, m.user = req[q].user, m.era = 0 \/ m.era = req[q].era,
           m.era > 0 => NoneStays(m.user)
    PROVE  Inv'
<1>1. m.era <= era'[m.user]
  <2>1. m.user \in Users /\ m.era <= era[m.user] /\ m.era \in Nat
    BY Facts DEF Kept, Local
  <2>. QED  BY <2>1 DEF Inv, Tables, Forward
<1>2. Kept(m)'
  BY <1>1, CommittedKept
<1>. QED  BY <1>2, MoveKeeps DEF Inv

\* The session is born in the era of its user; its password was not replaced
\* before the sign-in began, unless a rehash wrote it back.
LEMMA IssueSessionKeeps == ASSUME Inv, NEW q \in Requests, NEW C, IssueSession(q, C) PROVE Inv'
<1>1. PICK l \in Local : l = req[q]
  BY Facts
<1>2. /\ l.pc = "session" /\ Kept(l) /\ sess \in [Sessions -> SessRow]
      /\ UNCHANGED <<user, cred, mailed, era, credEra, reverted>>
  BY <1>1, Facts DEF IssueSession, Inv, Tables
<1>3. ASSUME NEW s \in Unborn, user[l.user].exists, Return(q, TRUE),
             sess' = [Without(C) EXCEPT ![s] = [st |-> "live", user |-> l.user, proof |-> l.pw,
                                                born |-> era[l.user], since |-> l.since]]
      PROVE  Inv'
  <2>. DEFINE r == [st |-> "live", user |-> l.user, proof |-> l.pw, born |-> era[l.user], since |-> l.since]
  <2>1. /\ r \in SessRow /\ r.st = "live" /\ r.user = l.user /\ r.proof = l.pw /\ r.born = era[l.user]
        /\ r.since = l.since
    BY <1>1, Facts DEF SessRow, Local
  <2>2. sess' = [Without(C) EXCEPT ![s] = r] /\ s \in Sessions
    BY <1>3 DEF Unborn
  <2>. HIDE DEF r
  <2>3. /\ sess' \in [Sessions -> SessRow] /\ sess'[s] = r
        /\ \A t \in Sessions : t # s => sess'[t].user = sess[t].user /\ (sess'[t].st = "live" => sess'[t] = sess[t])
    BY <1>2, <2>1, <2>2, WithoutRows
  <2>4. Tables' /\ Newest'
    BY <1>2, <2>3 DEF Inv, Tables, Newest
  <2>5. Owned'
    BY <1>2, <1>3, <2>1, <2>3 DEF Inv, Owned
  <2>6. ReplacedPasswordIsDead'
    <3>1. ASSUME NEW t \in Sessions, sess'[t].st = "live", sess'[t].proof > 0, sess'[t].user \notin reverted
          PROVE  sess'[t].proof >= sess'[t].since
      <4>1. CASE t = s
        BY <1>2, <2>1, <2>3, <3>1, <4>1 DEF Kept
      <4>2. CASE t # s
        BY <2>3, <3>1, <4>2 DEF Inv, ReplacedPasswordIsDead
      <4>. QED  BY <4>1, <4>2
    <3>. QED  BY <1>2, <3>1 DEF ReplacedPasswordIsDead
  <2>7. Forward
    BY <1>2, <2>1, <2>3 DEF Inv, Tables, Forward
  <2>8. PICK m \in Local :
          /\ req' = [req EXCEPT ![q] = m]
          /\ m.op = "signin" /\ m.pc = "done" /\ m.since = 0 /\ m.user = l.user
          /\ m.era = 0 \/ (~l.logged /\ m.era = l.era /\ m.keep = l.keep)
    BY <1>1, <1>3, Facts, ReturnMoves
  <2>9. l.era <= era[l.user] /\ era[l.user] \in Nat /\ credEra[l.user] \in Nat
    BY <1>1, <1>2, Facts DEF Kept
  <2>10. Ended(m)'
    <3>1. ASSUME NEW t \in Sessions, m.era > 0, sess'[t].st = "live", sess'[t].user = m.user
          PROVE  sess'[t].born >= m.era \/ t = m.keep
      <4>1. CASE t = s
        BY <2>1, <2>3, <2>8, <2>9, <3>1, <4>1
      <4>2. CASE t # s
        <5>1. sess[t].st = "live" /\ sess[t].user = l.user /\ sess'[t].born = sess[t].born
          BY <2>3, <2>8, <3>1, <4>2
        <5>2. ~l.logged /\ l.era > 0 /\ m.era = l.era /\ m.keep = l.keep
          BY <2>8, <3>1
        <5>. QED  BY <1>2, <5>1, <5>2 DEF Kept, Ended
      <4>. QED  BY <4>1, <4>2
    <3>. QED  BY <3>1 DEF Ended
  <2>11. Kept(m)'
    BY <1>2, <2>8, <2>9, <2>10 DEF Kept
  <2>. QED  BY <2>4, <2>5, <2>6, <2>7, <2>8, <2>11, MoveKeeps DEF Inv
<1>4. ASSUME sess' = Without(C), Return(q, FALSE) PROVE Inv'
  <2>1. Fewer
    BY <1>2, <1>4, WithoutRows DEF Fewer
  <2>2. Tables' /\ Owned' /\ Newest' /\ ReplacedPasswordIsDead' /\ Forward
    <3>1. mailed' \subseteq AllOps \X Users
      BY <1>2 DEF Inv, Tables
    <3>. QED  BY <1>2, <2>1, <3>1, FewerKeeps
  <2>3. PICK m \in Local :
          req' = [req EXCEPT ![q] = m] /\ m.pc = "done" /\ m.since = 0 /\ m.user = req[q].user /\ m.era = 0
    BY <1>4, Facts, ReturnMoves
  <2>4. ~(m.era > 0)
    BY <2>3
  <2>. QED  BY <2>2, <2>3, <2>4, AnswerKeeps
<1>. QED  BY <1>1, <1>3, <1>4 DEF IssueSession

LEMMA ResetRevokeKeeps == ASSUME Inv, NEW q \in Requests, ResetRevoke(q) PROVE Inv'
<1>1. UNCHANGED <<user, cred, era, credEra, reverted>> /\ mailed' \subseteq AllOps \X Users
  BY DEF ResetRevoke, Inv, Tables
<1>2. CASE sess' = Without(LiveOf(req[q].user)) /\ Return(q, TRUE)
  <2>1. PICK u \in Users : u = req[q].user
    BY Facts
  <2>2. Fewer /\ NoneStays(u)
    BY <1>2, <2>1, EndAll
  <2>3. Tables' /\ Owned' /\ Newest' /\ ReplacedPasswordIsDead' /\ Forward
    BY <1>1, <2>2, FewerKeeps
  <2>4. PICK m \in Local :
          /\ req' = [req EXCEPT ![q] = m]
          /\ m.pc = "done" /\ m.since = 0 /\ m.user = req[q].user /\ (m.era = 0 \/ m.era = req[q].era)
    BY <1>2, Facts, ReturnMoves
  <2>5. NoneStays(m.user)
    BY <2>1, <2>2, <2>4
  <2>. QED  BY <2>3, <2>4, <2>5, AnswerKeeps
<1>3. CASE sess' = sess /\ Answers(q, 0)
  <2>1. Tables' /\ Owned' /\ Newest' /\ ReplacedPasswordIsDead' /\ Forward
    BY <1>1, <1>3, SameSessions, FewerKeeps
  <2>2. PICK m \in Local :
          req' = [req EXCEPT ![q] = m] /\ m.pc = "done" /\ m.era = 0 /\ m.user = req[q].user /\ m.since = 0
    BY <1>3, Facts, AnswersMoves
  <2>3. ~(m.era > 0)
    BY <2>2
  <2>. QED  BY <2>1, <2>2, <2>3, AnswerKeeps
<1>. QED  BY <1>2, <1>3 DEF ResetRevoke, Answers

\* A session that is off the list has ended, or its failure is in the log.
LEMMA RevokeOneKeeps == ASSUME Inv, NEW q \in Requests, NEW s \in Sessions, RevokeOne(q, s) PROVE Inv'
<1>1. UNCHANGED <<user, cred, era, credEra, reverted>> /\ mailed' \subseteq AllOps \X Users
  BY DEF RevokeOne, Inv, Tables
<1>2. PICK l \in Local : l = req[q]
  BY Facts
<1>3. l.pc = "revoke" /\ Kept(l) /\ l.todo \in SUBSET Sessions
  BY <1>2, Facts DEF RevokeOne, Local
<1>4. CASE sess' = Without({s}) /\ req' = [req EXCEPT ![q].todo = @ \ {s}]
  <2>1. Fewer /\ sess'[s].st # "live"
    BY <1>4, WithoutRows DEF Fewer, Inv, Tables
  <2>2. Tables' /\ Owned' /\ Newest' /\ ReplacedPasswordIsDead' /\ Forward
    BY <1>1, <2>1, FewerKeeps
  <2>3. PICK m \in Local :
          /\ req' = [req EXCEPT ![q] = m] /\ m.pc = "revoke" /\ m.op = l.op /\ m.user = l.user /\ m.since = l.since
          /\ m.era = l.era /\ m.keep = l.keep /\ m.todo = l.todo \ {s} /\ (~m.logged => ~l.logged)
    <3>. DEFINE m == [l EXCEPT !.todo = l.todo \ {s}]
    <3>1. req' = [req EXCEPT ![q] = m]
      BY <1>2, <1>4
    <3>2. /\ m \in Local /\ m.pc = "revoke" /\ m.op = l.op /\ m.user = l.user /\ m.since = l.since
          /\ m.era = l.era /\ m.keep = l.keep /\ m.todo = l.todo \ {s} /\ (~m.logged => ~l.logged)
      BY <1>3 DEF Local
    <3>. HIDE DEF m
    <3>. QED  BY <3>1, <3>2
  <2>4. Ended(m)'
    BY <1>3, <2>1, <2>3 DEF Kept, Ended, Fewer
  <2>5. Kept(m)'
    BY <1>1, <1>3, <2>3, <2>4 DEF Kept
  <2>. QED  BY <2>2, <2>3, <2>5, MoveKeeps DEF Inv
<1>5. CASE sess' = sess /\ req' = [req EXCEPT ![q].todo = @ \ {s}, ![q].logged = TRUE]
  <2>1. Quiet
    BY <1>1, <1>5 DEF Quiet
  <2>2. PICK m \in Local :
          /\ req' = [req EXCEPT ![q] = m] /\ m.pc = "revoke" /\ m.op = l.op /\ m.user = l.user /\ m.since = l.since
          /\ m.era = l.era /\ m.logged
    <3>. DEFINE m == [l EXCEPT !.todo = l.todo \ {s}, !.logged = TRUE]
    <3>1. req' = [req EXCEPT ![q] = m]
      BY <1>2, <1>5
    <3>2. /\ m \in Local /\ m.pc = "revoke" /\ m.op = l.op /\ m.user = l.user /\ m.since = l.since
          /\ m.era = l.era /\ m.logged
      BY <1>3 DEF Local
    <3>. HIDE DEF m
    <3>. QED  BY <3>1, <3>2
  <2>3. Kept(m)
    BY <1>3, <2>2 DEF Kept, Ended
  <2>. QED  BY <2>1, <2>2, <2>3, QuietKeeps
<1>. QED  BY <1>4, <1>5 DEF RevokeOne

LEMMA ResetCommitKeeps == ASSUME Inv, NEW q \in Requests, ResetCommit(q) PROVE Inv'
<1>1. PICK u \in Users : u = req[q].user
  BY Facts
<1>. DEFINE c == [gen |-> era[u] + 1, weak |-> FALSE]
<1>2. /\ user[u].exists /\ NewEra(u, TRUE) /\ cred' = [cred EXCEPT ![u] = c]
      /\ GoesOn(q, "revokeall", era[u] + 1) /\ UNCHANGED <<user, sess, mailed, reverted>>
      /\ req[q].op # "signin" /\ user \in [Users -> UserRow]
  BY <1>1 DEF ResetCommit, GoesOn, Inv, Tables
<1>3. c \in Cred /\ c.gen = era[u] + 1 /\ cred \in [Users -> Cred]
  BY DEF Cred, Inv, Tables
<1>. HIDE DEF c
<1>4. cred' \in [Users -> Cred] /\ cred'[u].gen = era[u] + 1 /\ \A v \in Users : v # u => cred'[v] = cred[v]
  BY <1>2, <1>3
<1>5. Tables' /\ Owned' /\ Newest' /\ ReplacedPasswordIsDead' /\ Forward /\ era'[u] = era[u] + 1
  BY <1>2, <1>4, SameSessions, CommitRows
<1>. QED  BY <1>1, <1>2, <1>5, CommitKeeps

LEMMA ProveCommitKeeps == ASSUME Inv, NEW q \in Requests, ProveCommit(q) PROVE Inv'
<1>1. PICK u \in Users : u = req[q].user
  BY Facts
<1>2. PICK p \in BOOLEAN : p <=> req[q].op = "magic"
  OBVIOUS
<1>3. /\ user[u].exists /\ NewEra(u, p) /\ sess' = Without(LiveOf(u))
      /\ UNCHANGED <<mailed, reverted>> /\ req[q].op # "signin" /\ req[q].pc = "commit"
      /\ cred' = IF p THEN [cred EXCEPT ![u] = NoCred] ELSE cred
      /\ GoesOn(q, "session", era[u] + 1) \/ Answers(q, era[u] + 1)
  <2>1. NewEra(u, req[q].op = "magic")
    BY <1>1 DEF ProveCommit
  <2>2. NewEra(u, p)
    BY <1>2, <2>1 DEF NewEra
  <2>. QED  BY <1>1, <1>2, <2>2 DEF ProveCommit, GoesOn, Answers
<1>4. user' \in [Users -> UserRow] /\ \A v \in Users : user[v].exists => user'[v].exists
  <2>1. user' = [user EXCEPT ![req[q].user] = [req[q].row EXCEPT !.verified = TRUE]]
    BY DEF ProveCommit
  <2>. QED  BY <1>3, <2>1, RowWritten
<1>5. NoCred \in Cred /\ NoCred.gen = 0 /\ cred \in [Users -> Cred]
  BY DEF NoCred, Cred, Inv, Tables
<1>6. /\ cred' \in [Users -> Cred] /\ (\A v \in Users : v # u => cred'[v] = cred[v])
      /\ (p => cred'[u].gen = 0) /\ (~p => cred'[u] = cred[u])
  BY <1>3, <1>5
<1>7. Fewer /\ NoneStays(u)
  BY <1>3, EndAll
<1>8. Tables' /\ Owned' /\ Newest' /\ ReplacedPasswordIsDead' /\ Forward /\ era'[u] = era[u] + 1
  BY <1>3, <1>4, <1>6, <1>7, CommitRows
<1>. QED  BY <1>1, <1>3, <1>7, <1>8, CommitKeeps

LEMMA EmailCommitKeeps == ASSUME Inv, NEW q \in Requests, EmailCommit(q) PROVE Inv'
<1>1. PICK u \in Users : u = req[q].user
  BY Facts
<1>2. /\ user[u].exists /\ NewEra(u, FALSE) /\ UNCHANGED <<cred, sess, mailed, reverted>>
      /\ GoesOn(q, "keep", era[u] + 1) /\ req[q].op # "signin" /\ req[q].pc = "commit"
      /\ cred \in [Users -> Cred]
  BY <1>1 DEF EmailCommit, GoesOn, Inv, Tables
<1>3. user' \in [Users -> UserRow] /\ \A v \in Users : user[v].exists => user'[v].exists
  <2>1. user' = [user EXCEPT ![req[q].user] = [req[q].row EXCEPT !.verified = TRUE]]
    BY DEF EmailCommit
  <2>. QED  BY <1>2, <2>1, RowWritten
<1>4. Tables' /\ Owned' /\ Newest' /\ ReplacedPasswordIsDead' /\ Forward /\ era'[u] = era[u] + 1
  BY <1>2, <1>3, SameSessions, CommitRows
<1>. QED  BY <1>1, <1>2, <1>4, CommitKeeps

LEMMA ChangeCommitKeeps ==
    ASSUME Inv, NEW q \in Requests, NEW k \in BOOLEAN, ChangeCommit(q, k)
    PROVE  Inv'
<1>1. PICK u \in Users : u = req[q].user
  BY Facts
<1>. DEFINE c == [gen |-> era[u] + 1, weak |-> FALSE]
<1>2. /\ user[u].exists /\ NewEra(u, TRUE) /\ cred' = [cred EXCEPT ![u] = c]
      /\ UNCHANGED <<sess, mailed, reverted>> /\ req[q].op # "signin" /\ req[q].pc = "commit" /\ req[q].era = 0
      /\ Return(q, TRUE) \/ GoesOn(q, "list", era[u] + 1)
  BY <1>1, Facts DEF ChangeCommit, GoesOn, Kept
<1>3. user' \in [Users -> UserRow] /\ \A v \in Users : user[v].exists => user'[v].exists
  <2>1. user' = user \/ user' = [user EXCEPT ![req[q].user] = [req[q].row EXCEPT !.must = FALSE]]
    BY DEF ChangeCommit
  <2>. QED  BY <1>2, <2>1, RowWritten
<1>4. c \in Cred /\ c.gen = era[u] + 1 /\ cred \in [Users -> Cred]
  BY DEF Cred, Inv, Tables
<1>. HIDE DEF c
<1>5. cred' \in [Users -> Cred] /\ cred'[u].gen = era[u] + 1 /\ \A v \in Users : v # u => cred'[v] = cred[v]
  BY <1>2, <1>4
<1>6. Tables' /\ Owned' /\ Newest' /\ ReplacedPasswordIsDead' /\ Forward /\ era'[u] = era[u] + 1
  BY <1>2, <1>3, <1>5, SameSessions, CommitRows
<1>. QED  BY <1>1, <1>2, <1>6, CommitKeeps

-----------------------------------------------------------------------------
(* Operations of an administrator.                                         *)

LEMMA DisableKeeps == ASSUME Inv, NEW q \in Requests, DisableCommit(q) PROVE Inv'
<1>1. PICK u \in Users : u = req[q].user
  BY Facts
<1>2. /\ user[u].exists /\ NewEra(u, FALSE) /\ UNCHANGED <<cred, mailed, reverted>>
      /\ sess' = Without(LiveOf(u)) /\ Answers(q, era[u] + 1)
      /\ req[q].op # "signin" /\ req[q].pc = "commit" /\ cred \in [Users -> Cred]
  BY <1>1 DEF DisableCommit, Answers, Inv, Tables
<1>3. user' \in [Users -> UserRow] /\ \A v \in Users : user[v].exists => user'[v].exists
  <2>1. user' = [user EXCEPT ![req[q].user] = [req[q].row EXCEPT !.disabled = TRUE]]
    BY DEF DisableCommit
  <2>. QED  BY <1>2, <2>1, RowWritten
<1>4. Fewer /\ NoneStays(u)
  BY <1>2, EndAll
<1>5. Tables' /\ Owned' /\ Newest' /\ ReplacedPasswordIsDead' /\ Forward /\ era'[u] = era[u] + 1
  BY <1>2, <1>3, <1>4, CommitRows
<1>. QED  BY <1>1, <1>2, <1>4, <1>5, CommitKeeps

LEMMA EnableKeeps == ASSUME Inv, NEW q \in Requests, EnableCommit(q) PROVE Inv'
<1>1. /\ UNCHANGED <<cred, sess, mailed, era, credEra, reverted>> /\ Return(q, TRUE)
      /\ req[q].pc = "commit" /\ req[q].era = 0
  BY Facts DEF EnableCommit, Kept
<1>2. user' \in [Users -> UserRow] /\ \A v \in Users : user[v].exists => user'[v].exists
  <2>1. user' = [user EXCEPT ![req[q].user] = [req[q].row EXCEPT !.disabled = FALSE]]
    BY DEF EnableCommit
  <2>. QED  BY <1>1, <2>1, RowWritten
<1>3. Tables' /\ Owned' /\ Newest' /\ ReplacedPasswordIsDead'
  BY <1>1, <1>2 DEF Inv, Tables, Owned, Newest, ReplacedPasswordIsDead
<1>4. Forward
  BY <1>1 DEF Inv, Tables, Forward
<1>5. PICK m \in Local :
        /\ req' = [req EXCEPT ![q] = m]
        /\ m.pc = "done" /\ m.since = 0 /\ m.user = req[q].user /\ (m.era = 0 \/ m.era = req[q].era)
  BY <1>1, Facts, ReturnMoves
<1>6. ~(m.era > 0)
  BY <1>1, <1>5
<1>. QED  BY <1>3, <1>4, <1>5, <1>6, AnswerKeeps

LEMMA AdminResetKeeps ==
    ASSUME Inv, NEW q \in Requests, NEW t \in BOOLEAN, AdminResetCommit(q, t)
    PROVE  Inv'
<1>1. PICK u \in Users : u = req[q].user
  BY Facts
<1>. DEFINE c == [gen |-> era[u] + 1, weak |-> FALSE]
<1>2. /\ user[u].exists /\ NewEra(u, TRUE) /\ cred' = [cred EXCEPT ![u] = c]
      /\ UNCHANGED <<mailed, reverted>> /\ sess' = Without(LiveOf(u)) /\ Answers(q, era[u] + 1)
      /\ req[q].op # "signin" /\ req[q].pc = "commit"
  BY <1>1 DEF AdminResetCommit, Answers
<1>3. user' \in [Users -> UserRow] /\ \A v \in Users : user[v].exists => user'[v].exists
  <2>1. user' = [user EXCEPT ![req[q].user] = [req[q].row EXCEPT !.must = t]]
    BY DEF AdminResetCommit
  <2>. QED  BY <1>2, <2>1, RowWritten
<1>4. c \in Cred /\ c.gen = era[u] + 1 /\ cred \in [Users -> Cred]
  BY DEF Cred, Inv, Tables
<1>. HIDE DEF c
<1>5. cred' \in [Users -> Cred] /\ cred'[u].gen = era[u] + 1 /\ \A v \in Users : v # u => cred'[v] = cred[v]
  BY <1>2, <1>4
<1>6. Fewer /\ NoneStays(u)
  BY <1>2, EndAll
<1>7. Tables' /\ Owned' /\ Newest' /\ ReplacedPasswordIsDead' /\ Forward /\ era'[u] = era[u] + 1
  BY <1>2, <1>3, <1>5, <1>6, CommitRows
<1>. QED  BY <1>1, <1>2, <1>6, <1>7, CommitKeeps

-----------------------------------------------------------------------------
(* The invariant.                                                          *)

LEMMA InitInv == Init => Inv
<1>. SUFFICES ASSUME Init PROVE Inv
  OBVIOUS
<1>1. PICK v \in Users : v = CHOOSE u \in Users : TRUE
  BY AccountsAssumption
<1>2. Registered \subseteq UserRow /\ {[gen |-> 1, weak |-> w] : w \in WeakHashes} \subseteq Cred
  <2>1. Registered \subseteq [exists : {TRUE}, verified : BOOLEAN, disabled : {FALSE}, must : BOOLEAN]
    BY AccountsAssumption
  <2>2. \A r \in [exists : {TRUE}, verified : BOOLEAN, disabled : {FALSE}, must : BOOLEAN] : r \in UserRow
    BY DEF UserRow
  <2>3. \A w \in WeakHashes : [gen |-> 1, weak |-> w] \in Cred
    BY AccountsAssumption DEF Cred
  <2>. QED  BY <2>1, <2>2, <2>3
<1>3. Tables
  <2>1. [st |-> "unborn", user |-> v, proof |-> 0, born |-> 0, since |-> 0] \in SessRow
    BY DEF SessRow
  <2>2. sess \in [Sessions -> SessRow]
    BY <1>1, <2>1 DEF Init
  <2>3. user \in [Users -> UserRow] /\ cred \in [Users -> Cred]
    BY <1>2 DEF Init
  <2>. QED  BY <2>2, <2>3 DEF Init, Tables
<1>4. \A s \in Sessions : sess[s].st = "unborn"
  BY DEF Init
<1>5. Owned
  <2>1. \A u \in Users : user[u] \in Registered
    BY DEF Init
  <2>2. \A r \in Registered : r.exists
    BY AccountsAssumption
  <2>. QED  BY <2>1, <2>2 DEF Owned
<1>6. Newest
  <2>1. \A u \in Users : cred[u].gen = 1 /\ credEra[u] = 1 /\ era[u] = 1
    BY DEF Init
  <2>. QED  BY <2>1 DEF Newest
<1>7. ReplacedPasswordIsDead
  BY <1>4 DEF ReplacedPasswordIsDead
<1>8. /\ Fresh("signin", "idle", v) \in Local /\ Fresh("signin", "idle", v).pc = "idle" /\ Fresh("signin", "idle", v).user = v
      /\ Fresh("signin", "idle", v).era = 0 /\ Fresh("signin", "idle", v).since = 0
  BY StepNames, FreshCall
<1>9. req = [q \in Requests |-> Fresh("signin", "idle", v)]
  BY <1>1 DEF Init
<1>10. Kept(Fresh("signin", "idle", v))
  <2>1. PICK m \in Local : m = Fresh("signin", "idle", v)
    BY <1>8
  <2>2. m.pc = "idle" /\ m.user = v /\ m.era = 0 /\ m.since = 0
    BY <1>8, <2>1
  <2>3. credEra[v] = 1 /\ era[v] = 1
    BY DEF Init
  <2>4. Kept(m)
    BY <2>2, <2>3 DEF Kept, Ended
  <2>. QED  BY <2>1, <2>4
<1>. QED  BY <1>3, <1>5, <1>6, <1>7, <1>8, <1>9, <1>10 DEF Inv

LEMMA NextKeeps == ASSUME Inv, [Next]_vars PROVE Inv'
<1>1. ASSUME NEW u \in Users, ForgotPassword(u) \/ SendMagicLink(u) \/ SendVerification(u) PROVE Inv'
  BY <1>1, RequestMailKeeps
<1>2. ASSUME NEW u \in Users, DeleteUser(u) PROVE Inv'
  BY <1>2, DeleteUserKeeps
<1>3. ASSUME NEW u \in Users, NEW q \in Requests, NEW pw \in 1..era[u], SignInReadUser(q, u, pw) PROVE Inv'
  <2>1. pw \in Nat
    BY DEF Inv, Tables
  <2>. QED  BY <1>3, <2>1, SignInReadUserKeeps
<1>4. ASSUME NEW u \in Users, NEW q \in Requests, NEW op \in Ops, AdminRead(q, op, u) \/ ConsumeToken(q, op, u) PROVE Inv'
  <2>1. op \in AllOps
    BY AccountsAssumption
  <2>. QED  BY <1>4, <2>1, AdminReadKeeps, ConsumeTokenKeeps
<1>5. ASSUME NEW u \in Users, NEW q \in Requests, NEW c \in Cookies, VerifyToken(q, u, c) PROVE Inv'
  BY <1>5, VerifyTokenKeeps
<1>6. ASSUME NEW q \in Requests, SignInCheck(q) \/ SignInRehash(q) \/ \E C \in {{}} \cup {{s} : s \in Sessions} : IssueSession(q, C)
      PROVE  Inv'
  BY <1>6, SignInCheckKeeps, SignInRehashKeeps, IssueSessionKeeps
<1>7. ASSUME NEW q \in Requests, ReadUser(q) \/ CommitFails(q) \/ ResetCommit(q) \/ ResetRevoke(q) PROVE Inv'
  BY <1>7, ReadUserKeeps, CommitFailsKeeps, ResetCommitKeeps, ResetRevokeKeeps
<1>8. ASSUME NEW q \in Requests, ProveCommit(q) \/ EmailCommit(q) \/ EmailChangeMail(q) PROVE Inv'
  BY <1>8, ProveCommitKeeps, EmailCommitKeeps, EmailChangeMailKeeps
<1>9. ASSUME NEW q \in Requests, NEW c \in Cookies, EmailKeep(q, c) PROVE Inv'
  BY <1>9, EmailKeepKeeps
<1>10. ASSUME NEW q \in Requests, NEW s \in Sessions, NEW pw \in 1..era[sess[s].user],
              ChangeStart(q, s, pw) \/ EmailChangeStart(q, s, pw)
       PROVE  Inv'
  <2>1. pw \in Nat
    BY DEF Inv, Tables, SessRow
  <2>. QED  BY <1>10, <2>1, ChangeStartKeeps, EmailChangeStartKeeps
<1>11. ASSUME NEW q \in Requests, NEW s \in Sessions, RevokeOne(q, s) PROVE Inv'
  BY <1>11, RevokeOneKeeps
<1>12. ASSUME NEW q \in Requests, ChangeCheck(q) \/ RevokeList(q) \/ RevokeDone(q) PROVE Inv'
  BY <1>12, ChangeCheckKeeps, RevokeListKeeps, RevokeDoneKeeps
<1>13. ASSUME NEW q \in Requests, NEW k \in BOOLEAN, ChangeCommit(q, k) \/ AdminResetCommit(q, k) PROVE Inv'
  BY <1>13, ChangeCommitKeeps, AdminResetKeeps
<1>14. ASSUME NEW q \in Requests, DisableCommit(q) \/ EnableCommit(q) PROVE Inv'
  BY <1>14, DisableKeeps, EnableKeeps
<1>15. CASE UNCHANGED vars
  <2>1. Quiet /\ req' = req
    BY <1>15 DEF vars, Quiet, Inv, Tables
  <2>. QED  BY <2>1, MailKeeps
<1>. QED  BY <1>1, <1>2, <1>3, <1>4, <1>5, <1>6, <1>7, <1>8, <1>9, <1>10, <1>11, <1>12, <1>13, <1>14, <1>15 DEF Next

\* The inductive invariant behind the three properties below: what each handler
\* carries from one statement to the next, and what the tables say of the eras.
THEOREM AccountsInvariant == Spec => []Inv
<1>1. Inv /\ [Next]_vars => Inv'
  BY NextKeeps
<1>. QED  BY InitInv, <1>1, PTL DEF Spec

\* No session and no credential outlives its user, although SignIn, the reset, the
\* change and the proof of an address write after a DeleteUser they did not see.
THEOREM RowsEndWithUser == Spec => []OwnedRowsHaveOwner
<1>1. Inv => OwnedRowsHaveOwner
  BY DEF Inv, Tables, Owned, OwnedRowsHaveOwner, TypeOK, LiveOf
<1>. QED  BY <1>1, AccountsInvariant, PTL

\* A change of password, a reset, an email change, a proof of the address, a Disable
\* or an admin reset that has answered has ended every session that was there when it
\* committed, except the one it keeps; a refused revocation is in the log.
THEOREM EarlierSessionsEnd == Spec => []OldSessionsEnd
<1>1. Inv => OldSessionsEnd
  <2>. SUFFICES ASSUME Inv, NEW q \in Requests, req[q].pc = "done", req[q].era > 0, NEW s \in LiveOf(req[q].user)
                PROVE  sess[s].born >= req[q].era \/ s = req[q].keep
    BY DEF OldSessionsEnd
  <2>. QED  BY DEF Inv, Kept, Ended, LiveOf
<1>. QED  BY <1>1, AccountsInvariant, PTL

\* No session is proven with a password that was replaced or deleted before its
\* sign-in began, unless the rehash of SignIn wrote the old hash back.
THEOREM ReplacedPasswordsStayDead == Spec => []ReplacedPasswordIsDead
<1>1. Inv => ReplacedPasswordIsDead
  BY DEF Inv
<1>. QED  BY <1>1, AccountsInvariant, PTL

\* Users().Update writes a whole row that was read earlier, and SignIn inserts a session
\* for a user it read before: whatever the requests in flight write back, no deleted user
\* and no ended session comes back, and a session keeps its user and its beginning.
NothingRevived ==
    [][/\ \A u \in Users : ~user[u].exists => ~user'[u].exists
       /\ \A s \in Sessions :
            /\ sess[s].st = "gone" => sess'[s].st = "gone"
            /\ sess[s].st = "live" => sess'[s] \in {sess[s], [sess[s] EXCEPT !.st = "gone"]}]_vars

\* A step that leaves the sessions alone, revokes some or inserts one.
LEMMA SessionsStay ==
    ASSUME \/ sess' = sess
           \/ \E S : sess' = Without(S)
           \/ \E S, r : \E t \in Unborn : sess' = [Without(S) EXCEPT ![t] = r],
           NEW s \in Sessions
    PROVE  /\ sess[s].st = "gone" => sess'[s].st = "gone"
           /\ sess[s].st = "live" => sess'[s] \in {sess[s], [sess[s] EXCEPT !.st = "gone"]}
<1>1. \A S : /\ sess[s].st = "gone" => Without(S)[s].st = "gone"
             /\ sess[s].st = "live" => Without(S)[s] \in {sess[s], [sess[s] EXCEPT !.st = "gone"]}
  BY DEF Without
<1>2. ASSUME NEW S, NEW r, NEW t \in Unborn, sess' = [Without(S) EXCEPT ![t] = r], sess[s].st \in {"gone", "live"}
      PROVE  sess'[s] = Without(S)[s]
  <2>1. s # t
    BY <1>2 DEF Unborn
  <2>. QED  BY <1>2, <2>1 DEF Without
<1>. QED  BY <1>1, <1>2

\* What a step of any handler writes to the users and to the sessions.
LEMMA StepStays ==
    ASSUME Inv, Next
    PROVE  /\ UNCHANGED user \/ \E r : \E u \in Users : user[u].exists /\ user' = [user EXCEPT ![u] = r]
           /\ \/ sess' = sess
              \/ \E S : sess' = Without(S)
              \/ \E S, r : \E t \in Unborn : sess' = [Without(S) EXCEPT ![t] = r]
<1>. DEFINE UserStep == UNCHANGED user \/ \E r : \E u \in Users : user[u].exists /\ user' = [user EXCEPT ![u] = r]
            SessStep == \/ sess' = sess
                        \/ \E S : sess' = Without(S)
                        \/ \E S, r : \E t \in Unborn : sess' = [Without(S) EXCEPT ![t] = r]
<1>1. \A q \in Requests : req[q].user \in Users
  BY DEF Inv, Local
<1>2. ASSUME NEW u \in Users, ForgotPassword(u) \/ SendMagicLink(u) \/ SendVerification(u) PROVE UNCHANGED <<user, sess>>
  BY <1>2 DEF ForgotPassword, SendMagicLink, SendVerification
<1>3. ASSUME NEW u \in Users, DeleteUser(u) PROVE UserStep /\ SessStep
  BY <1>3 DEF DeleteUser
<1>4. ASSUME NEW u \in Users, NEW q \in Requests, NEW x,
             SignInReadUser(q, u, x) \/ AdminRead(q, x, u) \/ ConsumeToken(q, x, u) \/ VerifyToken(q, u, x)
      PROVE  UNCHANGED <<user, sess>>
  BY <1>4 DEF SignInReadUser, AdminRead, ConsumeToken, VerifyToken
<1>5. ASSUME NEW q \in Requests, NEW x, NEW y,
             \/ SignInCheck(q) \/ SignInRehash(q) \/ ReadUser(q) \/ CommitFails(q) \/ ResetCommit(q)
             \/ EmailKeep(q, x) \/ EmailChangeMail(q) \/ ChangeStart(q, x, y) \/ EmailChangeStart(q, x, y)
             \/ ChangeCheck(q) \/ RevokeList(q) \/ RevokeDone(q)
      PROVE  UNCHANGED <<user, sess>>
  BY <1>5 DEF SignInCheck, SignInRehash, ReadUser, CommitFails, ResetCommit, EmailKeep, EmailChangeMail, ChangeStart,
     EmailChangeStart, ChangeCheck, RevokeList, RevokeDone
<1>6. ASSUME NEW q \in Requests, NEW x, IssueSession(q, x) \/ RevokeOne(q, x) \/ ResetRevoke(q) PROVE UserStep /\ SessStep
  <2>1. CASE IssueSession(q, x)
    BY <2>1 DEF IssueSession
  <2>2. CASE RevokeOne(q, x)
    BY <2>2 DEF RevokeOne
  <2>3. CASE ResetRevoke(q)
    BY <2>3 DEF ResetRevoke
  <2>. QED  BY <1>6, <2>1, <2>2, <2>3
<1>7. ASSUME NEW q \in Requests, NEW x,
             \/ ProveCommit(q) \/ EmailCommit(q) \/ ChangeCommit(q, x) \/ AdminResetCommit(q, x)
             \/ DisableCommit(q) \/ EnableCommit(q)
      PROVE  UserStep /\ SessStep
  <2>1. UserStep
    BY <1>1, <1>7 DEF ProveCommit, EmailCommit, ChangeCommit, AdminResetCommit, DisableCommit, EnableCommit
  <2>2. SessStep
    BY <1>7 DEF ProveCommit, EmailCommit, ChangeCommit, AdminResetCommit, DisableCommit, EnableCommit
  <2>. QED  BY <2>1, <2>2
<1>8. UserStep /\ SessStep
  <2>. HIDE DEF UserStep, SessStep
  <2>1. UNCHANGED <<user, sess>> => UserStep /\ SessStep
    BY DEF UserStep, SessStep
  <2>. QED  BY <1>2, <1>3, <1>4, <1>5, <1>6, <1>7, <2>1 DEF Next
<1>. QED  BY <1>8

\* DeleteUser and each revocation are final, although the requests in flight write
\* back rows they read before and SignIn issues a session after its last check.
THEOREM EndedStaysEnded == Spec => NothingRevived
<1>. DEFINE UserStays == \A u \in Users : ~user[u].exists => ~user'[u].exists
            SessStays == \A s \in Sessions :
                           /\ sess[s].st = "gone" => sess'[s].st = "gone"
                           /\ sess[s].st = "live" => sess'[s] \in {sess[s], [sess[s] EXCEPT !.st = "gone"]}
<1>1. ASSUME Inv, Next PROVE UserStays /\ SessStays
  <2>1. UserStays
    <3>1. ASSUME NEW r, NEW u \in Users, user[u].exists, user' = [user EXCEPT ![u] = r] PROVE UserStays
      BY <1>1, <3>1 DEF Inv, Tables
    <3>. QED  BY <1>1, <3>1, StepStays
  <2>2. SessStays
    BY <1>1, StepStays, SessionsStay
  <2>. QED  BY <2>1, <2>2
<1>2. Inv /\ [Next]_vars =>
        [/\ \A u \in Users : ~user[u].exists => ~user'[u].exists
         /\ \A s \in Sessions :
              /\ sess[s].st = "gone" => sess'[s].st = "gone"
              /\ sess[s].st = "live" => sess'[s] \in {sess[s], [sess[s] EXCEPT !.st = "gone"]}]_vars
  BY <1>1
<1>. QED  BY <1>2, AccountsInvariant, PTL DEF Spec, NothingRevived

-----------------------------------------------------------------------------
(* The migrations of the tables.  MigrationsAssumption is the assumption   *)
(* of Migrations on its constants.  RendererSound is about the plugins of  *)
(* the library and nothing else: TLC evaluates it for each set of them.    *)

CONSTANTS Instances, Releases, Cuts, MaxFaults
VARIABLES mode, objects, recorded, inst, files, faults, misplaced
M == INSTANCE Migrations

\* An instance whose statement has run is about to record it, and an instance of a
\* host with a tool of its own runs none.
Recording ==
    /\ DOMAIN inst = Instances
    /\ \A i \in Instances : /\ DOMAIN inst[i] = {"plugins", "pc", "todo", "serving"}
                            /\ inst[i].todo \subseteq Int
                            /\ inst[i].pc = "record" => \A k \in M!First(i) : M!NameAt(i, k) \in objects
    /\ mode = "catalog" => recorded = {} /\ \A i \in Instances : inst[i].pc = "off"
    /\ mode \in {"record", "catalog"}
    /\ M!RecordedExists

LEMMA InitRecording == M!Init => Recording
<1>. SUFFICES ASSUME M!Init PROVE Recording
  OBVIOUS
<1>1. \E P, V : inst \in [Instances -> [plugins : P, pc : {"off"}, todo : {{}}, serving : V]]
  BY DEF M!Init
<1>2. /\ DOMAIN inst = Instances
      /\ \A i \in Instances : /\ inst[i].pc = "off" /\ inst[i].todo = {}
                              /\ DOMAIN inst[i] = {"plugins", "pc", "todo", "serving"}
  BY <1>1
<1>3. mode \in {"record", "catalog"}
  BY DEF M!Init
<1>4. recorded \subseteq objects /\ (mode = "catalog" => recorded = {})
  <2>1. PICK cut \in Cuts, i \in Instances :
          LET old == M!UpTo(inst[i].plugins, cut)
              ups == UNION {M!NamesOf(u.up) : u \in old}
          IN  objects = ups /\ recorded = IF mode = "record" THEN ups ELSE {}
    BY DEF M!Init
  <2>. QED  BY <2>1
<1>. QED  BY <1>2, <1>3, <1>4 DEF Recording, M!RecordedExists

\* A step of one instance: of another it changes nothing.
LEMMA RecordingMoves ==
    ASSUME Recording, NEW i \in Instances, NEW r, mode' = mode, objects \subseteq objects',
           recorded' \subseteq objects', mode = "catalog" => recorded' = {} /\ r.pc = "off",
           DOMAIN r = {"plugins", "pc", "todo", "serving"}, r.todo \subseteq Int,
           r.pc = "record" => /\ r.plugins = inst[i].plugins /\ r.todo = inst[i].todo
                              /\ \A k \in M!First(i) : M!NameAt(i, k) \in objects',
           inst' = [inst EXCEPT ![i] = r]
    PROVE  Recording'
<1>1. inst'[i] = r /\ \A j \in Instances \ {i} : inst'[j] = inst[j]
  BY DEF Recording
<1>2. ASSUME NEW j \in Instances, inst'[j].pc = "record" PROVE \A k \in M!First(j)' : M!NameAt(j, k)' \in objects'
  BY <1>1, <1>2 DEF Recording, M!First, M!NameAt
<1>3. \A j \in Instances : DOMAIN inst'[j] = {"plugins", "pc", "todo", "serving"} /\ inst'[j].todo \subseteq Int
  BY <1>1 DEF Recording
<1>4. mode' = "catalog" => recorded' = {} /\ \A j \in Instances : inst'[j].pc = "off"
  BY <1>1 DEF Recording
<1>. QED  BY <1>2, <1>3, <1>4 DEF Recording, M!RecordedExists

\* Apply: what is planned, run and recorded.
LEMMA RecordingStep == Recording /\ [M!Next]_(M!vars) => Recording'
<1>. SUFFICES ASSUME Recording, [M!Next]_(M!vars) PROVE Recording'
  OBVIOUS
<1>1. CASE UNCHANGED M!vars
  BY <1>1 DEF M!vars, Recording, M!RecordedExists, M!First, M!NameAt
<1>2. ASSUME NEW i \in Instances, M!Begin(i) PROVE Recording'
  <2>. DEFINE r == [inst[i] EXCEPT !.pc = "plan"]
  <2>1. DOMAIN r = {"plugins", "pc", "todo", "serving"} /\ r.pc = "plan" /\ inst' = [inst EXCEPT ![i] = r]
        /\ r.todo \subseteq Int
    BY <1>2 DEF M!Begin, Recording
  <2>. HIDE DEF r
  <2>. QED  BY <1>2, <2>1, RecordingMoves DEF M!Begin, Recording, M!RecordedExists
<1>3. ASSUME NEW i \in Instances, NEW todo, todo \subseteq Int, M!Planned(i, todo), inst[i].pc # "off", mode' = mode,
             objects' = objects, recorded' \subseteq objects
      PROVE  Recording'
  <2>. DEFINE p == IF todo = {} THEN "done" ELSE "exec"
              r == [inst[i] EXCEPT !.pc = p, !.todo = todo]
  <2>1. DOMAIN r = {"plugins", "pc", "todo", "serving"} /\ r.pc = p /\ p # "record" /\ r.todo = todo
        /\ inst' = [inst EXCEPT ![i] = r]
    BY <1>3 DEF M!Planned, Recording
  <2>2. mode # "catalog"
    BY <1>3 DEF Recording
  <2>. HIDE DEF r, p
  <2>. QED  BY <1>3, <2>1, <2>2, RecordingMoves
<1>4. ASSUME NEW i \in Instances, M!Plan(i) \/ M!PlanBlind(i) PROVE Recording'
  <2>1. \E todo : todo \subseteq Int /\ M!Planned(i, todo)
    BY <1>4 DEF M!Plan, M!PlanBlind, M!Pending
  <2>. QED  BY <1>3, <1>4, <2>1 DEF M!Plan, M!PlanBlind, Recording, M!RecordedExists
<1>5. ASSUME NEW i \in Instances, M!Fails(i), UNCHANGED <<mode, objects, recorded>> PROVE Recording'
  <2>. DEFINE r == [inst[i] EXCEPT !.pc = "off", !.todo = {}]
  <2>1. DOMAIN r = {"plugins", "pc", "todo", "serving"} /\ r.pc = "off" /\ r.todo = {} /\ inst' = [inst EXCEPT ![i] = r]
    BY <1>5 DEF M!Fails, Recording
  <2>. HIDE DEF r
  <2>. QED  BY <1>5, <2>1, RecordingMoves DEF Recording, M!RecordedExists
<1>6. ASSUME NEW i \in Instances, M!Exec(i) PROVE Recording'
  <2>1. PICK k \in M!First(i) : inst[i].pc = "exec" /\ M!RunStatement(i, M!NameAt(i, k), M!Conflicts(M!NameAt(i, k)))
    BY <1>6 DEF M!Exec
  <2>. DEFINE n == M!NameAt(i, k)
              r == [inst[i] EXCEPT !.pc = "record"]
  <2>2. CASE M!Fails(i) /\ UNCHANGED objects
    BY <1>5, <2>1, <2>2 DEF M!RunStatement
  <2>3. CASE objects' = objects \cup {n} /\ inst' = [inst EXCEPT ![i].pc = "record"]
    <3>1. DOMAIN r = {"plugins", "pc", "todo", "serving"} /\ r.pc = "record" /\ r.todo = inst[i].todo
          /\ r.plugins = inst[i].plugins /\ inst' = [inst EXCEPT ![i] = r]
      BY <2>3 DEF Recording
    <3>2. mode' = mode /\ mode # "catalog" /\ recorded' = recorded
      BY <2>1 DEF M!RunStatement, Recording
    <3>3. \A j \in M!First(i) : j = k
      <4>1. inst[i].todo \subseteq Int
        BY DEF Recording
      <4>. QED  BY <4>1 DEF M!First
    <3>4. \A j \in M!First(i) : M!NameAt(i, j) \in objects'
      BY <2>3, <3>3
    <3>. HIDE DEF r
    <3>. QED  BY <2>3, <3>1, <3>2, <3>4, RecordingMoves DEF Recording, M!RecordedExists
  <2>. QED  BY <2>1, <2>2, <2>3 DEF M!RunStatement
<1>7. ASSUME NEW i \in Instances, M!Record(i) PROVE Recording'
  <2>1. PICK k \in M!First(i) :
          IF M!NameAt(i, k) \in recorded
            THEN M!Fails(i) /\ UNCHANGED recorded
            ELSE recorded' = recorded \cup {M!NameAt(i, k)} /\ M!Planned(i, inst[i].todo \ {k})
    BY <1>7 DEF M!Record
  <2>2. inst[i].pc = "record" /\ M!NameAt(i, k) \in objects /\ UNCHANGED <<mode, objects>>
        /\ inst[i].todo \ {k} \subseteq Int
    BY <1>7 DEF M!Record, Recording
  <2>3. CASE M!Fails(i) /\ UNCHANGED recorded
    BY <1>5, <2>2, <2>3
  <2>4. CASE recorded' = recorded \cup {M!NameAt(i, k)} /\ M!Planned(i, inst[i].todo \ {k})
    BY <1>3, <2>2, <2>4 DEF Recording, M!RecordedExists
  <2>. QED  BY <2>1, <2>3, <2>4
<1>8. ASSUME NEW i \in Instances, M!Serve(i) PROVE Recording'
  <2>. DEFINE r == [inst[i] EXCEPT !.serving = TRUE]
  <2>1. DOMAIN r = {"plugins", "pc", "todo", "serving"} /\ r.pc = inst[i].pc /\ r.todo = inst[i].todo
        /\ r.plugins = inst[i].plugins /\ inst' = [inst EXCEPT ![i] = r] /\ r.todo \subseteq Int
    BY <1>8 DEF M!Serve, Recording
  <2>2. r.pc # "record" /\ (mode = "catalog" => r.pc = "off")
    BY <1>8, <2>1 DEF M!Serve, Recording
  <2>. HIDE DEF r
  <2>. QED  BY <1>8, <2>1, <2>2, RecordingMoves DEF M!Serve, Recording, M!RecordedExists
<1>9. ASSUME NEW i \in Instances, M!Up(i) \/ M!Down(i) PROVE Recording'
  <2>1. mode = "catalog" /\ UNCHANGED <<mode, recorded, inst>>
    BY <1>9 DEF M!Up, M!Down
  <2>. QED  BY <2>1 DEF Recording, M!RecordedExists, M!First, M!NameAt
<1>. QED  BY <1>1, <1>2, <1>4, <1>5, <1>6, <1>7, <1>8, <1>9 DEF M!Next, M!Step, M!Crash

\* Apply: however many processes deploy at the same time and end anywhere, the record
\* table names only what is in the database.
THEOREM RecordedIsThere == M!Spec => []M!RecordedExists
<1>1. Recording => M!RecordedExists
  BY DEF Recording
<1>. QED  BY <1>1, InitRecording, RecordingStep, PTL DEF M!Spec

\* A process knows its plugins, and what is not pending in the order of Render is there.
RunOk(r, there) ==
    /\ r.plugins \in Releases /\ r.serving \in BOOLEAN
    /\ r.pc \in {"off", "plan", "exec", "record", "done"}
    /\ r.todo \subseteq 1 .. Len(M!Schemas[r.plugins].render)
    /\ (r.todo # {}) <=> (r.pc \in {"exec", "record"})
    /\ r.pc \in {"exec", "record"} =>
         \A j \in 1 .. Len(M!Schemas[r.plugins].render) :
            j \in r.todo \/ M!Schemas[r.plugins].render[j].name \in there

\* The files that the tool of the host has applied, and what they have made.
Applied(versions) == {u \in M!AllFiles : u.version \in versions}
Made(versions) == UNION {M!NamesOf(u.up) : u \in Applied(versions)}

\* Nothing has been misplaced, and a database of the tool holds whole files.
Ordered ==
    /\ Recording
    /\ misplaced = FALSE /\ faults \in 0 .. MaxFaults
    /\ objects \subseteq DOMAIN M!StatementOf
    /\ files \subseteq {u.version : u \in M!AllFiles}
    /\ \A i \in Instances : RunOk(inst[i], objects)
    /\ mode = "catalog" => objects = Made(files)

LEMMA SchemasOf ==
    ASSUME NEW ps \in Releases \cup {M!AllPlugins}
    PROVE  /\ M!Schemas[ps].units = M!Files(ps) /\ M!Schemas[ps].render = M!Render(M!Files(ps))
           /\ M!Schemas[ps].catalog = M!CatalogOf(ps) /\ M!Schemas[ps].objects = M!ObjectsOf(ps)
BY DEF M!Schemas, M!SchemaOf

LEMMA NamesIn == \A s : M!NamesOf(s) = {s[k].name : k \in DOMAIN s}
BY DEF M!NamesOf, M!ToSet

\* What RendererSound says of the plugins of an instance.
LEMMA SoundPlugins ==
    ASSUME M!MigrationsAssumption, M!RendererSound, NEW ps \in Releases
    PROVE  M!RenderSound(ps) /\ M!ToSet(M!Files(ps)) \subseteq M!AllFiles /\ M!FilesSound
<1>1. M!RenderSound(ps) /\ M!FilesSound
  BY DEF M!RendererSound, M!MigrationsAssumption
<1>. QED  BY <1>1 DEF M!RenderSound

LEMMA InitOrdered == M!MigrationsAssumption /\ M!RendererSound /\ M!Init => Ordered
<1>. SUFFICES ASSUME M!MigrationsAssumption, M!RendererSound, M!Init PROVE Ordered
  OBVIOUS
<1>1. Recording /\ misplaced = FALSE
  BY InitRecording DEF M!Init
<1>9. faults \in 0 .. MaxFaults
  <2>1. faults = 0
    BY DEF M!Init
  <2>. QED  BY <2>1 DEF M!MigrationsAssumption
<1>2. \A i \in Instances : /\ inst[i].plugins \in Releases /\ inst[i].serving = FALSE
                           /\ inst[i].pc = "off" /\ inst[i].todo = {}
  <2>1. inst \in [Instances -> [plugins : {ps \in Releases : M!Valid(ps)}, pc : {"off"},
                                todo : {{}}, serving : {FALSE}]]
    BY DEF M!Init
  <2>. QED  BY <2>1
<1>3. \A i \in Instances : RunOk(inst[i], objects)
  BY <1>2 DEF RunOk
<1>4. PICK cut \in Cuts, i \in Instances :
        /\ objects = UNION {M!NamesOf(u.up) : u \in M!UpTo(inst[i].plugins, cut)}
        /\ files = IF mode = "catalog" THEN {u.version : u \in M!UpTo(inst[i].plugins, cut)} ELSE {}
  BY DEF M!Init
<1>. DEFINE old == M!UpTo(inst[i].plugins, cut)
<1>5. old \subseteq M!AllFiles
  <2>1. old \subseteq M!ToSet(M!Files(inst[i].plugins))
    BY <1>2, SchemasOf DEF M!UpTo
  <2>. QED  BY <1>2, <2>1, SoundPlugins
<1>6. objects \subseteq DOMAIN M!StatementOf
  BY <1>4, <1>5, NamesIn DEF M!RendererSound, M!FilesSound
<1>7. files \subseteq {u.version : u \in M!AllFiles}
  BY <1>4, <1>5
<1>8. ASSUME mode = "catalog" PROVE objects = Made(files)
  <2>1. files = {u.version : u \in old}
    BY <1>4, <1>8
  <2>2. Applied(files) = old
    BY <1>5, <2>1 DEF Applied, M!RendererSound, M!FilesSound
  <2>. QED  BY <1>4, <2>2 DEF Made
<1>. QED  BY <1>1, <1>3, <1>6, <1>7, <1>8, <1>9 DEF Ordered

\* A step of one process of Apply.
LEMMA OrderedMoves ==
    ASSUME Ordered, Recording', NEW i \in Instances, NEW r, mode' = mode, UNCHANGED <<misplaced, files>>,
           faults' \in 0 .. MaxFaults, objects' = objects \/ (mode # "catalog" /\ objects \subseteq objects'),
           objects' \subseteq DOMAIN M!StatementOf,
           RunOk(r, objects'), inst' = [inst EXCEPT ![i] = r]
    PROVE  Ordered'
<1>1. objects \subseteq objects'
  OBVIOUS
<1>2. \A j \in Instances : inst'[j] = IF j = i THEN r ELSE inst[j]
  BY DEF Ordered, Recording
<1>3. ASSUME NEW j \in Instances PROVE RunOk(inst'[j], objects')
  <2>1. CASE j = i
    BY <1>2, <2>1
  <2>2. CASE j # i
    BY <1>1, <1>2, <2>2 DEF Ordered, RunOk
  <2>. QED  BY <2>1, <2>2
<1>4. mode' = "catalog" => objects' = Made(files')
  BY DEF Ordered, Made, Applied
<1>. QED  BY <1>3, <1>4 DEF Ordered

\* Apply: the tables that the next statement names are there.
LEMMA NothingMissing ==
    ASSUME M!MigrationsAssumption, M!RendererSound, Ordered, NEW i \in Instances, inst[i].pc = "exec",
           NEW k \in M!First(i)
    PROVE  M!NameAt(i, k) \in DOMAIN M!StatementOf /\ ~M!Missing(M!NameAt(i, k))
<1>. DEFINE ps == inst[i].plugins
            R == M!Schemas[ps].render
<1>1. RunOk(inst[i], objects) /\ ps \in Releases
  BY DEF Ordered, RunOk
<1>2. k \in inst[i].todo /\ k \in 1 .. Len(R) /\ inst[i].todo \subseteq 1 .. Len(R)
      /\ \A j \in inst[i].todo : k <= j
  BY <1>1 DEF M!First, RunOk
<1>3. R = M!Render(M!Files(ps)) /\ M!RenderSound(ps)
  BY <1>1, SchemasOf, SoundPlugins
<1>4. \A j \in 1 .. k - 1 : R[j].name \in objects
  <2>1. ASSUME NEW j \in 1 .. k - 1 PROVE j \in 1 .. Len(R) /\ j \notin inst[i].todo
    BY <1>2
  <2>. QED  BY <1>1, <2>1 DEF RunOk
<1>5. R[k].name \in DOMAIN M!StatementOf /\ M!StatementOf[R[k].name].needs \subseteq {R[j].name : j \in 1 .. k - 1}
  BY <1>2, <1>3 DEF M!RenderSound
<1>. QED  BY <1>4, <1>5 DEF M!NameAt, M!Missing

\* Apply, the deploy as a whole: Begin, the plan, a statement and its record, and Serve.
LEMMA DeployOrdered ==
    ASSUME M!MigrationsAssumption, M!RendererSound, Ordered, Recording', NEW i \in Instances,
           M!Step(i) \/ M!PlanBlind(i) \/ M!Crash(i) \/ M!Serve(i)
    PROVE  Ordered'
<1>. DEFINE ps == inst[i].plugins
            R == M!Schemas[ps].render
<1>1. RunOk(inst[i], objects) /\ DOMAIN inst[i] = {"plugins", "pc", "todo", "serving"}
  BY DEF Ordered, Recording
<1>2. ASSUME M!Begin(i) PROVE Ordered'
  <2>. DEFINE r == [inst[i] EXCEPT !.pc = "plan"]
  <2>1. /\ r.plugins = ps /\ r.pc = "plan" /\ r.todo = inst[i].todo /\ r.serving = inst[i].serving
        /\ inst' = [inst EXCEPT ![i] = r]
    BY <1>1, <1>2 DEF M!Begin
  <2>2. inst[i].pc = "off" /\ UNCHANGED <<mode, objects, recorded, files, faults, misplaced>>
    BY <1>2 DEF M!Begin
  <2>. HIDE DEF r
  <2>3. RunOk(r, objects')
    BY <1>1, <2>1, <2>2 DEF RunOk
  <2>4. faults' \in 0 .. MaxFaults /\ objects' \subseteq DOMAIN M!StatementOf
    BY <2>2 DEF Ordered
  <2>. QED  BY <2>1, <2>2, <2>3, <2>4, OrderedMoves
\* Planned, of the plan and of the record.
<1>3. ASSUME NEW todo, M!Planned(i, todo), todo \subseteq 1 .. Len(R),
             \A j \in 1 .. Len(R) : j \in todo \/ R[j].name \in objects,
             UNCHANGED <<mode, objects, files, misplaced>>, faults' \in 0 .. MaxFaults
      PROVE  Ordered'
  <2>. DEFINE p == IF todo = {} THEN "done" ELSE "exec"
              r == [inst[i] EXCEPT !.pc = p, !.todo = todo]
  <2>1. /\ r.plugins = ps /\ r.pc = p /\ r.todo = todo /\ r.serving = inst[i].serving
        /\ inst' = [inst EXCEPT ![i] = r]
    BY <1>1, <1>3 DEF M!Planned
  <2>2. p \in {"done", "exec"} /\ (todo # {} <=> p = "exec")
    OBVIOUS
  <2>. HIDE DEF r, p
  <2>3. RunOk(r, objects')
    BY <1>1, <1>3, <2>1, <2>2 DEF RunOk
  <2>4. objects' \subseteq DOMAIN M!StatementOf
    BY <1>3 DEF Ordered
  <2>. QED  BY <1>3, <2>1, <2>3, <2>4, OrderedMoves
<1>4. ASSUME M!Plan(i) PROVE Ordered'
  <2>1. recorded \subseteq objects /\ faults \in 0 .. MaxFaults
    BY DEF Ordered, Recording, M!RecordedExists
  <2>2. M!Planned(i, M!Pending(ps, recorded)) /\ UNCHANGED <<mode, objects, recorded, files, faults, misplaced>>
    BY <1>4 DEF M!Plan
  <2>3. /\ M!Pending(ps, recorded) \subseteq 1 .. Len(R)
        /\ \A j \in 1 .. Len(R) : j \in M!Pending(ps, recorded) \/ R[j].name \in objects
    BY <2>1 DEF M!Pending
  <2>. QED  BY <1>3, <2>1, <2>2, <2>3
<1>5. ASSUME M!PlanBlind(i) PROVE Ordered'
  <2>1. faults' \in 0 .. MaxFaults
    BY <1>5 DEF M!PlanBlind, Ordered, M!MigrationsAssumption
  <2>2. M!Planned(i, M!Pending(ps, {})) /\ UNCHANGED <<mode, objects, recorded, files, misplaced>>
    BY <1>5 DEF M!PlanBlind
  <2>3. M!Pending(ps, {}) = 1 .. Len(R)
    BY DEF M!Pending
  <2>. QED  BY <1>3, <2>1, <2>2, <2>3
<1>6. ASSUME M!Fails(i), UNCHANGED <<mode, objects, files, misplaced>>, faults' \in 0 .. MaxFaults PROVE Ordered'
  <2>. DEFINE r == [inst[i] EXCEPT !.pc = "off", !.todo = {}]
  <2>1. /\ r.plugins = ps /\ r.pc = "off" /\ r.todo = {} /\ r.serving = inst[i].serving
        /\ inst' = [inst EXCEPT ![i] = r]
    BY <1>1, <1>6 DEF M!Fails
  <2>. HIDE DEF r
  <2>2. RunOk(r, objects')
    BY <1>1, <2>1 DEF RunOk
  <2>3. objects' \subseteq DOMAIN M!StatementOf
    BY <1>6 DEF Ordered
  <2>. QED  BY <1>6, <2>1, <2>2, <2>3, OrderedMoves
<1>7. ASSUME M!Exec(i) PROVE Ordered'
  <2>1. PICK k \in M!First(i) : inst[i].pc = "exec" /\ M!RunStatement(i, M!NameAt(i, k), M!Conflicts(M!NameAt(i, k)))
    BY <1>7 DEF M!Exec
  <2>. DEFINE n == M!NameAt(i, k)
  <2>2. n \in DOMAIN M!StatementOf /\ M!Missing(n) = FALSE
    BY <2>1, NothingMissing DEF M!Missing
  <2>3. UNCHANGED <<mode, files, faults>> /\ faults' \in 0 .. MaxFaults
    BY <2>1 DEF M!RunStatement, Ordered
  <2>4. misplaced' = misplaced
    BY <2>1, <2>2 DEF M!RunStatement, Ordered
  <2>5. CASE M!Fails(i) /\ UNCHANGED objects
    BY <1>6, <2>3, <2>4, <2>5
  <2>6. CASE objects' = objects \cup {n} /\ inst' = [inst EXCEPT ![i].pc = "record"]
    <3>. DEFINE r == [inst[i] EXCEPT !.pc = "record"]
    <3>1. /\ r.plugins = ps /\ r.pc = "record" /\ r.todo = inst[i].todo /\ r.serving = inst[i].serving
          /\ inst' = [inst EXCEPT ![i] = r]
      BY <1>1, <2>6
    <3>. HIDE DEF r
    <3>2. RunOk(r, objects')
      BY <1>1, <2>1, <2>6, <3>1 DEF RunOk
    <3>3. objects' \subseteq DOMAIN M!StatementOf /\ mode # "catalog" /\ objects \subseteq objects'
      BY <2>1, <2>2, <2>6 DEF Ordered, Recording
    <3>. QED  BY <2>3, <2>4, <3>1, <3>2, <3>3, OrderedMoves
  <2>. QED  BY <2>1, <2>5, <2>6 DEF M!RunStatement
<1>8. ASSUME M!Record(i) PROVE Ordered'
  <2>1. PICK k \in M!First(i) :
          \/ M!Fails(i)
          \/ M!Planned(i, inst[i].todo \ {k})
    BY <1>8 DEF M!Record
  <2>2. inst[i].pc = "record" /\ UNCHANGED <<mode, objects, files, faults, misplaced>> /\ faults' \in 0 .. MaxFaults
    BY <1>8 DEF M!Record, Ordered
  <2>3. R[k].name \in objects
    BY <2>1, <2>2 DEF Ordered, Recording, M!NameAt
  <2>4. /\ inst[i].todo \ {k} \subseteq 1 .. Len(R)
        /\ \A j \in 1 .. Len(R) : j \in inst[i].todo \ {k} \/ R[j].name \in objects
    BY <1>1, <2>2, <2>3 DEF RunOk
  <2>. QED  BY <1>3, <1>6, <2>1, <2>2, <2>4
<1>9. ASSUME M!Crash(i) PROVE Ordered'
  <2>1. faults' \in 0 .. MaxFaults
    BY <1>9 DEF M!Crash, Ordered, M!MigrationsAssumption
  <2>. QED  BY <1>6, <1>9, <2>1 DEF M!Crash
<1>10. ASSUME M!Serve(i) PROVE Ordered'
  <2>. DEFINE r == [inst[i] EXCEPT !.serving = TRUE]
  <2>1. /\ r.plugins = ps /\ r.pc = inst[i].pc /\ r.todo = inst[i].todo /\ r.serving = TRUE
        /\ inst' = [inst EXCEPT ![i] = r]
    BY <1>1, <1>10 DEF M!Serve
  <2>2. UNCHANGED <<mode, objects, recorded, files, faults, misplaced>>
    BY <1>10 DEF M!Serve
  <2>. HIDE DEF r
  <2>3. RunOk(r, objects')
    BY <1>1, <2>1, <2>2 DEF RunOk
  <2>4. faults' \in 0 .. MaxFaults /\ objects' \subseteq DOMAIN M!StatementOf
    BY <2>2 DEF Ordered
  <2>. QED  BY <2>1, <2>2, <2>3, <2>4, OrderedMoves
<1>. QED  BY <1>2, <1>4, <1>5, <1>7, <1>8, <1>9, <1>10 DEF M!Step

\* Files of all plugins: an object is made by one statement of one file.
LEMMA OneFile ==
    ASSUME M!RendererSound, NEW u \in M!AllFiles, NEW n \in M!NamesOf(u.up)
    PROVE  /\ n \in DOMAIN M!StatementOf /\ \E j \in DOMAIN u.up : u.up[j].name = n /\ M!StatementOf[n] = u.up[j]
           /\ \A v \in M!AllFiles : n \in M!NamesOf(v.up) => v = u
<1>1. PICK j \in DOMAIN u.up : u.up[j].name = n
  BY NamesIn
<1>2. n \in DOMAIN M!StatementOf /\ M!StatementOf[n] = u.up[j]
  BY <1>1 DEF M!RendererSound, M!FilesSound
<1>3. ASSUME NEW v \in M!AllFiles, n \in M!NamesOf(v.up) PROVE v = u
  <2>1. PICK k \in DOMAIN v.up : v.up[k].name = n
    BY <1>3, NamesIn
  <2>2. \A x, y \in M!AllFiles : \A a \in DOMAIN x.up, b \in DOMAIN y.up : x.up[a].name = y.up[b].name => x = y
    BY DEF M!RendererSound, M!FilesSound
  <2>. QED  BY <1>1, <2>1, <2>2
<1>. QED  BY <1>1, <1>2, <1>3

\* Files of all plugins: what a statement needs is made in its file or in an earlier one.
LEMMA NeedsMadeBefore ==
    ASSUME M!RendererSound, NEW v \in M!AllFiles, NEW j \in DOMAIN v.up,
           NEW u \in M!AllFiles, NEW n \in M!NamesOf(u.up), n \in v.up[j].needs
    PROVE  u = v \/ M!Before(u.version, v.version)
<1>. DEFINE All == M!ToSet(M!Files(M!AllPlugins))
            Earlier == UNION {M!NamesOf(w.up) : w \in {x \in All : M!Before(x.version, v.version)}}
<1>1. All = M!AllFiles /\ M!RenderSound(M!AllPlugins) /\ M!FilesSound
  BY SchemasOf DEF M!AllFiles, M!RendererSound
<1>2. v.up[j].needs \subseteq Earlier \cup M!Created(v, j - 1)
  BY <1>1 DEF M!RenderSound
<1>3. ASSUME NEW w \in M!AllFiles, n \in M!NamesOf(w.up) PROVE w = u
  BY <1>3, OneFile
<1>4. CASE n \in Earlier
  BY <1>1, <1>3, <1>4
<1>5. CASE n \in M!Created(v, j - 1)
  <2>1. v.up \in Seq(M!ToSet(v.up))
    BY <1>1 DEF M!FilesSound
  <2>2. 1 .. j - 1 \subseteq DOMAIN v.up
    BY <2>1
  <2>3. n \in M!NamesOf(v.up)
    BY <1>5, <2>2, NamesIn DEF M!Created
  <2>. QED  BY <1>3, <2>3
<1>. QED  BY <1>2, <1>4, <1>5

\* The next file of an instance: it runs, and its objects are there.
LEMMA FileRuns ==
    ASSUME M!MigrationsAssumption, M!RendererSound, NEW ps \in Releases, objects = Made(files),
           NEW u \in M!ToSet(M!Schemas[ps].units), u.version \notin files,
           \A v \in M!ToSet(M!Schemas[ps].units) : M!Before(v.version, u.version) => v.version \in files
    PROVE  u \in M!AllFiles /\ M!Ran(u).bad = FALSE /\ M!Ran(u).there = Made(files \cup {u.version})
<1>. DEFINE units == M!ToSet(M!Files(ps))
            Earlier == UNION {M!NamesOf(w.up) : w \in {x \in units : M!Before(x.version, u.version)}}
<1>1. units = M!ToSet(M!Schemas[ps].units) /\ units \subseteq M!AllFiles /\ M!RenderSound(ps) /\ M!FilesSound
  BY SchemasOf, SoundPlugins
<1>2. u \in M!AllFiles
  BY <1>1
<1>3. u.up \in Seq(M!ToSet(u.up))
  BY <1>1, <1>2 DEF M!FilesSound
<1>4. Earlier \subseteq objects
  <2>1. ASSUME NEW w \in units, M!Before(w.version, u.version) PROVE M!NamesOf(w.up) \subseteq objects
    BY <1>1, <2>1 DEF Made, Applied
  <2>. QED  BY <2>1
<1>5. ASSUME NEW k \in DOMAIN u.up PROVE u.up[k].name \notin objects \cup M!Created(u, k - 1)
  <2>1. ASSUME u.up[k].name \in objects PROVE FALSE
    <3>1. PICK v \in Applied(files) : u.up[k].name \in M!NamesOf(v.up)
      BY <2>1 DEF Made
    <3>2. v = u
      BY <1>2, <3>1, OneFile, NamesIn DEF Applied
    <3>. QED  BY <3>1, <3>2 DEF Applied
  <2>2. ASSUME u.up[k].name \in M!Created(u, k - 1) PROVE FALSE
    <3>1. PICK j \in 1 .. k - 1 : u.up[k].name = u.up[j].name
      BY <2>2 DEF M!Created
    <3>2. j \in DOMAIN u.up /\ j # k
      BY <1>3
    <3>. QED  BY <1>1, <1>2, <3>1, <3>2 DEF M!FilesSound
  <2>. QED  BY <2>1, <2>2
<1>6. ASSUME NEW k \in DOMAIN u.up PROVE u.up[k].needs \subseteq objects \cup M!Created(u, k - 1)
  <2>1. u.up[k].needs \subseteq Earlier \cup M!Created(u, k - 1)
    BY <1>1 DEF M!RenderSound
  <2>. QED  BY <1>4, <2>1
<1>7. M!Ran(u).bad = FALSE
  BY <1>5, <1>6 DEF M!Ran
<1>8. M!Created(u, Len(u.up)) = M!NamesOf(u.up)
  BY <1>3, NamesIn DEF M!Created
<1>9. Applied(files \cup {u.version}) = Applied(files) \cup {u}
  BY <1>1, <1>2 DEF Applied, M!FilesSound
<1>10. M!Ran(u).there = Made(files \cup {u.version})
  BY <1>8, <1>9 DEF M!Ran, Made
<1>. QED  BY <1>2, <1>7, <1>10

\* The last file that is applied: it is reverted, and the objects of the others stay.
LEMMA FileReverts ==
    ASSUME M!MigrationsAssumption, M!RendererSound, NEW ps \in Releases, objects = Made(files),
           NEW u \in M!ToSet(M!Schemas[ps].units), u.version \in files,
           \A v \in files : ~M!Before(u.version, v)
    PROVE  M!Reverted(u).bad = FALSE /\ M!Reverted(u).there = Made(files \ {u.version})
<1>1. M!FilesSound /\ u \in M!AllFiles /\ u \in Applied(files)
  BY SchemasOf, SoundPlugins DEF Applied
<1>2. u.down \in Seq(M!ToSet(u.down)) /\ M!NamesOf(u.down) \subseteq M!NamesOf(u.up)
  BY <1>1 DEF M!FilesSound
<1>3. \A o \in objects : \E v \in Applied(files) : \E j \in DOMAIN v.up :
         v.up[j].name = o /\ M!StatementOf[o] = v.up[j]
  BY OneFile DEF Made, Applied
<1>4. ASSUME NEW v \in Applied(files), NEW j \in DOMAIN v.up, NEW k \in DOMAIN u.down, u.down[k].name \in v.up[j].needs
      PROVE  v = u
  <2>1. u.down[k].name \in M!NamesOf(u.up)
    BY <1>2, NamesIn
  <2>2. v \in M!AllFiles /\ v.version \in files
    BY DEF Applied
  <2>. QED  BY <1>1, <1>4, <2>1, <2>2, NeedsMadeBefore
<1>5. ASSUME NEW k \in DOMAIN u.down PROVE {u.down[j].name : j \in 1 .. k - 1} \subseteq M!Dropped(u, k - 1)
  BY DEF M!Dropped
<1>6. ASSUME NEW k \in DOMAIN u.down, u.down[k].kind = "table"
      PROVE  M!Referencing(u.down[k].name, objects \ M!Dropped(u, k - 1)) = {}
  <2>. SUFFICES ASSUME NEW o \in objects \ M!Dropped(u, k - 1), M!StatementOf[o].kind = "table",
                       u.down[k].name \in M!StatementOf[o].needs
                PROVE  FALSE
    BY DEF M!Referencing
  <2>1. PICK v \in Applied(files) : \E j \in DOMAIN v.up : v.up[j].name = o /\ M!StatementOf[o] = v.up[j]
    BY <1>3
  <2>2. PICK j \in DOMAIN v.up : v.up[j].name = o /\ M!StatementOf[o] = v.up[j]
    BY <2>1
  <2>3. v = u
    BY <1>4, <2>2
  <2>4. v.up[j] \in M!ToSet(u.up)
    BY <2>2, <2>3 DEF M!ToSet
  <2>5. v.up[j].name \in {u.down[m].name : m \in 1 .. k - 1}
    BY <1>1, <1>6, <2>2, <2>4 DEF M!FilesSound
  <2>. QED  BY <1>5, <2>2, <2>5
<1>7. ASSUME NEW k \in DOMAIN u.down, u.down[k].kind = "column"
      PROVE  u.down[k].needs \cap (objects \ M!Dropped(u, k - 1)) = {}
  <2>1. u.down[k].needs \subseteq {u.down[m].name : m \in 1 .. k - 1}
    BY <1>1, <1>7 DEF M!FilesSound
  <2>. QED  BY <1>5, <2>1
<1>8. M!Reverted(u).bad = FALSE
  BY <1>6, <1>7 DEF M!Reverted
<1>9. Applied(files \ {u.version}) = Applied(files) \ {u}
  BY <1>1 DEF Applied, M!FilesSound
<1>. DEFINE gone == M!Dropped(u, Len(u.down))
<1>10. DOMAIN u.down = 1 .. Len(u.down)
  BY <1>2
<1>11. ASSUME NEW n \in M!NamesOf(u.up), n \in objects PROVE n \in gone
  <2>1. PICK i \in DOMAIN u.up : u.up[i].name = n /\ M!StatementOf[n] = u.up[i]
    BY <1>1, OneFile
  <2>. DEFINE s == u.up[i]
  <2>4. s \in M!ToSet(u.up)
    BY DEF M!ToSet
  <2>2. CASE n \in M!NamesOf(u.down)
    BY <1>10, <2>2, NamesIn DEF M!Dropped
  <2>3. CASE n \notin M!NamesOf(u.down)
    <3>1. PICK t \in M!ToSet(u.down) : s.kind # "table" /\ t.kind = "table" /\ t.name \in s.needs
      BY <1>1, <2>1, <2>3, <2>4 DEF M!FilesSound
    <3>2. PICK k \in DOMAIN u.down : t = u.down[k]
      BY DEF M!ToSet
    <3>3. n \in M!Inside(u.down[k].name)
      BY <1>11, <2>1, <3>1, <3>2 DEF M!Inside
    <3>. QED  BY <1>10, <3>1, <3>2, <3>3 DEF M!Dropped
  <2>. QED  BY <2>2, <2>3
<1>12. ASSUME NEW v \in Applied(files), v # u, NEW n \in M!NamesOf(v.up) PROVE n \notin gone
  <2>1. n \in objects /\ v \in M!AllFiles
    BY DEF Made, Applied
  <2>2. PICK j \in DOMAIN v.up : v.up[j].name = n /\ M!StatementOf[n] = v.up[j]
    BY <2>1, OneFile
  <2>3. ASSUME NEW k \in DOMAIN u.down, n = u.down[k].name PROVE FALSE
    <3>1. n \in M!NamesOf(u.up)
      BY <1>2, <2>3, NamesIn
    <3>. QED  BY <1>1, <1>12, <2>1, <3>1, OneFile
  <2>4. ASSUME NEW k \in DOMAIN u.down, n \in M!Inside(u.down[k].name) PROVE FALSE
    BY <1>4, <1>12, <2>2, <2>4 DEF M!Inside
  <2>. QED  BY <1>10, <2>3, <2>4 DEF M!Dropped
<1>13. objects \ gone = Made(files \ {u.version})
  <2>1. ASSUME NEW n \in objects \ gone PROVE n \in Made(files \ {u.version})
    BY <1>9, <1>11, <2>1 DEF Made
  <2>2. ASSUME NEW n \in Made(files \ {u.version}) PROVE n \in objects \ gone
    <3>1. PICK v \in Applied(files) \ {u} : n \in M!NamesOf(v.up)
      BY <1>9 DEF Made
    <3>. QED  BY <1>12, <3>1 DEF Made
  <2>. QED  BY <2>1, <2>2
<1>. QED  BY <1>8, <1>13 DEF M!Reverted

\* A file that is applied or reverted leaves whole files, and every instance as it was.
LEMMA FilesOrdered ==
    ASSUME M!MigrationsAssumption, M!RendererSound, Ordered, Recording', NEW i \in Instances, M!Up(i) \/ M!Down(i)
    PROVE  Ordered'
<1>. DEFINE ps == inst[i].plugins
<1>1. mode = "catalog" /\ UNCHANGED <<mode, recorded, inst, faults>>
  BY DEF M!Up, M!Down
<1>2. objects = Made(files) /\ ps \in Releases /\ \A j \in Instances : inst[j].pc = "off"
  BY <1>1 DEF Ordered, RunOk, Recording
<1>3. ASSUME NEW there, NEW end, end.bad = FALSE, end.there = Made(there), M!Applies(end, there),
             there \subseteq {u.version : u \in M!AllFiles}
      PROVE  Ordered'
  <2>1. objects' = Made(there) /\ files' = there
    BY <1>3 DEF M!Applies
  <2>2. misplaced' = FALSE
    BY <1>3 DEF M!Applies, Ordered
  <2>3. Made(there) \subseteq DOMAIN M!StatementOf
    BY NamesIn DEF Made, Applied, M!RendererSound, M!FilesSound
  <2>4. \A j \in Instances : RunOk(inst'[j], objects')
    BY <1>1, <1>2 DEF Ordered, RunOk
  <2>5. faults' \in 0 .. MaxFaults
    BY <1>1 DEF Ordered
  <2>. QED  BY <1>3, <2>1, <2>2, <2>3, <2>4, <2>5 DEF Ordered, Made, Applied
<1>4. CASE M!Up(i)
  <2>1. PICK u \in M!ToSet(M!Schemas[ps].units) :
          /\ u.version \notin files
          /\ \A v \in M!ToSet(M!Schemas[ps].units) : M!Before(v.version, u.version) => v.version \in files
          /\ M!Applies(M!Ran(u), files \cup {u.version})
    BY <1>4 DEF M!Up
  <2>2. u \in M!AllFiles /\ M!Ran(u).bad = FALSE /\ M!Ran(u).there = Made(files \cup {u.version})
    BY <1>2, <2>1, FileRuns
  <2>3. files \cup {u.version} \subseteq {w.version : w \in M!AllFiles}
    BY <2>2 DEF Ordered
  <2>. QED  BY <1>3, <2>1, <2>2, <2>3
<1>5. CASE M!Down(i)
  <2>1. PICK u \in M!ToSet(M!Schemas[ps].units) :
          /\ u.version \in files
          /\ \A v \in files : ~M!Before(u.version, v)
          /\ M!Applies(M!Reverted(u), files \ {u.version})
    BY <1>5 DEF M!Down
  <2>2. M!Reverted(u).bad = FALSE /\ M!Reverted(u).there = Made(files \ {u.version})
    BY <1>2, <2>1, FileReverts
  <2>3. files \ {u.version} \subseteq {w.version : w \in M!AllFiles}
    BY DEF Ordered
  <2>. QED  BY <1>3, <2>1, <2>2, <2>3
<1>. QED  BY <1>4, <1>5

LEMMA OrderedStep ==
    M!MigrationsAssumption /\ M!RendererSound /\ Ordered /\ [M!Next]_(M!vars) => Ordered'
<1>. SUFFICES ASSUME M!MigrationsAssumption, M!RendererSound, Ordered, [M!Next]_(M!vars) PROVE Ordered'
  OBVIOUS
<1>1. Recording'
  BY RecordingStep DEF Ordered
<1>2. CASE UNCHANGED M!vars
  BY <1>1, <1>2 DEF M!vars, Ordered, RunOk, Made, Applied
<1>3. CASE M!Next
  BY <1>1, <1>3, DeployOrdered, FilesOrdered DEF M!Next
<1>. QED  BY <1>2, <1>3

\* Apply and the exported files: however many processes deploy, from whatever older
\* database, each statement finds the tables it names, and no table goes before those
\* that reference it.
THEOREM StatementsInOrder == ASSUME M!MigrationsAssumption, M!RendererSound PROVE M!Spec => []M!InOrder
<1>1. Ordered => M!InOrder
  <2>. SUFFICES ASSUME Ordered PROVE M!InOrder
    OBVIOUS
  <2>1. M!TypeOK
    <3>1. mode \in {"record", "catalog"} /\ objects \subseteq DOMAIN M!StatementOf
          /\ recorded \subseteq DOMAIN M!StatementOf
      BY DEF Ordered, Recording, M!RecordedExists
    <3>2. faults \in 0 .. MaxFaults /\ misplaced \in BOOLEAN
          /\ files \subseteq {u.version : u \in M!ToSet(M!Schemas[M!AllPlugins].units)}
      BY DEF Ordered, M!AllFiles
    <3>3. ASSUME NEW i \in Instances
          PROVE  /\ inst[i].plugins \in Releases /\ inst[i].serving \in BOOLEAN
                 /\ inst[i].pc \in {"off", "plan", "exec", "record", "done"}
                 /\ inst[i].todo \subseteq 1 .. Len(M!Schemas[inst[i].plugins].render)
                 /\ (inst[i].todo # {}) <=> (inst[i].pc \in {"exec", "record"})
      BY DEF Ordered, RunOk
    <3>. QED  BY <3>1, <3>2, <3>3 DEF M!TypeOK
  <2>2. ~misplaced
    BY DEF Ordered
  <2>. QED  BY <2>1, <2>2 DEF M!InOrder
<1>2. (M!Init => Ordered) /\ (Ordered /\ [M!Next]_(M!vars) => Ordered')
  BY InitOrdered, OrderedStep
<1>. QED  BY <1>1, <1>2, PTL DEF M!Spec

\* CheckSchema: what it asks for stands for the schema of the instance, whole.
LEMMA CheckedIsComplete ==
    ASSUME M!MigrationsAssumption, M!RendererSound, Ordered, NEW ps \in Releases, M!CheckSchema(ps)
    PROVE  M!Schemas[ps].objects \subseteq objects
<1>1. /\ M!RenderSound(ps) /\ M!FilesSound /\ M!ToSet(M!Files(ps)) \subseteq M!AllFiles
      /\ M!Schemas[ps].render = M!Render(M!Files(ps)) /\ M!Schemas[ps].catalog = M!CatalogOf(ps)
      /\ M!Schemas[ps].objects = M!ObjectsOf(ps)
  BY SchemasOf, SoundPlugins
<1>2. CASE mode = "record"
  <2>. DEFINE R == M!Schemas[ps].render
  <2>1. \A k \in 1 .. Len(R) : R[k].name \in objects
    BY <1>2 DEF M!CheckSchema, M!Pending, Ordered, Recording, M!RecordedExists
  <2>2. M!ObjectsOf(ps) \subseteq {R[k].name : k \in 1 .. Len(R)}
    BY <1>1 DEF M!RenderSound
  <2>. QED  BY <1>1, <2>1, <2>2
<1>3. CASE mode = "catalog"
  <2>1. M!CatalogOf(ps) \subseteq Made(files) /\ objects = Made(files)
    BY <1>1, <1>3 DEF M!CheckSchema, Ordered
  <2>2. ASSUME NEW n \in M!ObjectsOf(ps) PROVE n \in Made(files)
    <3>1. PICK u \in M!ToSet(M!Files(ps)) : n \in M!NamesOf(u.up) /\ M!NamesOf(u.up) \cap M!CatalogOf(ps) # {}
      BY <1>1 DEF M!RenderSound
    <3>2. PICK c \in M!NamesOf(u.up) : c \in M!CatalogOf(ps)
      BY <3>1
    <3>3. PICK v \in Applied(files) : c \in M!NamesOf(v.up)
      BY <2>1, <3>2 DEF Made
    <3>4. v = u
      BY <1>1, <3>2, <3>3, OneFile DEF Applied
    <3>. QED  BY <3>1, <3>3, <3>4 DEF Made
  <2>. QED  BY <1>1, <2>1, <2>2
<1>. QED  BY <1>2, <1>3 DEF Ordered, Recording

\* CheckSchema at startup: an instance that starts to serve has every table, column and
\* index of its effective schema, whichever way it checks and whoever deploys.
THEOREM ServesCompleteSchema == ASSUME M!MigrationsAssumption, M!RendererSound PROVE M!Spec => M!ServesComplete
<1>1. ASSUME Ordered, [M!Next]_(M!vars), NEW i \in Instances,
             inst'[i].serving, ~inst[i].serving
      PROVE  M!Schemas[inst[i].plugins].objects \subseteq objects
  <2>1. PICK j \in Instances : M!Serve(j)
    <3>1. ASSUME NEW j \in Instances, NEW r, r.serving = inst[j].serving, inst' = [inst EXCEPT ![j] = r]
          PROVE  FALSE
      BY <1>1, <3>1 DEF Ordered, Recording
    <3>2. \A j \in Instances : DOMAIN inst[j] = {"plugins", "pc", "todo", "serving"}
      BY <1>1 DEF Ordered, Recording
    <3>3. ASSUME NEW j \in Instances, M!Begin(j) PROVE FALSE
      <4>1. [inst[j] EXCEPT !.pc = "plan"].serving = inst[j].serving
        BY <3>2
      <4>. QED  BY <3>1, <3>3, <4>1 DEF M!Begin
    <3>4. ASSUME NEW j \in Instances, NEW p, NEW t, inst' = [inst EXCEPT ![j].pc = p, ![j].todo = t] PROVE FALSE
      <4>. DEFINE r == [inst[j] EXCEPT !.pc = p, !.todo = t]
      <4>1. r.serving = inst[j].serving /\ inst' = [inst EXCEPT ![j] = r]
        BY <3>2, <3>4
      <4>. HIDE DEF r
      <4>. QED  BY <3>1, <4>1
    <3>5. ASSUME NEW j \in Instances, M!Plan(j) \/ M!PlanBlind(j) \/ M!Record(j) \/ M!Crash(j) PROVE FALSE
      BY <3>4, <3>5 DEF M!Plan, M!PlanBlind, M!Record, M!Crash, M!Planned, M!Fails
    <3>6. ASSUME NEW j \in Instances, M!Exec(j) PROVE FALSE
      <4>1. [inst[j] EXCEPT !.pc = "record"].serving = inst[j].serving
        BY <3>2
      <4>2. CASE inst' = [inst EXCEPT ![j].pc = "record"]
        BY <3>1, <4>1, <4>2
      <4>. QED  BY <3>4, <3>6, <4>2 DEF M!Exec, M!RunStatement, M!Fails
    <3>7. inst' # inst
      BY <1>1
    <3>. QED  BY <1>1, <3>3, <3>5, <3>6, <3>7 DEF M!Next, M!Step, M!Up, M!Down, M!vars
  <2>2. j = i
    BY <1>1, <2>1 DEF M!Serve, Ordered, Recording
  <2>3. inst[i].plugins \in Releases /\ M!CheckSchema(inst[i].plugins)
    BY <1>1, <2>1, <2>2 DEF M!Serve, Ordered, RunOk
  <2>. QED  BY <1>1, <2>3, CheckedIsComplete
<1>2. Ordered /\ [M!Next]_(M!vars) =>
        [\A i \in Instances :
            inst'[i].serving /\ ~inst[i].serving => M!Schemas[inst[i].plugins].objects \subseteq objects]_(M!vars)
  <2>. SUFFICES ASSUME Ordered, [M!Next]_(M!vars)
                PROVE  \A i \in Instances :
                         inst'[i].serving /\ ~inst[i].serving => M!Schemas[inst[i].plugins].objects \subseteq objects
    OBVIOUS
  <2>. SUFFICES ASSUME NEW i \in Instances, inst'[i].serving, ~inst[i].serving
                PROVE  M!Schemas[inst[i].plugins].objects \subseteq objects
    OBVIOUS
  <2>. QED  BY <1>1
<1>3. (M!Init => Ordered) /\ (Ordered /\ [M!Next]_(M!vars) => Ordered')
  BY InitOrdered, OrderedStep
<1>. QED  BY <1>2, <1>3, PTL DEF M!Spec, M!ServesComplete
=============================================================================
