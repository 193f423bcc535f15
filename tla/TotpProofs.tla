----------------------------- MODULE TotpProofs -----------------------------
(***************************************************************************)
(* For any number of secrets, challenges, sessions, requests and recovery  *)
(* codes: every proof of the second factor counts once, a password alone   *)
(* opens no session while an enrolment is confirmed, and a confirmation    *)
(* ends the sessions from before it.                                       *)
(***************************************************************************)
EXTENDS Totp, FiniteSetTheorems, TLAPS

Active(l) == l.pc \notin {"idle", "done"}

\* What an endpoint carries at each of its statements.
Carries(l) ==
    /\ l.pc \in {"mfa", "issue", "token"} => l.op = "signin"
    /\ l.pc \in {"read", "validate", "advance"} =>
          l.op \in {"verify", "confirm", "disable", "regenerate"} /\ l.code \in Codes
    /\ l.pc = "spend" => l.op = "recovery" /\ l.code \in RecoveryCodes
    /\ l.pc = "session" => l.op \in {"signin", "verify", "recovery"}
    /\ l.pc \in {"upsert", "insert"} => l.op = "enrol"
    /\ l.pc \in {"delete", "purge"} => l.op \in {"disable", "recovery"}

\* last_step is the newest accepted step of the secret in the row, and a secret
\* whose codes were never accepted is not among the proven ones.
StepKept ==
    \A p \in Codes :
        /\ accepted[p] > 0 => p.secret \in proven
        /\ p.secret = row.secret => accepted[p] <= IF p.step <= row.lastStep THEN 1 ELSE 0

\* A recovery code in the table was not accepted, nor one of a set to come.
SetKept ==
    \A p \in RecoveryCodes :
        /\ accepted[p] <= 1
        /\ p \in codes => accepted[p] = 0 /\ p.set <= sets
        /\ p.set > sets => accepted[p] = 0

\* A challenge has one holder, a request or the session that it became, and none
\* before it is consumed.
OneHolder ==
    /\ \A q \in Requests : Active(req[q]) /\ req[q].chal # "none" =>
          /\ chal[req[q].chal] \notin {"unborn", "live"}
          /\ \A o \in Requests : Active(req[o]) /\ req[o].chal = req[q].chal => o = q
          /\ \A s \in Sessions : sess[s].chal # req[q].chal
    /\ \A s \in Sessions : sess[s].chal # "none" =>
          /\ chal[sess[s].chal] \notin {"unborn", "live"}
          /\ \A t \in Sessions : sess[t].chal = sess[s].chal => t = s

\* A sign-in that found no confirmed enrolment is from before the latest
\* confirmation, if the enrolment is confirmed now.
Before(checked) == checked <= confirms /\ (row.confirmed => checked < confirms)

Predates ==
    /\ \A q \in Requests : req[q].pc = "session" /\ req[q].op = "signin" => Before(req[q].checked)
    /\ \A s \in Sessions : sess[s].st = "live" /\ sess[s].method = "password" => Before(sess[s].checked)

\* What is left of the sessions from before a confirmation that revokes them: its
\* own, and those on its list, unless a failure was logged.
Left(l) ==
    (l.pc = "revoke" \/ (l.pc = "done" /\ l.ok /\ l.op = "confirm")) /\ ~l.logged =>
        \A s \in Sessions : sess[s].st = "live" =>
            sess[s].born >= l.era \/ s = l.keep \/ (l.pc = "revoke" /\ s \in l.todo)

Revokes == \A q \in Requests : req[q].era <= confirms /\ Left(req[q])

Tables ==
    /\ mix \in Mixes /\ clock \in TimeSteps
    /\ row \in Row
    /\ codes \subseteq RecoveryCodes /\ sets \in 0..MaxSet
    /\ chal \in [Challenges -> {"unborn", "live", "consumed", "gone"}]
    /\ sess \in [Sessions -> SessRow]
    /\ accepted \in [Codes \cup RecoveryCodes -> Nat]
    /\ proven \subseteq Secrets /\ confirms \in Nat

\* The tables of the proofs, and the requests.
Inv ==
    /\ Tables /\ StepKept /\ SetKept
    /\ req \in [Requests -> Local] /\ (\A q \in Requests : Carries(req[q]))
    /\ OneHolder /\ Predates /\ Revokes

-----------------------------------------------------------------------------
(* Requests.                                                               *)

LEMMA TypeInv == Tables /\ req \in [Requests -> Local] <=> TypeOK
BY DEF Tables, TypeOK

LEMMA FreshCall ==
    ASSUME NEW op \in AllOps, NEW pc \in Steps
    PROVE  /\ Fresh(op, pc) \in Local
           /\ Fresh(op, pc).op = op /\ Fresh(op, pc).pc = pc /\ Fresh(op, pc).era = 0 /\ Fresh(op, pc).chal = "none"
           /\ ~Fresh(op, pc).ok
BY DEF Fresh, Local

\* The handler answers.
LEMMA ReturnMoves ==
    ASSUME req \in [Requests -> Local], NEW q \in Requests, NEW ok \in BOOLEAN, Return(q, ok)
    PROVE  \E m \in Local :
              /\ req' = [req EXCEPT ![q] = m]
              /\ m.pc = "done" /\ m.chal = "none" /\ (m.era = 0 \/ m.era = req[q].era)
              /\ m.ok => ok /\ req[q].op = "confirm" /\ m.keep = req[q].keep /\ m.era = req[q].era
                       /\ m.logged = req[q].logged
<1>1. req[q] \in Local /\ "done" \in Steps /\ "confirm" \in AllOps /\ "signin" \in AllOps
  BY DEF Steps, AllOps
<1>2. CASE ok /\ req[q].op = "confirm"
  <2>. DEFINE f == Fresh("confirm", "done")
              m == [f EXCEPT !.ok = TRUE, !.keep = req[q].keep, !.era = req[q].era, !.logged = req[q].logged]
  <2>1. f \in Local /\ f.pc = "done" /\ f.chal = "none"
    <3>1. "done" \in Steps /\ "confirm" \in AllOps
      BY <1>1
    <3>. QED  BY <3>1, FreshCall
  <2>2. req' = [req EXCEPT ![q] = m]
    BY <1>2 DEF Return
  <2>. HIDE DEF f
  <2>3. req[q].keep \in Sessions \cup {"none"} /\ req[q].era \in Nat /\ req[q].logged \in BOOLEAN
    BY <1>1 DEF Local
  <2>4. /\ m \in Local /\ m.pc = "done" /\ m.chal = "none"
        /\ m.era = req[q].era /\ m.keep = req[q].keep /\ m.logged = req[q].logged
    BY <2>1, <2>3 DEF Local
  <2>. HIDE DEF m
  <2>. QED  BY <1>2, <2>2, <2>4
<1>3. CASE ~(ok /\ req[q].op = "confirm")
  <2>1. req' = [req EXCEPT ![q] = Fresh("signin", "done")]
    BY <1>3 DEF Return
  <2>. QED  BY <1>1, <2>1, FreshCall
<1>. QED  BY <1>2, <1>3

LEMMA CodesDiffer == ASSUME NEW p \in Codes, NEW r \in RecoveryCodes PROVE p # r
<1>1. DOMAIN p = {"secret", "step"} /\ DOMAIN r = {"set", "index"}
  BY DEF Codes, RecoveryCodes
<1>. QED  BY <1>1

-----------------------------------------------------------------------------
(* The parts of the invariant.                                             *)

\* A step of request q that leaves it in the local state m.
Moves(q, m) ==
    /\ m \in Local /\ req' = [req EXCEPT ![q] = m] /\ Carries(m)
    /\ confirms' \in Nat /\ confirms' >= confirms /\ m.era <= confirms'

LEMMA MoveKeeps ==
    ASSUME Inv, NEW q \in Requests, NEW m, Moves(q, m)
    PROVE  req' \in [Requests -> Local] /\ (\A p \in Requests : Carries(req'[p])) /\ (\A p \in Requests : req'[p].era <= confirms')
<1>1. \A p \in Requests : req'[p] = IF p = q THEN m ELSE req[p]
  BY DEF Inv, Moves
<1>2. \A p \in Requests : req[p].era <= confirms'
  BY DEF Inv, Moves, Revokes, Tables, Local
<1>. QED  BY <1>1, <1>2 DEF Inv, Moves

LEMMA HolderKeeps ==
    ASSUME Inv, NEW q \in Requests, NEW m, Moves(q, m),
           Active(m) /\ m.chal # "none" => Active(req[q]) /\ m.chal = req[q].chal,
           \A c \in Challenges : chal[c] \notin {"unborn", "live"} => chal'[c] \notin {"unborn", "live"},
           \A s \in Sessions : sess'[s].chal = sess[s].chal
    PROVE  OneHolder'
<1>1. \A p \in Requests : req'[p] = IF p = q THEN m ELSE req[p]
  BY DEF Inv, Moves
<1>2. \A p \in Requests : Active(req'[p]) /\ req'[p].chal # "none" => Active(req[p]) /\ req'[p].chal = req[p].chal
  BY <1>1
<1>3. (\A p \in Requests : req[p].chal \in Challenges \cup {"none"}) /\ (\A s \in Sessions : sess[s].chal \in Challenges \cup {"none"})
  BY DEF Inv, Tables, Local, SessRow
<1>. QED  BY <1>2, <1>3 DEF Inv, OneHolder

LEMMA PredatesKeeps ==
    ASSUME Inv, NEW q \in Requests, NEW m, Moves(q, m),
           row'.confirmed => row.confirmed \/ confirms' > confirms,
           m.pc = "session" /\ m.op = "signin" => Before(m.checked)',
           \A s \in Sessions : sess'[s].st = "live" => sess'[s] = sess[s]
    PROVE  Predates'
<1>1. \A p \in Requests : req'[p] = IF p = q THEN m ELSE req[p]
  BY DEF Inv, Moves
<1>2. confirms \in Nat /\ confirms' \in Nat /\ confirms' >= confirms
  BY DEF Inv, Tables, Moves
<1>3. ASSUME NEW n \in Nat, Before(n) PROVE Before(n)'
  BY <1>2, <1>3 DEF Before
<1>4. (\A p \in Requests : req[p].checked \in Nat) /\ (\A s \in Sessions : sess[s].checked \in Nat)
  BY DEF Inv, Tables, Local, SessRow
<1>5. ASSUME NEW p \in Requests, req'[p].pc = "session", req'[p].op = "signin" PROVE Before(req[p].checked)'
  <2>1. PICK n : n = req'[p].checked
    OBVIOUS
  <2>2. Before(n)'
    BY <1>1, <1>3, <1>4, <1>5, <2>1 DEF Inv, Predates
  <2>. QED  BY <2>1, <2>2 DEF Before
<1>6. ASSUME NEW s \in Sessions, sess'[s].st = "live", sess'[s].method = "password" PROVE Before(sess[s].checked)'
  <2>1. PICK n : n = sess'[s].checked
    OBVIOUS
  <2>2. Before(n)'
    BY <1>3, <1>4, <1>6, <2>1 DEF Inv, Predates
  <2>. QED  BY <2>1, <2>2 DEF Before
<1>. QED  BY <1>5, <1>6 DEF Predates

LEMMA RevokesKeeps ==
    ASSUME Inv, NEW q \in Requests, NEW m, Moves(q, m), Left(m)',
           \A s \in Sessions : sess'[s].st = "live" => sess'[s] = sess[s] \/ sess'[s].born = confirms'
    PROVE  Revokes'
<1>1. \A p \in Requests : req'[p] = IF p = q THEN m ELSE req[p]
  BY DEF Inv, Moves
<1>2. \A p \in Requests : req'[p].era <= confirms'
  BY MoveKeeps
<1>3. ASSUME NEW p \in Requests PROVE Left(req[p])'
  <2>1. CASE p = q
    BY <1>1, <2>1 DEF Left
  <2>2. CASE p # q
    BY <1>1, <1>2, <2>2 DEF Left, Inv, Revokes
  <2>. QED  BY <2>1, <2>2
<1>. QED  BY <1>2, <1>3 DEF Revokes

\* Statements that write nothing but their own request.
Quiet == UNCHANGED <<mix, clock, row, codes, sets, chal, sess, accepted, proven, confirms>>

LEMMA QuietTables ==
    ASSUME Inv, Quiet
    PROVE  Tables' /\ StepKept' /\ SetKept' /\ confirms' = confirms /\ confirms \in Nat
<1>1. Tables'
  BY DEF Inv, Quiet, Tables
<1>2. StepKept' /\ SetKept'
  BY DEF Inv, Quiet, StepKept, SetKept
<1>. QED  BY <1>1, <1>2 DEF Inv, Quiet, Tables

LEMMA QuietKeeps ==
    ASSUME Inv, Quiet, NEW q \in Requests, NEW m \in Local, req' = [req EXCEPT ![q] = m],
           Carries(m), m.era <= confirms, Left(m),
           Active(m) /\ m.chal # "none" => Active(req[q]) /\ m.chal = req[q].chal,
           m.pc = "session" /\ m.op = "signin" => Before(m.checked)
    PROVE  Inv'
<1>1. Moves(q, m)
  BY QuietTables DEF Moves
<1>2. OneHolder'
  BY <1>1, HolderKeeps DEF Quiet
<1>3. Predates'
  <2>1. m.pc = "session" /\ m.op = "signin" => Before(m.checked)'
    BY DEF Before, Quiet
  <2>. QED  BY <1>1, <2>1, PredatesKeeps DEF Quiet
<1>4. Revokes'
  <2>1. Left(m)'
    BY DEF Left, Quiet
  <2>. QED  BY <1>1, <2>1, RevokesKeeps DEF Quiet
<1>. QED  BY <1>1, <1>2, <1>3, <1>4, QuietTables, MoveKeeps DEF Inv

\* An answer with an error.
LEMMA RefuseKeeps == ASSUME Inv, Quiet, NEW q \in Requests, Return(q, FALSE) PROVE Inv'
<1>1. req \in [Requests -> Local] /\ req[q].era <= confirms /\ confirms \in Nat
  BY DEF Inv, Revokes, Tables
<1>2. PICK m \in Local :
        /\ req' = [req EXCEPT ![q] = m]
        /\ m.pc = "done" /\ (m.era = 0 \/ m.era = req[q].era) /\ ~m.ok
  BY <1>1, ReturnMoves
<1>3. Carries(m) /\ m.era <= confirms /\ Left(m) /\ ~Active(m)
  BY <1>1, <1>2 DEF Carries, Left, Active
<1>. QED  BY <1>2, <1>3, QuietKeeps

\* A statement that reads and goes on to the next one.
LEMMA GoKeeps ==
    ASSUME Inv, Quiet, NEW q \in Requests, NEW m \in Local, req' = [req EXCEPT ![q] = m], Active(req[q]),
           m.op = req[q].op, m.chal = req[q].chal, m.era = req[q].era, m.pc \notin {"revoke", "done", "session"}, Carries(m)
    PROVE  Inv'
<1>1. m.era <= confirms
  BY DEF Inv, Revokes
<1>2. Left(m)
  BY DEF Left
<1>. QED  BY <1>1, <1>2, QuietKeeps

\* The first statement of an endpoint.
LEMMA StartKeeps ==
    ASSUME Inv, Quiet, NEW q \in Requests, NEW m \in Local, req' = [req EXCEPT ![q] = m], m.era = 0, m.chal = "none",
           m.pc \notin {"revoke", "done", "session"}, Carries(m)
    PROVE  Inv'
<1>1. m.era <= confirms
  BY DEF Inv, Tables
<1>2. Left(m)
  BY DEF Left
<1>. QED  BY <1>1, <1>2, QuietKeeps

-----------------------------------------------------------------------------
(* Time and the end of a request.                                          *)

LEMMA TimeKeeps ==
    ASSUME Inv, mix' = mix, Tick \/ UNCHANGED vars \/ \E c \in Challenges : ExpireChallenge(c)
    PROVE  Inv'
<1>1. /\ UNCHANGED <<mix, row, codes, sets, sess, req, accepted, proven, confirms>>
      /\ clock' \in TimeSteps
      /\ chal' \in [Challenges -> {"unborn", "live", "consumed", "gone"}]
      /\ \A c \in Challenges : chal[c] \notin {"unborn", "live"} => chal'[c] \notin {"unborn", "live"}
  <2>1. CASE Tick
    <3>1. mix.last \in 1 .. MaxStep
      BY TotpAssumption DEF Inv, Tables
    <3>. QED  BY <2>1, <3>1, TotpAssumption DEF Tick, ghosts, Inv, Tables, TimeSteps
  <2>2. CASE UNCHANGED vars
    BY <2>2 DEF vars, Inv, Tables
  <2>3. ASSUME NEW c \in Challenges, ExpireChallenge(c) PROVE <1>1
    BY <2>3 DEF ExpireChallenge, ghosts, Inv, Tables
  <2>. QED  BY <2>1, <2>2, <2>3
<1>2. Tables'
  BY <1>1 DEF Inv, Tables
<1>3. StepKept' /\ SetKept'
  BY <1>1 DEF Inv, StepKept, SetKept
<1>4. (\A p \in Requests : req[p].chal \in Challenges \cup {"none"}) /\ (\A s \in Sessions : sess[s].chal \in Challenges \cup {"none"})
  BY DEF Inv, Tables, Local, SessRow
<1>5. OneHolder'
  BY <1>1, <1>4 DEF Inv, OneHolder
<1>6. Predates' /\ Revokes'
  BY <1>1 DEF Inv, Predates, Revokes, Before, Left
<1>. QED  BY <1>1, <1>2, <1>3, <1>5, <1>6 DEF Inv

LEMMA AbortKeeps == ASSUME Inv, mix' = mix, NEW q \in Requests, Abort(q) PROVE Inv'
BY RefuseKeeps DEF Abort, Quiet, ghosts

-----------------------------------------------------------------------------
(* First factor.                                                           *)

LEMMA SignInKeeps == ASSUME Inv, mix' = mix, NEW q \in Requests, SignInStart(q) PROVE Inv'
<1>1. "mfa" \in Steps /\ "signin" \in AllOps
  BY DEF Steps, AllOps
<1>2. PICK m \in Local :
        req' = [req EXCEPT ![q] = m] /\ m.pc = "mfa" /\ m.op = "signin" /\ m.era = 0 /\ m.chal = "none"
  <2>1. req' = [req EXCEPT ![q] = Fresh("signin", "mfa")]
    BY DEF SignInStart
  <2>. DEFINE m == Fresh("signin", "mfa")
  <2>2. m \in Local /\ m.pc = "mfa" /\ m.op = "signin" /\ m.era = 0 /\ m.chal = "none"
    BY <1>1, FreshCall
  <2>. HIDE DEF m
  <2>. QED  BY <2>1, <2>2 DEF m
<1>3. Quiet /\ Carries(m)
  BY <1>2 DEF SignInStart, Quiet, ghosts, Carries
<1>. QED  BY <1>2, <1>3, StartKeeps

\* totpConfirmed: what the sign-in reads decides whether it needs a challenge.
LEMMA TotpConfirmedKeeps == ASSUME Inv, mix' = mix, NEW q \in Requests, TotpConfirmed(q) PROVE Inv'
<1>. DEFINE pc == IF row.confirmed THEN "issue" ELSE "session"
            m == [req[q] EXCEPT !.pc = pc, !.checked = confirms]
<1>1. req[q] \in Local /\ req[q].pc = "mfa" /\ req[q].op = "signin" /\ confirms \in Nat /\ req[q].era <= confirms
  BY DEF TotpConfirmed, Inv, Carries, Tables, Revokes
<1>2. pc \in Steps
  BY DEF Steps
<1>3. req' = [req EXCEPT ![q] = m]
  BY DEF TotpConfirmed
<1>4. pc \in {"issue", "session"} /\ (pc = "session" => ~row.confirmed)
  OBVIOUS
<1>. HIDE DEF pc
<1>5. /\ m \in Local /\ m.pc = pc /\ m.op = "signin" /\ m.chal = req[q].chal /\ m.era = req[q].era
      /\ m.checked = confirms
  BY <1>1, <1>2 DEF Local
<1>. HIDE DEF m
<1>6. Carries(m) /\ Left(m) /\ (m.pc = "session" => Before(m.checked))
  BY <1>1, <1>4, <1>5 DEF Carries, Left, Before
<1>7. Quiet /\ Active(req[q])
  BY <1>1 DEF TotpConfirmed, Quiet, ghosts, Active
<1>. QED  BY <1>1, <1>3, <1>5, <1>6, <1>7, QuietKeeps

LEMMA IssueDeleteKeeps == ASSUME Inv, mix' = mix, NEW q \in Requests, IssueDelete(q) PROVE Inv'
<1>. DEFINE m == [req[q] EXCEPT !.pc = "token", !.drop = Pending]
<1>1. req[q] \in Local /\ req[q].pc = "issue" /\ req[q].op = "signin"
  BY DEF IssueDelete, Inv, Carries
<1>2. Pending \in SUBSET (Challenges \cup RecoveryCodes) /\ "token" \in Steps
  BY DEF Pending, Steps
<1>3. req' = [req EXCEPT ![q] = m]
  BY DEF IssueDelete
<1>4. m \in Local /\ m.pc = "token" /\ m.op = "signin" /\ m.chal = req[q].chal /\ m.era = req[q].era
  BY <1>1, <1>2 DEF Local
<1>. HIDE DEF m
<1>5. Carries(m) /\ Quiet /\ Active(req[q])
  BY <1>1, <1>4 DEF Carries, IssueDelete, Quiet, ghosts, Active
<1>. QED  BY <1>1, <1>3, <1>4, <1>5, GoKeeps

\* issueToken: the challenges of the snapshot end, and the new one has no holder.
LEMMA IssueTokenKeeps ==
    ASSUME Inv, mix' = mix, NEW q \in Requests, NEW c \in Challenges, IssueToken(q, c) PROVE Inv'
<1>1. /\ req[q].pc = "token" /\ req[q].op = "signin" /\ req[q].era <= confirms /\ confirms \in Nat
      /\ req \in [Requests -> Local] /\ Return(q, TRUE)
      /\ UNCHANGED <<clock, row, codes, sets, sess, accepted, proven, confirms>>
  BY DEF IssueToken, ghosts, Inv, Carries, Revokes, Tables
<1>2. PICK m \in Local :
        /\ req' = [req EXCEPT ![q] = m]
        /\ m.pc = "done" /\ (m.era = 0 \/ m.era = req[q].era) /\ ~m.ok
  BY <1>1, ReturnMoves
<1>3. Moves(q, m) /\ ~Active(m)
  BY <1>1, <1>2 DEF Moves, Carries, Active
<1>4. /\ chal' \in [Challenges -> {"unborn", "live", "consumed", "gone"}]
      /\ \A x \in Challenges : chal[x] \notin {"unborn", "live"} => chal'[x] \notin {"unborn", "live"}
  BY DEF IssueToken, Pending, Inv, Tables
<1>5. Tables' /\ StepKept' /\ SetKept'
  BY <1>1, <1>4 DEF Inv, Tables, StepKept, SetKept
<1>6. OneHolder'
  BY <1>1, <1>3, <1>4, HolderKeeps
<1>7. Predates' /\ Revokes'
  <2>1. Left(m)'
    BY <1>2 DEF Left
  <2>. QED  BY <1>1, <1>2, <1>3, <2>1, PredatesKeeps, RevokesKeeps
<1>. QED  BY <1>3, <1>5, <1>6, <1>7, MoveKeeps DEF Inv

\* createSession: the session takes the challenge from the request.  A password
\* session is from before the latest confirmation, as its sign-in was.
LEMMA CreateSessionKeeps ==
    ASSUME Inv, mix' = mix, NEW q \in Requests, NEW s \in Sessions, NEW carried \in SUBSET Sessions,
           CreateSession(q, s, carried)
    PROVE  Inv'
<1>1. PICK l \in Local : l = req[q]
  BY DEF Inv
<1>2. /\ l.pc = "session" /\ l.op \in {"signin", "verify", "recovery"} /\ l.era <= confirms /\ confirms \in Nat
      /\ req \in [Requests -> Local] /\ Return(q, TRUE)
      /\ UNCHANGED <<clock, row, codes, sets, chal, accepted, proven, confirms>>
  BY <1>1 DEF CreateSession, ghosts, Inv, Carries, Revokes, Tables
<1>3. PICK m \in Local :
        /\ req' = [req EXCEPT ![q] = m]
        /\ m.pc = "done" /\ (m.era = 0 \/ m.era = req[q].era) /\ ~m.ok
  BY <1>1, <1>2, ReturnMoves
<1>4. Moves(q, m) /\ ~Active(m)
  BY <1>1, <1>2, <1>3 DEF Moves, Carries, Active
<1>. DEFINE method == CASE l.op = "signin" -> "password" [] l.op = "verify" -> "totp" [] l.op = "recovery" -> "recovery"
            new == [st |-> "live", chal |-> l.chal, checked |-> l.checked, born |-> confirms, method |-> method]
<1>5. method \in {"password", "totp", "recovery"} /\ (method = "password" => l.op = "signin")
  BY <1>2
<1>6. sess' = [x \in Sessions |-> IF x = s THEN new
                                 ELSE IF x \in carried \cap Live THEN [sess[x] EXCEPT !.st = "gone"] ELSE sess[x]]
  BY <1>1 DEF CreateSession
<1>. HIDE DEF method
<1>7. new \in SessRow /\ new.chal = l.chal /\ new.checked = l.checked /\ new.born = confirms /\ new.method = method
  BY <1>2, <1>5 DEF Local, SessRow
<1>. HIDE DEF new
<1>8. ASSUME NEW x \in Sessions \ {s}
      PROVE  /\ sess'[x] \in SessRow /\ sess'[x].chal = sess[x].chal
             /\ sess'[x].st = "live" => sess'[x] = sess[x]
  <2>1. sess[x] \in SessRow
    BY DEF Inv, Tables
  <2>2. CASE x \in carried \cap Live
    <3>1. sess'[x] = [sess[x] EXCEPT !.st = "gone"]
      BY <1>6, <2>2
    <3>. QED  BY <2>1, <3>1 DEF SessRow
  <2>3. CASE x \notin carried \cap Live
    BY <1>6, <2>1, <2>3
  <2>. QED  BY <2>2, <2>3
<1>9. sess'[s] = new
  BY <1>6
<1>10. Tables' /\ StepKept' /\ SetKept'
  <2>1. sess' \in [Sessions -> SessRow]
    BY <1>6, <1>7, <1>8, <1>9
  <2>. QED  BY <1>2, <2>1 DEF Inv, Tables, StepKept, SetKept
<1>11. OneHolder'
  <2>1. \A p \in Requests : req'[p] = IF p = q THEN m ELSE req[p]
    BY <1>2, <1>3
  <2>2. \A x \in Sessions : sess'[x].chal = IF x = s THEN l.chal ELSE sess[x].chal
    BY <1>7, <1>8, <1>9
  <2>3. l.chal # "none" =>
          /\ chal[l.chal] \notin {"unborn", "live"}
          /\ \A o \in Requests : Active(req[o]) /\ req[o].chal = l.chal => o = q
          /\ \A x \in Sessions : sess[x].chal # l.chal
    BY <1>1, <1>2 DEF Inv, OneHolder, Active
  <2>. HIDE DEF new, method
  <2>4. ASSUME NEW p \in Requests, Active(req'[p]), req'[p].chal # "none"
        PROVE  /\ chal[req'[p].chal] \notin {"unborn", "live"}
               /\ \A o \in Requests : Active(req'[o]) /\ req'[o].chal = req'[p].chal => o = p
               /\ \A x \in Sessions : sess'[x].chal # req'[p].chal
    <3>1. p # q /\ req'[p] = req[p]
      BY <1>4, <2>1, <2>4
    <3>2. /\ chal[req[p].chal] \notin {"unborn", "live"}
          /\ \A o \in Requests : Active(req[o]) /\ req[o].chal = req[p].chal => o = p
          /\ \A x \in Sessions : sess[x].chal # req[p].chal
      BY <2>4, <3>1 DEF Inv, OneHolder
    <3>3. req[p].chal # l.chal
      BY <2>3, <2>4, <3>1
    <3>. QED  BY <1>4, <2>1, <2>2, <3>1, <3>2, <3>3
  <2>5. ASSUME NEW x \in Sessions, sess'[x].chal # "none"
        PROVE  /\ chal[sess'[x].chal] \notin {"unborn", "live"}
               /\ \A y \in Sessions : sess'[y].chal = sess'[x].chal => y = x
    BY <2>2, <2>3, <2>5 DEF Inv, OneHolder
  <2>. QED  BY <1>2, <2>4, <2>5 DEF OneHolder, Active
<1>12. Predates'
  <2>1. \A p \in Requests : req'[p] = IF p = q THEN m ELSE req[p]
    BY <1>2, <1>3
  <2>2. l.op = "signin" => Before(l.checked)
    BY <1>1, <1>2 DEF Inv, Predates
  <2>3. \A p \in Requests : req'[p].pc = "session" /\ req'[p].op = "signin" => Before(req'[p].checked)
    BY <1>3, <2>1 DEF Inv, Predates
  <2>4. \A x \in Sessions : sess'[x].st = "live" /\ sess'[x].method = "password" => Before(sess'[x].checked)
    BY <1>5, <1>7, <1>8, <1>9, <2>2 DEF Inv, Predates
  <2>. QED  BY <1>2, <2>3, <2>4 DEF Predates, Before
<1>13. Revokes'
  <2>1. Left(m)'
    BY <1>3 DEF Left
  <2>. QED  BY <1>2, <1>4, <1>7, <1>8, <1>9, <2>1, RevokesKeeps
<1>. QED  BY <1>4, <1>10, <1>11, <1>12, <1>13, MoveKeeps DEF Inv

-----------------------------------------------------------------------------
(* Endpoints that begin.                                                   *)

LEMMA OpsKnown == ASSUME Inv PROVE Ops \subseteq AllOps /\ mix.secrets \subseteq Secrets
BY TotpAssumption DEF Inv, Tables, Ops

LEMMA EnrolKeeps ==
    ASSUME Inv, mix' = mix, NEW q \in Requests, NEW s \in Sessions, EnrolStart(q, s) PROVE Inv'
<1>. DEFINE m == Fresh("enrol", "upsert")
<1>1. "upsert" \in Steps /\ "enrol" \in AllOps
  BY DEF Steps, AllOps
<1>2. m \in Local /\ m.pc = "upsert" /\ m.op = "enrol" /\ m.era = 0 /\ m.chal = "none"
  BY <1>1, FreshCall
<1>3. req' = [req EXCEPT ![q] = m]
  BY DEF EnrolStart
<1>. HIDE DEF m
<1>4. Quiet /\ Carries(m)
  BY <1>2 DEF EnrolStart, Quiet, ghosts, Carries
<1>. QED  BY <1>2, <1>3, <1>4, StartKeeps

LEMMA CodeStartKeeps ==
    ASSUME Inv, mix' = mix, NEW q \in Requests, NEW s \in Sessions, NEW op \in Ops, NEW code \in Codes,
           CodeStart(q, op, s, code)
    PROVE  Inv'
<1>. DEFINE f == Fresh(op, "read")
            keep == IF op = "confirm" THEN s ELSE "none"
            m == [f EXCEPT !.code = code, !.keep = keep]
<1>1. "read" \in Steps /\ op \in AllOps /\ op \in {"confirm", "disable", "regenerate"}
  BY OpsKnown DEF Steps, CodeStart
<1>2. f \in Local /\ f.pc = "read" /\ f.op = op /\ f.era = 0 /\ f.chal = "none"
  BY <1>1, FreshCall
<1>3. req' = [req EXCEPT ![q] = m]
  BY DEF CodeStart
<1>4. keep \in Sessions \cup {"none"}
  OBVIOUS
<1>. HIDE DEF f, keep
<1>5. m \in Local /\ m.pc = "read" /\ m.op = op /\ m.era = 0 /\ m.chal = "none" /\ m.code = code
  BY <1>2, <1>4 DEF Local
<1>. HIDE DEF m
<1>6. Quiet /\ Carries(m)
  BY <1>1, <1>5 DEF CodeStart, Quiet, ghosts, Carries
<1>. QED  BY <1>3, <1>5, <1>6, StartKeeps

\* consumeToken: of the requests that carry a challenge, one finds it live.
LEMMA ConsumeKeeps ==
    ASSUME Inv, mix' = mix, NEW q \in Requests, NEW op \in Ops, NEW c \in Challenges, NEW code \in Codes \cup RecoveryCodes,
           ConsumeChallenge(q, op, c, code)
    PROVE  Inv'
<1>. DEFINE pc == IF op = "verify" THEN "read" ELSE "spend"
            f == Fresh(op, pc)
            m == [f EXCEPT !.code = code, !.chal = c]
<1>1. /\ (op = "verify" /\ pc = "read" /\ code \in Codes) \/ (op = "recovery" /\ pc = "spend" /\ code \in RecoveryCodes)
      /\ chal[c] = "live" /\ c # "none" /\ op \in AllOps
      /\ UNCHANGED <<clock, row, codes, sets, sess, accepted, proven, confirms>>
  BY OpsKnown, TotpAssumption DEF ConsumeChallenge, ghosts
<1>2. pc \in Steps
  BY DEF Steps
<1>3. f \in Local /\ f.pc = pc /\ f.op = op /\ f.era = 0
  BY <1>1, <1>2, FreshCall
<1>4. req' = [req EXCEPT ![q] = m]
  BY DEF ConsumeChallenge
<1>. HIDE DEF f, pc
<1>5. m \in Local /\ m.pc = pc /\ m.op = op /\ m.era = 0 /\ m.chal = c /\ m.code = code
  BY <1>3 DEF Local
<1>. HIDE DEF m
<1>6. Moves(q, m) /\ m.pc \notin {"revoke", "done", "session"}
  BY <1>1, <1>4, <1>5 DEF Moves, Carries, Inv, Tables
<1>7. chal' = [chal EXCEPT ![c] = "consumed"] /\ chal \in [Challenges -> {"unborn", "live", "consumed", "gone"}]
  BY DEF ConsumeChallenge, Inv, Tables
<1>8. Tables' /\ StepKept' /\ SetKept'
  BY <1>1, <1>7 DEF Inv, Tables, StepKept, SetKept
<1>9. OneHolder'
  <2>1. \A p \in Requests : req'[p] = IF p = q THEN m ELSE req[p]
    BY <1>4 DEF Inv
  <2>2. /\ \A p \in Requests : Active(req[p]) => req[p].chal # c
        /\ \A x \in Sessions : sess[x].chal # c
    BY <1>1 DEF Inv, OneHolder
  <2>3. (\A p \in Requests : req[p].chal \in Challenges \cup {"none"}) /\ (\A x \in Sessions : sess[x].chal \in Challenges \cup {"none"})
    BY DEF Inv, Tables, Local, SessRow
  <2>4. \A d \in Challenges \ {c} : chal'[d] = chal[d]
    BY <1>7
  <2>5. chal'[c] = "consumed"
    BY <1>7
  <2>6. ASSUME NEW p \in Requests, Active(req'[p]), req'[p].chal # "none"
        PROVE  /\ chal'[req'[p].chal] \notin {"unborn", "live"}
               /\ \A o \in Requests : Active(req'[o]) /\ req'[o].chal = req'[p].chal => o = p
               /\ \A x \in Sessions : sess[x].chal # req'[p].chal
    <3>1. CASE p = q
      BY <1>5, <2>1, <2>2, <2>5, <3>1
    <3>2. CASE p # q
      <4>1. /\ req'[p] = req[p] /\ req[p].chal # c
            /\ chal[req[p].chal] \notin {"unborn", "live"}
            /\ \A o \in Requests : Active(req[o]) /\ req[o].chal = req[p].chal => o = p
            /\ \A x \in Sessions : sess[x].chal # req[p].chal
        BY <2>1, <2>2, <2>6, <3>2 DEF Inv, OneHolder
      <4>. QED  BY <1>5, <2>1, <2>3, <2>4, <2>6, <4>1
    <3>. QED  BY <3>1, <3>2
  <2>7. ASSUME NEW x \in Sessions, sess[x].chal # "none"
        PROVE  /\ chal'[sess[x].chal] \notin {"unborn", "live"}
               /\ \A y \in Sessions : sess[y].chal = sess[x].chal => y = x
    BY <2>2, <2>3, <2>4, <2>7 DEF Inv, OneHolder
  <2>. QED  BY <1>1, <2>6, <2>7 DEF OneHolder, Active
<1>10. Predates' /\ Revokes'
  <2>1. Left(m)'
    BY <1>6 DEF Left
  <2>. QED  BY <1>1, <1>6, <2>1, PredatesKeeps, RevokesKeeps
<1>. QED  BY <1>6, <1>8, <1>9, <1>10, MoveKeeps DEF Inv

-----------------------------------------------------------------------------
(* Statements on the enrolment and the recovery codes.                     *)

\* The challenges and the sessions stay, and so does what the request holds of them.
LEMMA TableKeeps ==
    ASSUME Inv, NEW q \in Requests, NEW m, Moves(q, m), UNCHANGED <<chal, sess>>,
           Tables', StepKept', SetKept', row'.confirmed => row.confirmed \/ confirms' > confirms,
           ~Active(m) \/ (Active(req[q]) /\ m.chal = req[q].chal),
           m.pc # "session" \/ m.op # "signin", m.pc # "revoke", m.pc # "done" \/ ~m.ok
    PROVE  Inv'
<1>1. OneHolder'
  BY HolderKeeps
<1>2. Predates'
  BY PredatesKeeps
<1>3. Left(m)'
  BY DEF Left
<1>4. Revokes'
  BY <1>3, RevokesKeeps
<1>. QED  BY <1>1, <1>2, <1>4, MoveKeeps DEF Inv

\* An answer of an endpoint other than the confirmation, or with an error.
LEMMA AnswerMoves ==
    ASSUME Inv, NEW q \in Requests, NEW ok \in BOOLEAN, Return(q, ok), ~ok \/ req[q].op # "confirm", UNCHANGED confirms
    PROVE  \E m : Moves(q, m) /\ m.pc = "done" /\ ~m.ok
<1>1. req \in [Requests -> Local] /\ confirms \in Nat /\ req[q].era <= confirms
  BY DEF Inv, Tables, Revokes
<1>2. PICK m \in Local :
        /\ req' = [req EXCEPT ![q] = m]
        /\ m.pc = "done" /\ (m.era = 0 \/ m.era = req[q].era) /\ ~m.ok
  BY <1>1, ReturnMoves
<1>3. Moves(q, m)
  BY <1>1, <1>2 DEF Moves, Carries
<1>. QED  BY <1>2, <1>3

\* A new secret starts without an accepted code.
LEMMA SecretKeeps ==
    ASSUME Inv, NEW x \in mix.secrets, FreshSecret(x),
           row' = [exists |-> TRUE, secret |-> x, confirmed |-> FALSE, lastStep |-> 0],
           UNCHANGED <<mix, clock, codes, sets, chal, sess, accepted, proven, confirms>>
    PROVE  Tables' /\ StepKept' /\ SetKept' /\ ~row'.confirmed
<1>1. x \in Secrets /\ x \notin proven
  BY OpsKnown DEF FreshSecret
<1>2. row' \in Row /\ row'.secret = x /\ row'.lastStep = 0 /\ ~row'.confirmed
  BY <1>1 DEF Row
<1>3. StepKept'
  <2>1. \A p \in Codes : accepted[p] \in Nat
    BY DEF Inv, Tables
  <2>. QED  BY <1>1, <1>2, <2>1 DEF Inv, StepKept
<1>. QED  BY <1>2, <1>3 DEF Inv, Tables, SetKept

LEMMA UpsertKeeps ==
    ASSUME Inv, mix' = mix, NEW q \in Requests, NEW x \in mix.secrets, UpsertUpdate(q, x) \/ UpsertInsert(q, x)
    PROVE  Inv'
<1>1. /\ req[q].pc \in {"upsert", "insert"} /\ req[q].op = "enrol" /\ req \in [Requests -> Local] /\ FreshSecret(x)
      /\ UNCHANGED <<clock, codes, sets, chal, sess, accepted, proven, confirms>>
  BY DEF UpsertUpdate, UpsertInsert, ghosts, Inv, Carries
<1>2. CASE /\ row' = [exists |-> TRUE, secret |-> x, confirmed |-> FALSE, lastStep |-> 0]
           /\ Return(q, TRUE)
  <2>1. PICK m : Moves(q, m) /\ m.pc = "done" /\ ~m.ok
    BY <1>1, <1>2, AnswerMoves
  <2>2. ~Active(m)
    BY <2>1 DEF Active
  <2>3. Tables' /\ StepKept' /\ SetKept' /\ ~row'.confirmed
    BY <1>1, <1>2, SecretKeeps
  <2>. QED  BY <1>1, <2>1, <2>2, <2>3, TableKeeps
<1>3. CASE row' = row /\ req' = [req EXCEPT ![q].pc = "insert"]
  <2>0. "insert" \in Steps
    BY DEF Steps
  <2>. DEFINE m == [req[q] EXCEPT !.pc = "insert"]
  <2>1. req' = [req EXCEPT ![q] = m]
    BY <1>3
  <2>2. m \in Local /\ m.pc = "insert" /\ m.op = req[q].op /\ m.chal = req[q].chal /\ m.era = req[q].era
    BY <1>1, <2>0 DEF Local
  <2>. HIDE DEF m
  <2>3. Quiet /\ Active(req[q]) /\ Carries(m)
    BY <1>1, <1>3, <2>2 DEF Quiet, Active, Carries
  <2>. QED  BY <2>1, <2>2, <2>3, GoKeeps
<1>4. CASE row' = row /\ Return(q, FALSE)
  BY <1>1, <1>4, RefuseKeeps DEF Quiet
<1>. QED  BY <1>2, <1>3, <1>4 DEF UpsertUpdate, UpsertInsert, Goto

LEMMA ReadKeeps == ASSUME Inv, mix' = mix, NEW q \in Requests, ReadEnrolment(q) PROVE Inv'
<1>1. /\ req[q] \in Local /\ req[q].pc = "read" /\ Quiet
      /\ req[q].op \in {"verify", "confirm", "disable", "regenerate"} /\ req[q].code \in Codes
  BY DEF ReadEnrolment, ghosts, Quiet, Inv, Carries
<1>2. CASE req' = [req EXCEPT ![q].pc = "validate", ![q].secret = row.secret]
  <2>. DEFINE m == [req[q] EXCEPT !.pc = "validate", !.secret = row.secret]
  <2>1. "validate" \in Steps /\ row.secret \in Secrets \cup {"none"}
    BY DEF Steps, Inv, Tables, Row
  <2>2. req' = [req EXCEPT ![q] = m]
    BY <1>2
  <2>3. m \in Local /\ m.pc = "validate" /\ m.op = req[q].op /\ m.chal = req[q].chal /\ m.era = req[q].era /\ m.code = req[q].code
    BY <1>1, <2>1 DEF Local
  <2>. HIDE DEF m
  <2>4. Carries(m) /\ Active(req[q])
    BY <1>1, <2>3 DEF Carries, Active
  <2>. QED  BY <1>1, <2>2, <2>3, <2>4, GoKeeps
<1>3. CASE Return(q, FALSE)
  BY <1>1, <1>3, RefuseKeeps
<1>. QED  BY <1>2, <1>3 DEF ReadEnrolment

LEMMA ValidateKeeps == ASSUME Inv, mix' = mix, NEW q \in Requests, Validate(q) PROVE Inv'
<1>1. /\ req \in [Requests -> Local] /\ req[q].pc = "validate" /\ Quiet
      /\ req[q].op \in {"verify", "confirm", "disable", "regenerate"} /\ req[q].code \in Codes
  BY DEF Validate, ghosts, Quiet, Inv, Carries
<1>2. CASE req' = [req EXCEPT ![q].pc = "advance"]
  <2>0. "advance" \in Steps
    BY DEF Steps
  <2>. DEFINE m == [req[q] EXCEPT !.pc = "advance"]
  <2>1. req' = [req EXCEPT ![q] = m]
    BY <1>2
  <2>2. m \in Local /\ m.pc = "advance" /\ m.op = req[q].op /\ m.chal = req[q].chal /\ m.era = req[q].era /\ m.code = req[q].code
    BY <1>1, <2>0 DEF Local
  <2>. HIDE DEF m
  <2>3. Carries(m) /\ Active(req[q])
    BY <1>1, <2>2 DEF Carries, Active
  <2>. QED  BY <1>1, <2>1, <2>2, <2>3, GoKeeps
<1>3. CASE Return(q, FALSE)
  BY <1>1, <1>3, RefuseKeeps
<1>. QED  BY <1>2, <1>3 DEF Validate, Goto

\* AdvanceStep: of the requests that carry one code of the secret in the row, one
\* finds an older last_step.
LEMMA AdvanceKeeps == ASSUME Inv, mix' = mix, NEW q \in Requests, AdvanceStep(q) PROVE Inv'
<1>1. PICK l \in Local : l = req[q]
  BY DEF Inv
<1>2. /\ req \in [Requests -> Local] /\ l.pc = "advance"
      /\ l.op \in {"verify", "confirm", "disable", "regenerate"} /\ l.code \in Codes
      /\ UNCHANGED <<clock, codes, sets, chal, sess, confirms>> /\ row \in Row /\ l.era <= confirms /\ confirms \in Nat
  BY <1>1 DEF AdvanceStep, Inv, Carries, Tables, Revokes
<1>3. CASE row.exists /\ row.lastStep < l.code.step
  <2>. DEFINE pc == AfterCode[l.op]
  <2>1. /\ row' = [row EXCEPT !.lastStep = l.code.step] /\ accepted' = [accepted EXCEPT ![l.code] = @ + 1]
        /\ proven' = proven \cup {l.code.secret} /\ req' = [req EXCEPT ![q].pc = pc]
    BY <1>1, <1>3 DEF AdvanceStep, Advance, Accept, Goto
  <2>2. /\ pc \in {"session", "confirm", "delete", "codes"} /\ pc \in Steps
        /\ pc = "session" => l.op = "verify"
        /\ pc = "delete" => l.op = "disable"
    BY <1>2 DEF AfterCode, Steps
  <2>. HIDE DEF pc
  <2>. DEFINE m == [l EXCEPT !.pc = pc]
  <2>m. req' = [req EXCEPT ![q] = m]
    BY <1>1, <2>1
  <2>3. m \in Local /\ m.pc = pc /\ m.op = l.op /\ m.chal = l.chal /\ m.era = l.era /\ req' = [req EXCEPT ![q] = m]
    BY <2>2, <2>m DEF Local
  <2>. HIDE DEF m
  <2>4. Moves(q, m) /\ Active(req[q])
    BY <1>1, <1>2, <2>2, <2>3 DEF Moves, Carries, Active
  <2>5. l.code.step \in TimeSteps /\ l.code.secret \in Secrets /\ l.code.step \in Nat
    BY <1>2, TotpAssumption DEF Codes, TimeSteps
  <2>6. row' \in Row /\ row'.confirmed = row.confirmed /\ row'.secret = row.secret /\ row'.lastStep = l.code.step
    BY <1>2, <2>1, <2>5 DEF Row
  <2>7. /\ accepted \in [Codes \cup RecoveryCodes -> Nat] /\ accepted' \in [Codes \cup RecoveryCodes -> Nat]
        /\ \A p \in Codes \cup RecoveryCodes : accepted'[p] = IF p = l.code THEN accepted[p] + 1 ELSE accepted[p]
    BY <1>2, <2>1 DEF Inv, Tables
  <2>8. Tables'
    BY <1>2, <2>1, <2>5, <2>6, <2>7 DEF Inv, Tables
  <2>9. StepKept'
    <3>1. ASSUME NEW p \in Codes
          PROVE  /\ accepted'[p] > 0 => p.secret \in proven'
                 /\ p.secret = row'.secret => accepted'[p] <= IF p.step <= row'.lastStep THEN 1 ELSE 0
      <4>1. /\ accepted[p] \in Nat /\ p.step \in Nat /\ row.lastStep \in Nat
            /\ accepted[p] > 0 => p.secret \in proven
            /\ p.secret = row.secret => accepted[p] <= IF p.step <= row.lastStep THEN 1 ELSE 0
        BY <1>2, <2>7, TotpAssumption DEF Inv, StepKept, Codes, TimeSteps, Row
      <4>2. CASE p = l.code
        BY <1>3, <2>1, <2>5, <2>6, <2>7, <4>1, <4>2
      <4>3. CASE p # l.code
        BY <1>3, <2>1, <2>5, <2>6, <2>7, <4>1, <4>3
      <4>. QED  BY <4>2, <4>3
    <3>. QED  BY <3>1 DEF StepKept
  <2>10. SetKept'
    <3>1. \A p \in RecoveryCodes : accepted'[p] = accepted[p]
      BY <1>2, <2>7, CodesDiffer
    <3>. QED  BY <1>2, <3>1 DEF Inv, SetKept
  <2>. QED  BY <1>1, <1>2, <2>2, <2>3, <2>4, <2>6, <2>8, <2>9, <2>10, TableKeeps
<1>4. CASE ~(row.exists /\ row.lastStep < l.code.step)
  <2>1. Return(q, FALSE) /\ Quiet
    BY <1>1, <1>2, <1>4 DEF AdvanceStep, Quiet
  <2>. QED  BY <2>1, RefuseKeeps
<1>. QED  BY <1>3, <1>4

\* TOTP().Confirm: whatever was read before it is from before this confirmation.
LEMMA ConfirmKeeps == ASSUME Inv, mix' = mix, NEW q \in Requests, Confirm(q) PROVE Inv'
<1>1. /\ req[q] \in Local /\ req[q].pc = "confirm" /\ row \in Row /\ confirms \in Nat
      /\ UNCHANGED <<clock, codes, sets, chal, sess, accepted, proven>>
  BY DEF Confirm, Inv, Tables
<1>2. CASE row.exists
  <2>. DEFINE m == [req[q] EXCEPT !.pc = "codes", !.era = confirms + 1]
  <2>1. /\ row' = [row EXCEPT !.confirmed = TRUE] /\ confirms' = confirms + 1
        /\ req' = [req EXCEPT ![q] = m]
    BY <1>2 DEF Confirm
  <2>2. "codes" \in Steps /\ confirms + 1 \in Nat
    BY <1>1 DEF Steps
  <2>3. m \in Local /\ m.pc = "codes" /\ m.chal = req[q].chal /\ m.era = confirms + 1
    BY <1>1, <2>2 DEF Local
  <2>. HIDE DEF m
  <2>4. Moves(q, m) /\ Active(req[q])
    BY <1>1, <2>1, <2>2, <2>3 DEF Moves, Carries, Active
  <2>5. row' \in Row /\ row'.secret = row.secret /\ row'.lastStep = row.lastStep
    BY <1>1, <2>1 DEF Row
  <2>6. Tables' /\ StepKept' /\ SetKept'
    BY <1>1, <2>1, <2>2, <2>5 DEF Inv, Tables, StepKept, SetKept
  <2>7. confirms' > confirms
    BY <1>1, <2>1
  <2>. QED  BY <1>1, <2>3, <2>4, <2>6, <2>7, TableKeeps
<1>3. CASE ~row.exists
  BY <1>1, <1>3, RefuseKeeps DEF Confirm, Quiet
<1>. QED  BY <1>2, <1>3

LEMMA ReplaceDeleteKeeps == ASSUME Inv, mix' = mix, NEW q \in Requests, ReplaceDelete(q) PROVE Inv'
<1>. DEFINE m == [req[q] EXCEPT !.pc = "replace", !.drop = codes]
<1>1. req[q] \in Local /\ req[q].pc = "codes" /\ req' = [req EXCEPT ![q] = m]
  BY DEF ReplaceDelete, Inv
<1>2. "replace" \in Steps /\ codes \in SUBSET (Challenges \cup RecoveryCodes)
  BY DEF Steps, Inv, Tables
<1>3. m \in Local /\ m.pc = "replace" /\ m.op = req[q].op /\ m.chal = req[q].chal /\ m.era = req[q].era
  BY <1>1, <1>2 DEF Local
<1>. HIDE DEF m
<1>4. Quiet /\ Active(req[q]) /\ Carries(m)
  BY <1>1, <1>3 DEF ReplaceDelete, Quiet, ghosts, Active, Carries
<1>. QED  BY <1>1, <1>3, <1>4, GoKeeps

\* ReplaceAll: the codes of the new set were never accepted.
LEMMA ReplaceInsertKeeps == ASSUME Inv, mix' = mix, NEW q \in Requests, ReplaceInsert(q) PROVE Inv'
<1>1. /\ req[q] \in Local /\ req[q].pc = "replace" /\ sets \in 0 .. MaxSet /\ sets < MaxSet
      /\ codes' = (codes \ req[q].drop) \cup SetOf(sets + 1) /\ sets' = sets + 1 /\ codes \subseteq RecoveryCodes
      /\ UNCHANGED <<clock, row, chal, sess, accepted, proven, confirms>> /\ confirms \in Nat /\ req[q].era <= confirms
  BY DEF ReplaceInsert, Inv, Tables, Revokes
<1>2. MaxSet \in Nat /\ sets + 1 \in 1 .. MaxSet /\ sets + 1 \in 0 .. MaxSet
  BY <1>1, TotpAssumption
<1>3. \A p \in SetOf(sets + 1) : p \in RecoveryCodes /\ p.set = sets + 1
  BY <1>2 DEF SetOf, RecoveryCodes
<1>4. Tables' /\ StepKept'
  <2>1. codes' \subseteq RecoveryCodes
    BY <1>1, <1>3
  <2>. QED  BY <1>1, <1>2, <2>1 DEF Inv, Tables, StepKept
<1>5. SetKept'
  <2>1. ASSUME NEW p \in RecoveryCodes
        PROVE  /\ accepted'[p] <= 1
               /\ p \in codes' => accepted'[p] = 0 /\ p.set <= sets'
               /\ p.set > sets' => accepted'[p] = 0
    <3>1. /\ p.set \in Nat /\ accepted[p] <= 1 /\ accepted'[p] = accepted[p]
          /\ p \in codes => accepted[p] = 0 /\ p.set <= sets
          /\ p.set > sets => accepted[p] = 0
      BY <1>1, TotpAssumption DEF RecoveryCodes, Inv, SetKept
    <3>2. p \in codes' => p \in codes \/ p.set = sets + 1
      BY <1>1, <1>3
    <3>. QED  BY <1>1, <3>1, <3>2
  <2>. QED  BY <2>1 DEF SetKept
<1>6. CASE req[q].op = "confirm"
  <2>. DEFINE m == [req[q] EXCEPT !.pc = "list", !.drop = {}]
  <2>1. req' = [req EXCEPT ![q] = m]
    BY <1>6 DEF ReplaceInsert
  <2>2. m \in Local /\ m.pc = "list" /\ m.chal = req[q].chal /\ m.era = req[q].era
    BY <1>1 DEF Local, Steps
  <2>. HIDE DEF m
  <2>3. Moves(q, m) /\ Active(req[q])
    BY <1>1, <2>1, <2>2 DEF Moves, Carries, Active
  <2>. QED  BY <1>1, <1>4, <1>5, <2>2, <2>3, TableKeeps
<1>7. CASE req[q].op # "confirm"
  <2>1. PICK m : Moves(q, m) /\ m.pc = "done" /\ ~m.ok
    BY <1>1, <1>7, AnswerMoves DEF ReplaceInsert
  <2>2. ~Active(m)
    BY <2>1 DEF Active
  <2>. QED  BY <1>1, <1>4, <1>5, <2>1, <2>2, TableKeeps
<1>. QED  BY <1>6, <1>7

\* Recovery codes: the DELETE of one transaction finds the row.
LEMMA SpendKeeps == ASSUME Inv, mix' = mix, NEW q \in Requests, SpendRecovery(q) PROVE Inv'
<1>1. PICK l \in Local : l = req[q]
  BY DEF Inv
<1>2. /\ l.pc = "spend" /\ l.op = "recovery" /\ l.code \in RecoveryCodes /\ l.era <= confirms /\ confirms \in Nat
      /\ UNCHANGED <<clock, row, sets, chal, sess, proven, confirms>>
  BY <1>1 DEF SpendRecovery, Inv, Carries, Revokes, Tables
<1>3. CASE l.code \in codes
  <2>. DEFINE m == [l EXCEPT !.pc = "delete"]
  <2>1. /\ codes' = codes \ {l.code} /\ accepted' = [accepted EXCEPT ![l.code] = @ + 1]
        /\ req' = [req EXCEPT ![q] = m]
    BY <1>1, <1>3 DEF SpendRecovery, Accept, Goto
  <2>2. m \in Local /\ m.pc = "delete" /\ m.op = l.op /\ m.chal = l.chal /\ m.era = l.era
    BY DEF Local, Steps
  <2>. HIDE DEF m
  <2>3. Moves(q, m) /\ Active(req[q])
    BY <1>1, <1>2, <2>1, <2>2 DEF Moves, Carries, Active
  <2>4. /\ accepted \in [Codes \cup RecoveryCodes -> Nat] /\ accepted' \in [Codes \cup RecoveryCodes -> Nat]
        /\ \A p \in Codes \cup RecoveryCodes : accepted'[p] = IF p = l.code THEN accepted[p] + 1 ELSE accepted[p]
    BY <1>2, <2>1 DEF Inv, Tables
  <2>5. Tables'
    BY <1>2, <2>1, <2>4 DEF Inv, Tables
  <2>6. StepKept'
    <3>1. \A p \in Codes : accepted'[p] = accepted[p]
      BY <1>2, <2>4, CodesDiffer
    <3>. QED  BY <1>2, <3>1 DEF Inv, StepKept
  <2>7. SetKept'
    <3>1. accepted[l.code] = 0 /\ l.code.set <= sets /\ sets \in Nat /\ l.code.set \in Nat
      BY <1>2, <1>3, TotpAssumption DEF Inv, SetKept, Tables, RecoveryCodes
    <3>2. ASSUME NEW p \in RecoveryCodes
          PROVE  /\ accepted'[p] <= 1
                 /\ p \in codes' => accepted'[p] = 0 /\ p.set <= sets'
                 /\ p.set > sets' => accepted'[p] = 0
      <4>1. CASE p = l.code
        BY <1>2, <2>1, <2>4, <3>1, <4>1
      <4>2. CASE p # l.code
        BY <1>2, <2>1, <2>4, <4>2 DEF Inv, SetKept
      <4>. QED  BY <4>1, <4>2
    <3>. QED  BY <3>2 DEF SetKept
  <2>. QED  BY <1>1, <1>2, <2>2, <2>3, <2>5, <2>6, <2>7, TableKeeps
<1>4. CASE l.code \notin codes
  <2>1. Return(q, FALSE) /\ Quiet
    BY <1>1, <1>2, <1>4 DEF SpendRecovery, Quiet
  <2>. QED  BY <2>1, RefuseKeeps
<1>. QED  BY <1>3, <1>4

LEMMA DeleteKeeps == ASSUME Inv, mix' = mix, NEW q \in Requests, DeleteEnrolment(q) PROVE Inv'
<1>. DEFINE m == [req[q] EXCEPT !.pc = "purge"]
<1>1. /\ req[q] \in Local /\ req[q].pc = "delete" /\ req[q].op \in {"disable", "recovery"} /\ req[q].era <= confirms
      /\ confirms \in Nat /\ row' = NoEnrolment /\ req' = [req EXCEPT ![q] = m]
      /\ UNCHANGED <<clock, codes, sets, chal, sess, accepted, proven, confirms>>
  BY DEF DeleteEnrolment, Goto, ghosts, Inv, Carries, Revokes, Tables
<1>2. m \in Local /\ m.pc = "purge" /\ m.op = req[q].op /\ m.chal = req[q].chal /\ m.era = req[q].era
  BY <1>1 DEF Local, Steps
<1>. HIDE DEF m
<1>3. Moves(q, m) /\ Active(req[q])
  BY <1>1, <1>2 DEF Moves, Carries, Active
<1>4. row' \in Row /\ row'.secret = "none" /\ ~row'.confirmed
  BY <1>1 DEF NoEnrolment, Row
<1>5. Tables' /\ SetKept'
  BY <1>1, <1>4 DEF Inv, Tables, SetKept
<1>6. StepKept'
  <2>1. \A p \in Codes : p.secret # "none"
    BY TotpAssumption DEF Codes
  <2>. QED  BY <1>1, <1>4, <2>1 DEF Inv, StepKept
<1>. QED  BY <1>1, <1>2, <1>3, <1>4, <1>5, <1>6, TableKeeps

LEMMA PurgeKeeps == ASSUME Inv, mix' = mix, NEW q \in Requests, PurgeCodes(q) PROVE Inv'
<1>1. /\ req[q] \in Local /\ req[q].pc = "purge" /\ req[q].op \in {"disable", "recovery"} /\ req[q].era <= confirms
      /\ confirms \in Nat /\ (codes' = {} \/ codes' = codes)
      /\ UNCHANGED <<clock, row, sets, chal, sess, accepted, proven, confirms>>
  BY DEF PurgeCodes, ghosts, Inv, Carries, Revokes, Tables
<1>2. Tables' /\ StepKept' /\ SetKept'
  BY <1>1 DEF Inv, Tables, StepKept, SetKept
<1>3. CASE req[q].op = "recovery"
  <2>. DEFINE m == [req[q] EXCEPT !.pc = "session"]
  <2>1. req' = [req EXCEPT ![q] = m]
    BY <1>3 DEF PurgeCodes, Goto
  <2>2. m \in Local /\ m.pc = "session" /\ m.op = "recovery" /\ m.chal = req[q].chal /\ m.era = req[q].era
    BY <1>1, <1>3 DEF Local, Steps
  <2>. HIDE DEF m
  <2>3. Moves(q, m) /\ Active(req[q])
    BY <1>1, <2>1, <2>2 DEF Moves, Carries, Active
  <2>. QED  BY <1>1, <1>2, <2>2, <2>3, TableKeeps
<1>4. CASE req[q].op # "recovery"
  <2>1. PICK m : Moves(q, m) /\ m.pc = "done" /\ ~m.ok
    BY <1>1, <1>4, AnswerMoves DEF PurgeCodes
  <2>2. ~Active(m)
    BY <2>1 DEF Active
  <2>. QED  BY <1>1, <1>2, <2>1, <2>2, TableKeeps
<1>. QED  BY <1>3, <1>4

-----------------------------------------------------------------------------
(* The sessions from before a confirmation.                                *)

LEMMA RevokeListKeeps == ASSUME Inv, mix' = mix, NEW q \in Requests, RevokeList(q) PROVE Inv'
<1>. DEFINE others == Live \ {req[q].keep}
<1>1. /\ req[q] \in Local /\ req[q].pc = "list" /\ req[q].era <= confirms
      /\ Quiet /\ Active(req[q]) /\ req \in [Requests -> Local]
  BY DEF RevokeList, Inv, Revokes, Quiet, ghosts, Active
<1>2. others \in SUBSET Sessions /\ \A s \in Sessions : sess[s].st = "live" => s \in others \/ s = req[q].keep
  BY DEF Live
<1>3. PICK m \in Local :
        /\ req' = [req EXCEPT ![q] = m]
        /\ m.pc = "revoke" /\ m.keep = req[q].keep /\ m.chal = req[q].chal /\ m.era = req[q].era
        /\ ~m.logged => m.todo = others
  <2>. HIDE DEF others
  <2>1. CASE req' = [req EXCEPT ![q].pc = "revoke", ![q].todo = others]
    <3>. DEFINE m == [req[q] EXCEPT !.pc = "revoke", !.todo = others]
    <3>1. /\ m \in Local /\ m.pc = "revoke" /\ m.todo = others
          /\ m.keep = req[q].keep /\ m.chal = req[q].chal /\ m.era = req[q].era
      BY <1>1, <1>2 DEF Local, Steps
    <3>2. req' = [req EXCEPT ![q] = m]
      BY <1>1, <2>1
    <3>. HIDE DEF m
    <3>. QED  BY <3>1, <3>2
  <2>2. CASE req' = [req EXCEPT ![q].pc = "revoke", ![q].logged = TRUE]
    <3>. DEFINE m == [req[q] EXCEPT !.pc = "revoke", !.logged = TRUE]
    <3>1. /\ m \in Local /\ m.pc = "revoke" /\ m.logged
          /\ m.keep = req[q].keep /\ m.chal = req[q].chal /\ m.era = req[q].era
      BY <1>1 DEF Local, Steps
    <3>2. req' = [req EXCEPT ![q] = m]
      BY <1>1, <2>2
    <3>. HIDE DEF m
    <3>. QED  BY <3>1, <3>2
  <2>. QED  BY <2>1, <2>2 DEF RevokeList, others
<1>. HIDE DEF others
<1>4. Carries(m) /\ Left(m)
  BY <1>2, <1>3 DEF Carries, Left
<1>. QED  BY <1>1, <1>3, <1>4, QuietKeeps

\* A session that is on the list of a request ends, or is passed over with a log.
LEMMA RevokeOneKeeps == ASSUME Inv, mix' = mix, NEW q \in Requests, NEW s \in Sessions, RevokeOne(q, s) PROVE Inv'
<1>0. PICK l \in Local : l = req[q]
  BY DEF Inv
<1>1. /\ req[q] = l /\ l.pc = "revoke" /\ l.era <= confirms
      /\ sess \in [Sessions -> SessRow] /\ confirms \in Nat /\ req \in [Requests -> Local]
      /\ UNCHANGED <<clock, row, codes, sets, chal, accepted, proven, confirms>>
  BY <1>0 DEF RevokeOne, ghosts, Inv, Revokes, Tables
<1>. DEFINE rest == l.todo \ {s}
<1>2. rest \in SUBSET Sessions
  BY <1>1 DEF Local
<1>a. CASE sess' = [sess EXCEPT ![s].st = "gone"] /\ req' = [req EXCEPT ![q].todo = @ \ {s}]
  <2>. DEFINE m == [l EXCEPT !.todo = rest]
  <2>1. req' = [req EXCEPT ![q] = m]
    BY <1>1, <1>a
  <2>3. /\ m \in Local /\ m.pc = "revoke" /\ m.todo = rest /\ m.keep = l.keep
        /\ m.chal = l.chal /\ m.era = l.era /\ m.op = l.op /\ m.logged = l.logged
    BY <1>1, <1>2 DEF Local
  <2>4. rest = l.todo \ {s}
    OBVIOUS
  <2>. HIDE DEF m, rest
  <2>5. Moves(q, m) /\ Active(req[q])
    BY <1>1, <2>1, <2>3 DEF Moves, Carries, Active
  <2>6. /\ sess'[s] = [sess[s] EXCEPT !.st = "gone"] /\ sess[s] \in SessRow
        /\ \A x \in Sessions \ {s} : sess'[x] = sess[x]
    BY <1>1, <1>a
  <2>7. sess'[s] \in SessRow /\ sess'[s].st = "gone" /\ sess'[s].chal = sess[s].chal
    BY <2>6 DEF SessRow
  <2>8. sess' \in [Sessions -> SessRow]
    BY <1>1, <1>a, <2>6, <2>7
  <2>9. Tables' /\ StepKept' /\ SetKept'
    BY <1>1, <2>8 DEF Inv, Tables, StepKept, SetKept
  <2>10. OneHolder'
    BY <1>1, <2>3, <2>5, <2>6, <2>7, HolderKeeps
  <2>11. Predates'
    BY <1>1, <2>3, <2>5, <2>6, <2>7, PredatesKeeps
  <2>12. Left(m)'
    <3>. SUFFICES ASSUME ~m.logged, NEW x \in Sessions, sess'[x].st = "live"
                  PROVE  sess'[x].born >= m.era \/ x = m.keep \/ x \in m.todo
      BY <2>3 DEF Left
    <3>1. sess[x].st = "live" => sess[x].born >= l.era \/ x = l.keep \/ x \in l.todo
      BY <1>1, <2>3 DEF Inv, Revokes, Left
    <3>. QED  BY <2>3, <2>4, <2>6, <2>7, <3>1
  <2>13. Revokes'
    BY <1>1, <2>5, <2>6, <2>7, <2>12, RevokesKeeps
  <2>. QED  BY <2>5, <2>9, <2>10, <2>11, <2>13, MoveKeeps DEF Inv
<1>b. CASE sess' = sess /\ req' = [req EXCEPT ![q].todo = @ \ {s}, ![q].logged = TRUE]
  <2>. DEFINE m == [l EXCEPT !.todo = rest, !.logged = TRUE]
  <2>1. req' = [req EXCEPT ![q] = m]
    BY <1>1, <1>b
  <2>2. m \in Local /\ m.pc = "revoke" /\ m.chal = l.chal /\ m.era = l.era /\ m.op = l.op /\ m.logged
    BY <1>1, <1>2 DEF Local
  <2>. HIDE DEF m
  <2>3. Quiet /\ Active(req[q]) /\ Carries(m) /\ Left(m)
    BY <1>1, <1>b, <2>2 DEF Quiet, Active, Carries, Left
  <2>. QED  BY <1>1, <2>1, <2>2, <2>3, QuietKeeps
<1>. QED  BY <1>a, <1>b DEF RevokeOne

LEMMA RevokeDoneKeeps == ASSUME Inv, mix' = mix, NEW q \in Requests, RevokeDone(q) PROVE Inv'
<1>1. /\ req \in [Requests -> Local] /\ req[q].pc = "revoke" /\ req[q].todo = {} /\ Return(q, TRUE) /\ req[q].era <= confirms
      /\ confirms \in Nat
  BY DEF RevokeDone, Inv, Revokes, Tables
<1>2. PICK m \in Local :
        /\ req' = [req EXCEPT ![q] = m]
        /\ m.pc = "done" /\ (m.era = 0 \/ m.era = req[q].era)
        /\ m.ok => m.keep = req[q].keep /\ m.era = req[q].era /\ m.logged = req[q].logged
  BY <1>1, ReturnMoves
<1>3. ~req[q].logged => \A x \in Sessions : sess[x].st = "live" => sess[x].born >= req[q].era \/ x = req[q].keep
  BY <1>1 DEF Inv, Revokes, Left
<1>4. Quiet /\ ~Active(m) /\ Carries(m) /\ m.era <= confirms /\ Left(m)
  BY <1>1, <1>2, <1>3 DEF RevokeDone, Quiet, ghosts, Active, Carries, Left
<1>. QED  BY <1>2, <1>4, QuietKeeps

-----------------------------------------------------------------------------
(* The theorems.                                                           *)

LEMMA InitInv == Init => Inv
<1>. SUFFICES ASSUME Init PROVE Inv
  OBVIOUS
<1>. DEFINE f == Fresh("signin", "idle")
            none == [st |-> "unborn", method |-> "password", chal |-> "none", checked |-> 0, born |-> 0]
            live == [none EXCEPT !.st = "live"]
<1>1. mix \in Mixes /\ mix.enrolled \in BOOLEAN /\ mix.secrets \subseteq Secrets /\ mix.secrets # {}
  BY TotpAssumption DEF Init
<1>. DEFINE first == CHOOSE x \in mix.secrets : TRUE
<1>2. first \in Secrets /\ first \in mix.secrets
  BY <1>1
<1>3. /\ row = IF mix.enrolled THEN [exists |-> TRUE, secret |-> first, confirmed |-> TRUE, lastStep |-> 0]
                                ELSE NoEnrolment
      /\ codes = (IF mix.enrolled THEN SetOf(1) ELSE {}) /\ sets = (IF mix.enrolled THEN 1 ELSE 0)
      /\ proven = (IF mix.enrolled THEN {first} ELSE {}) /\ confirms = (IF mix.enrolled THEN 1 ELSE 0)
      /\ accepted = [p \in Codes \cup RecoveryCodes |-> 0]
      /\ clock = 1 /\ chal = [c \in Challenges |-> "unborn"]
  BY DEF Init
<1>. HIDE DEF first
<1>4. /\ row \in Row /\ row.lastStep = 0 /\ (row.confirmed => confirms = 1) /\ confirms \in Nat /\ sets \in 0 .. MaxSet
      /\ proven \subseteq Secrets /\ clock \in TimeSteps
  BY <1>1, <1>2, <1>3, TotpAssumption DEF Row, NoEnrolment, TimeSteps
<1>5. codes \subseteq RecoveryCodes /\ \A p \in codes : p.set <= sets
  <2>1. CASE mix.enrolled
    <3>1. \A p \in SetOf(1) : p \in RecoveryCodes /\ p.set = 1
      BY TotpAssumption DEF SetOf, RecoveryCodes
    <3>. QED  BY <1>3, <2>1, <3>1
  <2>2. CASE ~mix.enrolled
    BY <1>3, <2>2
  <2>. QED  BY <2>1, <2>2
<1>6. f \in Local /\ f.pc = "idle" /\ f.op = "signin" /\ f.era = 0 /\ f.chal = "none"
  <2>1. "idle" \in Steps /\ "signin" \in AllOps
    BY DEF Steps, AllOps
  <2>. QED  BY <2>1, FreshCall
<1>7. req = [q \in Requests |-> f]
  BY DEF Init
<1>. HIDE DEF f
<1>8. req \in [Requests -> Local] /\ \A q \in Requests : Carries(req[q]) /\ ~Active(req[q]) /\ Left(req[q])
  BY <1>6, <1>7 DEF Carries, Active, Left
<1>9. \A s \in Sessions : sess[s] \in {none, live}
  BY DEF Init
<1>10. /\ none \in SessRow /\ none.chal = "none" /\ none.checked = 0
       /\ live \in SessRow /\ live.chal = "none" /\ live.checked = 0
  BY DEF SessRow
<1>. HIDE DEF none, live
<1>11. sess \in [Sessions -> SessRow]
  <2>1. \A s \in Sessions : sess[s] \in SessRow
    BY <1>9, <1>10
  <2>2. \E g : sess = [s \in Sessions |-> g[s]]
    BY DEF Init
  <2>. QED  BY <2>1, <2>2
<1>12. Tables
  BY <1>1, <1>3, <1>4, <1>5, <1>11 DEF Tables
<1>13. StepKept /\ SetKept
  BY <1>3, <1>5 DEF StepKept, SetKept
<1>14. OneHolder
  BY <1>8, <1>9, <1>10 DEF OneHolder
<1>15. Predates
  BY <1>4, <1>6, <1>7, <1>9, <1>10 DEF Predates, Before
<1>16. Revokes
  BY <1>4, <1>6, <1>7, <1>8 DEF Revokes
<1>. QED  BY <1>8, <1>12, <1>13, <1>14, <1>15, <1>16 DEF Inv

LEMMA InvStep == Inv /\ [Next]_vars => Inv'
<1>. SUFFICES ASSUME Inv, [Next]_vars PROVE Inv'
  OBVIOUS
<1>1. mix' = mix
  BY DEF Next, vars
<1>2. CASE UNCHANGED vars
  BY <1>1, <1>2, TimeKeeps
<1>3. CASE Step
  <2>1. CASE Tick \/ \E c \in Challenges : ExpireChallenge(c)
    BY <1>1, <2>1, TimeKeeps
  <2>2. ASSUME NEW q \in Requests, SignInStart(q) \/ TotpConfirmed(q) \/ IssueDelete(q) \/ Abort(q) PROVE Inv'
    BY <1>1, <2>2, SignInKeeps, TotpConfirmedKeeps, IssueDeleteKeeps, AbortKeeps
  <2>3. ASSUME NEW q \in Requests, NEW c \in Challenges, IssueToken(q, c) PROVE Inv'
    BY <1>1, <2>3, IssueTokenKeeps
  <2>4. ASSUME NEW q \in Requests, NEW s \in Sessions, NEW carried \in {{}} \cup {{x} : x \in Sessions},
               CreateSession(q, s, carried)
        PROVE  Inv'
    <3>1. carried \in SUBSET Sessions
      OBVIOUS
    <3>. QED  BY <1>1, <2>4, <3>1, CreateSessionKeeps
  <2>5. ASSUME NEW q \in Requests, NEW s \in Sessions, EnrolStart(q, s) \/ RevokeOne(q, s) PROVE Inv'
    BY <1>1, <2>5, EnrolKeeps, RevokeOneKeeps
  <2>6. ASSUME NEW q \in Requests, NEW s \in Sessions, NEW op \in Ops, NEW code \in Guesses, CodeStart(q, op, s, code)
        PROVE  Inv'
    BY <1>1, <2>6, CodeStartKeeps DEF Guesses
  <2>7. ASSUME NEW q \in Requests, NEW x \in mix.secrets, UpsertUpdate(q, x) \/ UpsertInsert(q, x) PROVE Inv'
    BY <1>1, <2>7, UpsertKeeps
  <2>8. ASSUME NEW q \in Requests, NEW op \in Ops, NEW c \in Challenges, NEW code \in Guesses \cup RecoveryCodes,
               ConsumeChallenge(q, op, c, code)
        PROVE  Inv'
    BY <1>1, <2>8, ConsumeKeeps DEF Guesses
  <2>9. ASSUME NEW q \in Requests, ReadEnrolment(q) \/ Validate(q) \/ AdvanceStep(q) \/ Confirm(q) PROVE Inv'
    BY <1>1, <2>9, ReadKeeps, ValidateKeeps, AdvanceKeeps, ConfirmKeeps
  <2>10. ASSUME NEW q \in Requests, ReplaceDelete(q) \/ ReplaceInsert(q) \/ RevokeList(q) \/ RevokeDone(q) PROVE Inv'
    BY <1>1, <2>10, ReplaceDeleteKeeps, ReplaceInsertKeeps, RevokeListKeeps, RevokeDoneKeeps
  <2>11. ASSUME NEW q \in Requests, SpendRecovery(q) \/ DeleteEnrolment(q) \/ PurgeCodes(q) PROVE Inv'
    BY <1>1, <2>11, SpendKeeps, DeleteKeeps, PurgeKeeps
  <2>. QED  BY <1>3, <2>1, <2>2, <2>3, <2>4, <2>5, <2>6, <2>7, <2>8, <2>9, <2>10, <2>11 DEF Step
<1>. QED  BY <1>2, <1>3 DEF Next

\* What the three properties rest on: last_step is the newest accepted step, a code
\* in the table was not accepted, a challenge has one holder.
THEOREM FactorInvariant == Spec => []Inv
<1>. QED  BY InitInv, InvStep, PTL DEF Spec

\* A set with no two elements has at most one.
LEMMA AtMostOne ==
    ASSUME NEW S, \A x, y \in S : x = y
    PROVE  Cardinality(S) \in {0, 1} /\ (S = {} => Cardinality(S) = 0)
<1>1. CASE S = {}
  BY <1>1, FS_EmptySet
<1>2. CASE S # {}
  <2>1. PICK x : S = {x}
    BY <1>2
  <2>. QED  BY <1>2, <2>1, FS_Singleton
<1>. QED  BY <1>1, <1>2

\* handlers_totp.go: "a code that an attacker reads cannot be used a second time
\* inside its own window", and "one code authenticates one time" of recovery codes:
\* whatever the endpoints, however the requests overlap and wherever they end, a
\* code of the secret in the row, a recovery code and a challenge count once.
THEOREM FactorsCountOnce == Spec => []FactorOnce
<1>1. Inv => FactorOnce
  <2>. SUFFICES ASSUME Inv PROVE FactorOnce
    OBVIOUS
  <2>1. TypeOK
    BY TypeInv DEF Inv
  <2>2. CodeOnce
    <3>1. \A p \in Codes : accepted[p] \in Nat
      BY DEF Inv, Tables
    <3>. QED  BY <3>1 DEF Inv, StepKept, CodeOnce
  <2>3. RecoveryOnce
    BY DEF Inv, SetKept, RecoveryOnce
  <2>4. ASSUME NEW c \in Challenges
        PROVE  Cardinality({s \in Sessions : sess[s].chal = c})
               + Cardinality({q \in Requests : ~Free(q) /\ req[q].chal = c}) <= 1
    <3>. DEFINE S == {s \in Sessions : sess[s].chal = c}
                Q == {q \in Requests : ~Free(q) /\ req[q].chal = c}
    <3>1. c # "none"
      BY TotpAssumption
    <3>2. \A x, y \in S : x = y
      BY <3>1 DEF Inv, OneHolder
    <3>3. \A x, y \in Q : x = y
      BY <3>1 DEF Inv, OneHolder, Free, Active
    <3>4. S = {} \/ Q = {}
      BY <3>1 DEF Inv, OneHolder, Free, Active
    <3>. HIDE DEF S, Q
    <3>5. Cardinality(S) \in {0, 1} /\ (S = {} => Cardinality(S) = 0)
      BY <3>2, AtMostOne
    <3>6. Cardinality(Q) \in {0, 1} /\ (Q = {} => Cardinality(Q) = 0)
      BY <3>3, AtMostOne
    <3>7. Cardinality(S) + Cardinality(Q) <= 1
      BY <3>4, <3>5, <3>6
    <3>. QED  BY <3>7 DEF S, Q
  <2>. QED  BY <2>1, <2>2, <2>3, <2>4 DEF FactorOnce, ChallengeOnce
<1>. QED  BY <1>1, FactorInvariant, PTL

\* SignIn and mfaChallenge: while an enrolment is confirmed, a live session of the
\* password alone comes from a sign-in that asked before that confirmation.
THEOREM PasswordAloneIsOld == Spec => []PasswordSessionPredates
<1>1. Inv => PasswordSessionPredates
  BY DEF Inv, Predates, Before, PasswordSessionPredates, Live
<1>. QED  BY <1>1, FactorInvariant, PTL

\* handleTOTPConfirm: "a session that existed before the upgrade must not survive it",
\* although sign-ins go on while the sessions are listed and deleted one by one,
\* unless a failed list or delete was logged.
THEOREM UpgradeRevokes == Spec => []UpgradeEndsSessions
<1>1. Inv => UpgradeEndsSessions
  BY DEF Inv, Revokes, Left, UpgradeEndsSessions, Live
<1>. QED  BY <1>1, FactorInvariant, PTL
=============================================================================
