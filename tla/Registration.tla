---------------------------- MODULE Registration ----------------------------
(***************************************************************************)
(* How a user comes into the system and which ways in it keeps: sign-up by *)
(* password, sign-in and linking through external providers                *)
(* (handlers_oauth.go), the magic link of an unknown address, unlinking,   *)
(* and the bootstrap of the first administrator (plugins/admin).           *)
(*                                                                         *)
(* A request is a record of its local variables and a program counter; one *)
(* statement or one transaction is one step, and the transaction of unlink,*)
(* which reads under a row lock, is four.  A request may end at any point  *)
(* (the process crashes, the store or a hook refuses).                     *)
(***************************************************************************)
EXTENDS Integers, FiniteSets

CONSTANTS
    Ids, States, Browsers, Requests,    \* Ids and States: the new rows of a behaviour
    Emails, Providers,
    Identities,     \* [provider, sub, email, verified]: what Exchange may return
    AutoLink,       \* LinkingOptions.AllowVerifiedEmailAutoLink
    Scenes          \* [ops, users, password, accounts, signed]: flows, and tables at the start

NoUser == "nobody"
NoEmail == "no email"
NoState == "no state"
AllOps == {"signup", "oauth", "link", "unlink", "magic", "delete", "bootstrap", "admin", "abort", "expire"}

VARIABLES
    scene,      \* the scene of the behaviour
    users,      \* users[u]: the users row
    password,   \* the users with a credentials row
    accounts,   \* the accounts table
    states,     \* states[s]: the oauth_states table
    cookie,     \* cookie[b]: the state that the cookie of a browser names
    signed,     \* signed[b]: the user of the session of a browser
    mailed,     \* mailed[e]: the live magic-link token of an address
    guard,      \* the user of the bootstrap row
    lock,       \* lock[u]: the request that holds the lock of the users row
    req,        \* req[q]: the local state of a request
    uses,       \* history: uses[s]: callbacks that got past the consumption of a state
    unlinked,   \* history: the accounts that an unlink removed
    leftover,   \* history: users of a Bootstrap or a CreateUser that ended before its second part
    hindered    \* history: a Bootstrap ended early, or another user took its address

tables == <<users, password, accounts, guard>>
browser == <<cookie, signed>>
history == <<uses, unlinked, leftover, hindered>>
vars == <<scene, tables, states, browser, mailed, lock, req, history>>

User == [st : {"unborn", "live", "gone"}, email : Emails \cup {NoEmail}, verified : BOOLEAN,
         role : {"user", "admin"}]
Unborn == [st |-> "unborn", email |-> NoEmail, verified |-> FALSE, role |-> "user"]
Account == [user : Ids, provider : Providers, sub : {i.sub : i \in Identities}]
State == [st : {"unborn", "live", "consumed", "expired"}, provider : Providers \cup {"none"},
          link : Ids \cup {NoUser}]
NoToken == [st |-> "none", user |-> NoUser]
Token == [st : {"none", "live"}, user : Ids \cup {NoUser}]
NoIdentity == [provider |-> "none", sub |-> "none", email |-> NoEmail, verified |-> FALSE]

Steps == {"idle", "consume", "current", "exchange", "owner", "email", "link", "insert", "session",
          "lock", "check", "delete", "issue", "resolve", "create", "prove", "proven",
          "claim", "remove", "grant"}
Local == [op : AllOps \cup {"none"}, pc : Steps, browser : Browsers \cup {"none"},
          user : Ids \cup {NoUser}, row : User, state : States \cup {NoState},
          provider : Providers \cup {"none"}, link : Ids \cup {NoUser},
          identity : Identities \cup {NoIdentity}, email : Emails \cup {NoEmail}]
Idle == [op |-> "none", pc |-> "idle", browser |-> "none", user |-> NoUser, row |-> Unborn,
         state |-> NoState, provider |-> "none", link |-> NoUser, identity |-> NoIdentity,
         email |-> NoEmail]

\* The rows at the start are some that the code leaves: accounts have a user and a
\* user one of each provider, everybody has a way in, nobody is an administrator yet.
Consistent(s) ==
    /\ \A u \in Ids : s.users[u].role = "user"
    /\ \A u \in Ids : s.users[u].st = "live" =>
          u \in s.password \/ s.users[u].verified \/ \E a \in s.accounts : a.user = u
    /\ \A a \in s.accounts : s.users[a.user].st = "live"
    /\ \A a, b \in s.accounts : a.user = b.user /\ a.provider = b.provider => a = b

ASSUME RegistrationAssumption ==
    /\ AutoLink \in BOOLEAN /\ IsFiniteSet(Ids) /\ IsFiniteSet(Requests)
    /\ NoUser \notin Ids /\ NoState \notin States /\ NoEmail \notin Emails /\ "free" \notin Requests
    /\ Identities \subseteq [provider : Providers, sub : {i.sub : i \in Identities},
                             email : Emails \cup {NoEmail}, verified : BOOLEAN]
    /\ \A s \in Scenes :
          /\ s.ops \subseteq AllOps /\ s.users \in [Ids -> User] /\ s.password \subseteq Ids
          /\ s.accounts \subseteq Account /\ s.signed \in [Browsers -> Ids \cup {NoUser}]
          /\ Consistent(s)

Live(u) == u # NoUser /\ users[u].st = "live"
Taken(e) == {u \in Ids : Live(u) /\ users[u].email = e}
NewIds == {u \in Ids : users[u].st = "unborn"}
NewId == CHOOSE u \in NewIds : TRUE
\* bound: the rows left are more than those that running bootstraps will insert
SpareId == Cardinality(NewIds) > Cardinality({q \in Requests : req[q].pc = "create"})
NewStates == {s \in States : states[s].st = "unborn"}
Owner(p, sub) == {a \in accounts : a.provider = p /\ a.sub = sub}
AccountsOf(u) == {a \in accounts : a.user = u}
Begin(q, op, l) == scene.ops \cap {op} # {} /\ req[q].pc = "idle" /\ req' = [req EXCEPT ![q] = l]
Goto(q, pc) == req' = [req EXCEPT ![q].pc = pc]
End(q) == req' = [req EXCEPT ![q] = Idle]

Init ==
    /\ scene \in Scenes
    /\ users = scene.users /\ password = scene.password /\ accounts = scene.accounts
    /\ states = [s \in States |-> [st |-> "unborn", provider |-> "none", link |-> NoUser]]
    /\ cookie = [b \in Browsers |-> NoState] /\ signed = scene.signed
    /\ mailed = [e \in Emails |-> NoToken] /\ guard = NoUser
    /\ lock = [u \in Ids |-> "free"] /\ req = [q \in Requests |-> Idle]
    /\ uses = [s \in States |-> 0] /\ unlinked = {} /\ leftover = {} /\ hindered = FALSE

-----------------------------------------------------------------------------
(* Rows, sessions and the end of a request.                                *)

\* users().Create: the address is unique.
CreateRow(u, e, verified) ==
    users' = [users EXCEPT ![u] = [st |-> "live", email |-> e, verified |-> verified, role |-> "user"]]

\* issueSession: the foreign key refuses a user that was deleted meanwhile.
IssueSession(q) ==
    LET l == req[q] IN
    /\ l.pc = "session"
    /\ signed' = IF Live(l.user) THEN [signed EXCEPT ![l.browser] = l.user] ELSE signed
    /\ End(q)
    /\ UNCHANGED <<tables, states, cookie, mailed, lock, history>>

\* A user is deleted, by itself or by an administrator; the rows that name it go too.
DeleteUser(u) ==
    /\ "delete" \in scene.ops /\ Live(u) /\ lock[u] = "free"
    /\ users' = [users EXCEPT ![u].st = "gone"]
    /\ password' = password \ {u} /\ accounts' = accounts \ AccountsOf(u)
    /\ signed' = [b \in Browsers |-> IF signed[b] = u THEN NoUser ELSE signed[b]]
    /\ mailed' = [e \in Emails |-> IF mailed[e].user = u THEN NoToken ELSE mailed[e]]
    /\ UNCHANGED <<states, cookie, guard, lock, req, history>>

\* The process crashes, the store fails, or a hook refuses: what the request has
\* committed stays, the transaction it is in is rolled back.
Abort(q) ==
    LET l == req[q]
        left == l.pc \in {"claim", "remove", "grant"}
    IN
    /\ "abort" \in scene.ops /\ l.pc # "idle"
    /\ lock' = [u \in Ids |-> IF lock[u] = q THEN "free" ELSE lock[u]]
    /\ leftover' = IF left THEN leftover \cup {l.user} ELSE leftover
    /\ hindered' = (hindered \/ l.op = "bootstrap")
    /\ End(q)
    /\ UNCHANGED <<tables, states, browser, mailed, uses, unlinked>>

-----------------------------------------------------------------------------
(* Sign-up by password (handlers.go, users.go).                            *)

\* createUser: the row and the credential in one transaction.  The session follows
\* unless the address has to be verified first.
SignUp(q, b, e) ==
    /\ SpareId /\ Taken(e) = {}
    /\ CreateRow(NewId, e, FALSE) /\ password' = password \cup {NewId}
    /\ \/ Begin(q, "signup", [Idle EXCEPT !.op = "signup", !.pc = "session", !.browser = b, !.user = NewId])
       \/ Begin(q, "signup", Idle)
    /\ UNCHANGED <<accounts, guard, states, browser, mailed, lock, history>>

-----------------------------------------------------------------------------
(* External providers (handlers_oauth.go).                                 *)

\* startOAuth: a state row, and its cookie in the browser that asked.
StartOAuth(b, p, link) ==
    \E s \in NewStates :
        /\ s = CHOOSE t \in NewStates : TRUE
        /\ states' = [states EXCEPT ![s] = [st |-> "live", provider |-> p, link |-> link]]
        /\ cookie' = [cookie EXCEPT ![b] = s]
        /\ UNCHANGED <<tables, signed, mailed, lock, req, history>>

\* handleOAuthStart.
OAuthStart(b, p) == "oauth" \in scene.ops /\ StartOAuth(b, p, NoUser)

\* handleAccountLink: for the user of the session.
AccountLink(b, p) == "link" \in scene.ops /\ Live(signed[b]) /\ StartOAuth(b, p, signed[b])

\* The state expires, and DeleteExpired may remove it.
Expire(s) ==
    /\ "expire" \in scene.ops /\ states[s].st = "live"
    /\ states' = [states EXCEPT ![s].st = "expired"]
    /\ UNCHANGED <<tables, browser, mailed, lock, req, history>>

\* handleOAuthCallback: the browser sends the callback, once or again, with the
\* cookie that binds the state to it.  p is the provider of the path.
OAuthCallback(q, b, p) ==
    /\ cookie[b] # NoState /\ req[q].pc = "idle" /\ scene.ops \cap {"oauth", "link"} # {}
    /\ req' = [req EXCEPT ![q] = [Idle EXCEPT !.op = "oauth", !.pc = "consume", !.browser = b,
                                              !.state = cookie[b], !.provider = p]]
    /\ UNCHANGED <<tables, states, browser, mailed, lock, history>>

\* Mutant: the row is read, and marked later.
PeekState(q) ==
    LET l == req[q]
        s == l.state
    IN
    /\ l.pc = "consume"
    /\ cookie' = [cookie EXCEPT ![l.browser] = IF @ = s THEN NoState ELSE @]
    /\ states' = states
    /\ IF states[s].st = "live" /\ states[s].provider = l.provider
         THEN /\ req' = [req EXCEPT ![q].link = states[s].link,
                                    ![q].pc = IF states[s].link = NoUser THEN "exchange" ELSE "current"]
              /\ uses' = [uses EXCEPT ![s] = @ + 1]
         ELSE End(q) /\ uses' = uses
    /\ UNCHANGED <<tables, signed, mailed, lock, unlinked, leftover, hindered>>

\* The cookie is cleared, and one UPDATE consumes the state, also for the wrong
\* provider.
ConsumeState(q) ==
    LET l == req[q]
        s == l.state
    IN
    /\ l.pc = "consume"
    /\ cookie' = [cookie EXCEPT ![l.browser] = IF @ = s THEN NoState ELSE @]
    /\ states' = [states EXCEPT ![s].st = IF @ = "live" THEN "consumed" ELSE @]
    /\ IF states[s].st = "live" /\ states[s].provider = l.provider
         THEN /\ req' = [req EXCEPT ![q].link = states[s].link,
                                    ![q].pc = IF states[s].link = NoUser THEN "exchange" ELSE "current"]
              /\ uses' = [uses EXCEPT ![s] = @ + 1]
         ELSE End(q) /\ uses' = uses
    /\ UNCHANGED <<tables, signed, mailed, lock, unlinked, leftover, hindered>>

\* A link completes only for the signed-in user that started it.
CurrentUser(q) ==
    LET l == req[q] IN
    /\ l.pc = "current"
    /\ IF Live(signed[l.browser]) /\ signed[l.browser] = l.link THEN Goto(q, "exchange") ELSE End(q)
    /\ UNCHANGED <<tables, states, browser, mailed, lock, history>>

\* Exchange (external), then resolveOAuthUser looks for the account.
ResolveAccount(q, i) ==
    LET l == req[q]
        found == Owner(l.provider, i.sub)
    IN
    /\ l.pc = "exchange" /\ i.provider = l.provider
    /\ \/ /\ \E a \in found :
                IF l.link # NoUser /\ l.link # a.user THEN End(q)
                ELSE req' = [req EXCEPT ![q].identity = i, ![q].pc = "owner", ![q].user = a.user]
       \/ /\ found = {}
          /\ IF l.link # NoUser
               THEN req' = [req EXCEPT ![q].identity = i, ![q].pc = "link", ![q].user = l.link]
             ELSE IF i.email = NoEmail THEN End(q)
             ELSE req' = [req EXCEPT ![q].identity = i, ![q].pc = "email"]
    /\ UNCHANGED <<tables, states, browser, mailed, lock, history>>

\* GetByID of the owner of the account.
ReadOwner(q) ==
    /\ req[q].pc = "owner"
    /\ IF Live(req[q].user) THEN Goto(q, "session") ELSE End(q)
    /\ UNCHANGED <<tables, states, browser, mailed, lock, history>>

\* GetByNormalizedEmail: a matching address links only when the host allows it and
\* both sides have verified it.
ResolveEmail(q) ==
    LET i == req[q].identity
        found == Taken(i.email)
    IN
    /\ req[q].pc = "email"
    /\ \/ \E u \in found :
             IF AutoLink /\ i.verified /\ users[u].verified
               THEN req' = [req EXCEPT ![q].pc = "link", ![q].user = u] ELSE End(q)
       \/ found = {} /\ Goto(q, "insert")
    /\ UNCHANGED <<tables, states, browser, mailed, lock, history>>

\* Mutant: an account that somebody owns counts as linked.
LinkIfAbsent(q) ==
    LET l == req[q]
        a == [user |-> l.user, provider |-> l.provider, sub |-> l.identity.sub]
    IN
    /\ l.pc = "link"
    /\ accounts' = IF Live(l.user) /\ Owner(a.provider, a.sub) = {} THEN accounts \cup {a} ELSE accounts
    /\ Goto(q, "session")
    /\ UNCHANGED <<users, password, guard, states, browser, mailed, lock, history>>

\* linkAccount: one INSERT; an account has one owner, and a user one account of a
\* provider.
LinkAccount(q) ==
    LET l == req[q]
        a == [user |-> l.user, provider |-> l.provider, sub |-> l.identity.sub]
    IN
    /\ l.pc = "link"
    /\ IF Live(l.user) /\ Owner(a.provider, a.sub) = {} /\ \A o \in AccountsOf(l.user) : o.provider # a.provider
         THEN accounts' = accounts \cup {a} /\ Goto(q, "session")
         ELSE accounts' = accounts /\ End(q)
    /\ UNCHANGED <<users, password, guard, states, browser, mailed, lock, history>>

\* createUserWithAccount: both rows in one transaction, or none.
CreateWithAccount(q) ==
    LET l == req[q] IN
    /\ l.pc = "insert" /\ NewIds # {}
    /\ IF Taken(l.identity.email) = {} /\ Owner(l.provider, l.identity.sub) = {}
         THEN /\ CreateRow(NewId, l.identity.email, l.identity.verified)
              /\ accounts' = accounts \cup {[user |-> NewId, provider |-> l.provider, sub |-> l.identity.sub]}
              /\ req' = [req EXCEPT ![q].pc = "session", ![q].user = NewId]
         ELSE users' = users /\ accounts' = accounts /\ End(q)
    /\ UNCHANGED <<password, guard, states, browser, mailed, lock, history>>

-----------------------------------------------------------------------------
(* handleAccountUnlink.                                                    *)

\* requireUser, and GetByID in the transaction.
Unlink(q, b, p) ==
    /\ Live(signed[b])
    /\ Begin(q, "unlink", [Idle EXCEPT !.op = "unlink", !.pc = "lock", !.browser = b, !.provider = p,
                                       !.user = signed[b], !.row = users[signed[b]]])
    /\ UNCHANGED <<tables, states, browser, mailed, lock, history>>

\* Mutant: the transaction writes no row, so nothing holds another unlink back.
UnlinkNoLock(q) ==
    /\ req[q].pc = "lock"
    /\ IF Live(req[q].user) THEN Goto(q, "check") ELSE End(q)
    /\ UNCHANGED <<tables, states, browser, mailed, lock, history>>

\* Update of the whole row takes the row lock.
UnlinkLock(q) ==
    LET u == req[q].user IN
    /\ req[q].pc = "lock" /\ lock[u] = "free"
    /\ IF Live(u) THEN lock' = [lock EXCEPT ![u] = q] /\ Goto(q, "check")
                  ELSE lock' = lock /\ End(q)
    /\ UNCHANGED <<tables, states, browser, mailed, history>>

Release(q) == lock' = [u \in Ids |-> IF lock[u] = q THEN "free" ELSE lock[u]]

\* ListByUser and GetCredential: a user keeps a password or another account.
UnlinkCheck(q) ==
    LET l == req[q]
        list == AccountsOf(l.user)
    IN
    /\ l.pc = "check"
    /\ IF (\E a \in list : a.provider = l.provider) /\ (l.user \in password \/ Cardinality(list) > 1)
         THEN Goto(q, "delete") /\ lock' = lock
         ELSE End(q) /\ Release(q)
    /\ UNCHANGED <<tables, states, browser, mailed, history>>

\* Delete, and the commit, with the row that the transaction had read.
UnlinkDelete(q) ==
    LET l == req[q]
        gone == {a \in AccountsOf(l.user) : a.provider = l.provider}
    IN
    /\ l.pc = "delete"
    /\ accounts' = accounts \ gone /\ unlinked' = unlinked \cup gone
    /\ users' = IF gone # {} THEN [users EXCEPT ![l.user] = l.row] ELSE users
    /\ End(q) /\ Release(q)
    /\ UNCHANGED <<password, guard, states, browser, mailed, uses, leftover, hindered>>

-----------------------------------------------------------------------------
(* The magic link of an address (plugins/magiclink), with createUser set.  *)

\* send: the user of the address, if there is one.
SendLink(q, e) ==
    /\ \E u \in IF Taken(e) = {} THEN {NoUser} ELSE Taken(e) :
          Begin(q, "magic", [Idle EXCEPT !.op = "magic", !.pc = "issue", !.email = e, !.user = u])
    /\ UNCHANGED <<tables, states, browser, mailed, lock, history>>

\* issueToken with ReplaceExisting; the foreign key refuses a deleted user.
IssueToken(q) ==
    LET l == req[q] IN
    /\ l.pc = "issue"
    /\ mailed' = IF l.user # NoUser /\ ~Live(l.user) THEN mailed
                 ELSE [mailed EXCEPT ![l.email] = [st |-> "live", user |-> l.user]]
    /\ End(q)
    /\ UNCHANGED <<tables, states, browser, lock, history>>

\* completeVerify: consumeToken.
CompleteVerify(q, b, e) ==
    /\ mailed[e].st = "live"
    /\ Begin(q, "magic", [Idle EXCEPT !.op = "magic", !.pc = "resolve", !.browser = b, !.email = e,
                                      !.user = mailed[e].user])
    /\ mailed' = [mailed EXCEPT ![e] = NoToken]
    /\ UNCHANGED <<tables, states, browser, lock, history>>

\* resolveUser: the user of the token, the user of the address, or a new one.
ResolveUser(q) ==
    LET l == req[q]
        found == IF l.user # NoUser THEN {l.user} \cap {u \in Ids : Live(u)} ELSE Taken(l.email)
    IN
    /\ l.pc = "resolve"
    /\ \/ \E u \in found : req' = [req EXCEPT ![q].pc = "prove", ![q].user = u]
       \/ found = {} /\ l.user # NoUser /\ End(q)
       \/ found = {} /\ l.user = NoUser /\ Goto(q, "create")
    /\ UNCHANGED <<tables, states, browser, mailed, lock, history>>

\* createUser with a verified address.
CreateVerified(q) ==
    LET l == req[q] IN
    /\ l.pc = "create" /\ l.op = "magic" /\ NewIds # {}
    /\ IF Taken(l.email) = {}
         THEN CreateRow(NewId, l.email, TRUE) /\ req' = [req EXCEPT ![q].pc = "prove", ![q].user = NewId]
         ELSE users' = users /\ End(q)
    /\ UNCHANGED <<password, accounts, guard, states, browser, mailed, lock, history>>

\* proveEmailOwnership: GetByID.
ProveRead(q) ==
    LET u == req[q].user IN
    /\ req[q].pc = "prove"
    /\ IF ~Live(u) THEN End(q)
       ELSE req' = [req EXCEPT ![q].pc = IF users[u].verified THEN "session" ELSE "proven", ![q].row = users[u]]
    /\ UNCHANGED <<tables, states, browser, mailed, lock, history>>

\* The password and the sessions from before the proof go, the whole row is written.
ProveCommit(q) ==
    LET l == req[q] IN
    /\ l.pc = "proven" /\ lock[l.user] = "free"
    /\ IF Live(l.user)
         THEN /\ password' = password \ {l.user}
              /\ users' = [users EXCEPT ![l.user] = [l.row EXCEPT !.verified = TRUE]]
              /\ signed' = [b \in Browsers |-> IF signed[b] = l.user THEN NoUser ELSE signed[b]]
              /\ Goto(q, "session")
         ELSE UNCHANGED <<password, users, signed>> /\ End(q)
    /\ UNCHANGED <<accounts, guard, states, cookie, mailed, lock, history>>

-----------------------------------------------------------------------------
(* Bootstrap (plugins/admin/bootstrap.go).                                 *)

\* anyUserExists: a user row of any kind ends it.
Bootstrap(q, e) ==
    /\ SpareId /\ \A u \in Ids : ~Live(u)
    /\ Begin(q, "bootstrap", [Idle EXCEPT !.op = "bootstrap", !.pc = "create", !.email = e])
    /\ UNCHANGED <<tables, states, browser, mailed, lock, history>>

\* users.Create, without a credential.  A taken address ends it.
BootstrapCreate(q) ==
    LET l == req[q] IN
    /\ l.pc = "create" /\ l.op = "bootstrap" /\ NewIds # {}
    /\ IF Taken(l.email) = {}
         THEN /\ CreateRow(NewId, l.email, FALSE) /\ hindered' = hindered
              /\ req' = [req EXCEPT ![q].pc = "claim", ![q].user = NewId]
         ELSE /\ users' = users /\ End(q)
              /\ hindered' = (hindered \/ \E u \in Taken(l.email) : \A r \in Requests :
                                  ~(req[r].op = "bootstrap" /\ req[r].user = u))
    /\ UNCHANGED <<password, accounts, guard, states, browser, mailed, lock, uses, unlinked, leftover>>

\* Mutant: the guard row is written over.
ClaimAlways(q) ==
    LET l == req[q] IN
    /\ l.pc = "claim" /\ lock[l.user] = "free"
    /\ IF ~Live(l.user) THEN End(q) /\ hindered' = TRUE /\ UNCHANGED <<users, password, guard>>
       ELSE /\ guard' = l.user /\ password' = password \cup {l.user}
            /\ users' = [users EXCEPT ![l.user].role = "admin"]
            /\ End(q) /\ hindered' = hindered
    /\ UNCHANGED <<accounts, states, browser, mailed, lock, uses, unlinked, leftover>>

\* One transaction: claimBootstrap inserts the guard row, then the credential and
\* the row that Create returned, with the role of an administrator.
ClaimBootstrap(q) ==
    LET l == req[q] IN
    /\ l.pc = "claim" /\ lock[l.user] = "free"
    /\ IF guard # NoUser THEN Goto(q, "remove") /\ UNCHANGED <<users, password, guard, hindered>>
       ELSE IF ~Live(l.user) THEN End(q) /\ hindered' = TRUE /\ UNCHANGED <<users, password, guard>>
       ELSE /\ guard' = l.user /\ password' = password \cup {l.user}
            /\ users' = [users EXCEPT ![l.user] = [st |-> "live", email |-> l.email,
                                                   verified |-> FALSE, role |-> "admin"]]
            /\ End(q) /\ hindered' = hindered
    /\ UNCHANGED <<accounts, states, browser, mailed, lock, uses, unlinked, leftover>>

\* Mutant: the row stays.
KeepRow(q) ==
    /\ req[q].pc = "remove" /\ End(q)
    /\ UNCHANGED <<tables, states, browser, mailed, lock, history>>

\* Another instance won the race: the row of this one is deleted.
BootstrapRemove(q) ==
    LET u == req[q].user IN
    /\ req[q].pc = "remove" /\ lock[u] = "free"
    /\ users' = IF Live(u) THEN [users EXCEPT ![u].st = "gone"] ELSE users
    /\ password' = password \ {u} /\ accounts' = accounts \ AccountsOf(u)
    /\ signed' = [b \in Browsers |-> IF signed[b] = u THEN NoUser ELSE signed[b]]
    /\ mailed' = [e \in Emails |-> IF mailed[e].user = u THEN NoToken ELSE mailed[e]]
    /\ End(q)
    /\ UNCHANGED <<guard, states, cookie, lock, history>>

-----------------------------------------------------------------------------
(* CreateUser of plugins/admin.                                            *)

\* users.Create commits the row, without a credential.
AdminCreate(q, e) ==
    /\ SpareId /\ Taken(e) = {} /\ CreateRow(NewId, e, FALSE)
    /\ Begin(q, "admin", [Idle EXCEPT !.op = "admin", !.pc = "grant", !.email = e, !.user = NewId])
    /\ UNCHANGED <<password, accounts, guard, states, browser, mailed, lock, history>>

\* Mutant: the transaction sets the role and no password.
GrantRoleOnly(q) ==
    LET l == req[q] IN
    /\ l.pc = "grant" /\ lock[l.user] = "free" /\ End(q)
    /\ UNCHANGED <<tables, states, browser, mailed, lock, history>>

\* One transaction: the credential, and the row that Create returned with a role
\* (here one below the administrator) and the flag of a temporary password.
AdminGrant(q) ==
    LET l == req[q] IN
    /\ l.pc = "grant" /\ lock[l.user] = "free"
    /\ IF Live(l.user)
         THEN /\ password' = password \cup {l.user}
              /\ users' = [users EXCEPT ![l.user] = [st |-> "live", email |-> l.email,
                                                     verified |-> FALSE, role |-> "user"]]
         ELSE UNCHANGED <<password, users>>
    /\ End(q)
    /\ UNCHANGED <<accounts, guard, states, browser, mailed, lock, history>>

-----------------------------------------------------------------------------
\* A request that has begun goes on.
Continue(q) ==
    \/ ConsumeState(q) \/ CurrentUser(q) \/ ReadOwner(q) \/ ResolveEmail(q)
    \/ LinkAccount(q) \/ CreateWithAccount(q) \/ IssueSession(q)
    \/ \E i \in Identities : ResolveAccount(q, i)
    \/ UnlinkLock(q) \/ UnlinkCheck(q) \/ UnlinkDelete(q)
    \/ IssueToken(q) \/ ResolveUser(q) \/ CreateVerified(q) \/ ProveRead(q) \/ ProveCommit(q)
    \/ BootstrapCreate(q) \/ ClaimBootstrap(q) \/ BootstrapRemove(q) \/ AdminGrant(q)

Start ==
    \/ \E u \in Ids : DeleteUser(u)
    \/ \E s \in States : Expire(s)
    \/ \E b \in Browsers, p \in Providers : OAuthStart(b, p) \/ AccountLink(b, p)
    \/ \E q \in Requests, b \in Browsers, p \in Providers : OAuthCallback(q, b, p) \/ Unlink(q, b, p)
    \/ \E q \in Requests, e \in Emails :
          \/ SendLink(q, e) \/ Bootstrap(q, e) \/ AdminCreate(q, e)
          \/ \E b \in Browsers : SignUp(q, b, e) \/ CompleteVerify(q, b, e)

Next == (Start \/ \E q \in Requests : Continue(q) \/ Abort(q)) /\ UNCHANGED scene

\* A handler that has begun runs to its end unless something stops it.
Fairness == \A q \in Requests : WF_vars(Continue(q) /\ UNCHANGED scene)

Spec == Init /\ [][Next]_vars /\ Fairness

-----------------------------------------------------------------------------
(* Properties.                                                             *)

\* The types; an account belongs to a live user and a lock to a running unlink.
TypeOK ==
    /\ scene \in Scenes /\ users \in [Ids -> User] /\ password \subseteq Ids
    /\ accounts \subseteq Account /\ states \in [States -> State]
    /\ cookie \in [Browsers -> States \cup {NoState}] /\ signed \in [Browsers -> Ids \cup {NoUser}]
    /\ mailed \in [Emails -> Token] /\ guard \in Ids \cup {NoUser}
    /\ lock \in [Ids -> Requests \cup {"free"}] /\ req \in [Requests -> Local]
    /\ unlinked \subseteq Account /\ leftover \subseteq Ids /\ hindered \in BOOLEAN
    /\ uses \in [States -> Nat]
    /\ \A u \in Ids : lock[u] # "free" => req[lock[u]].user = u

WayIn(u) == u \in password \/ AccountsOf(u) # {} \/ users[u].verified

\* Every user can sign in: it has a password, an account or a proven address,
\* however unlink, the proof of the address and the links of the user interleave.
\* Only Bootstrap and CreateUser have a row without one, until their second part.
AlwaysAWayIn ==
    /\ TypeOK
    /\ \A u \in Ids : Live(u) /\ ~WayIn(u) =>
        \/ u \in leftover
        \/ \E q \in Requests : req[q].op \in {"bootstrap", "admin"} /\ req[q].user = u

\* A state serves one callback, however often and from however many requests at
\* once the browser delivers it.
StateOnce == \A s \in States : uses[s] <= 1

\* Whoever signs in through an identity gets the user that owns it: when the session
\* is issued, the account row names that user, or an unlink removed it or the user
\* was deleted since.  Two requests may link or register one identity at the same time.
SessionBehindAccount ==
    \A q \in Requests :
        LET l == req[q]
            a == [user |-> l.user, provider |-> l.provider, sub |-> l.identity.sub]
        IN  l.pc = "session" /\ l.op = "oauth" => a \in accounts \/ a \in unlinked \/ ~Live(l.user)

\* However many instances bootstrap at the same time, one administrator comes of it.
OneBootstrap == \A u \in Ids : users[u].role = "admin" => guard = u

\* A Bootstrap that found no user ends with an administrator, and without the row of
\* another one that lost the race, unless something ended it early or somebody else
\* registered its address.
BootstrapCompletes ==
    (\E q \in Requests : req[q].op = "bootstrap")
        ~> (hindered \/ (guard # NoUser /\ \A u \in Ids : Live(u) => WayIn(u)))
=============================================================================
