------------------------- MODULE RegistrationProofs -------------------------
(***************************************************************************)
(* For any number of users, providers, browsers and requests: a state and  *)
(* the bootstrap count once, a session that an identity opens is of the    *)
(* user who owns it, and everybody keeps a way in.                         *)
(* For any number of demotions and disables in parallel, an administrator  *)
(* is left.                                                                *)
(***************************************************************************)
EXTENDS Registration, FiniteSetTheorems, TLAPS

\* The flow that a program counter belongs to.
Flow(l) ==
    /\ l.pc \in {"consume", "current", "exchange", "owner", "email", "link", "insert"} => l.op = "oauth"
    /\ l.pc \in {"issue", "resolve", "prove", "proven"} => l.op = "magic"
    /\ l.pc \in {"lock", "check", "delete"} => l.op = "unlink"
    /\ l.pc \in {"claim", "remove"} => l.op = "bootstrap"
    /\ l.pc = "create" => l.op \in {"magic", "bootstrap"}
    /\ l.pc = "grant" => l.op = "admin"
    /\ l.pc = "session" => l.op \in {"signup", "oauth", "magic"}
    /\ l.pc = "idle" => l.op = "none"

\* The account of the identity, unless an unlink or the end of the user took it.
Backed(l) ==
    \/ [user |-> l.user, provider |-> l.provider, sub |-> l.identity.sub] \in accounts \cup unlinked
    \/ users[l.user].st = "gone"

\* What request q carries from one statement to the next.
Carries(q, l) ==
    /\ Flow(l)
    /\ l.pc = "consume" => l.state \in States
    /\ l.pc \in {"email", "link", "insert"} => l.identity \in Identities /\ l.provider \in Providers
    /\ l.pc \in {"owner", "session"} /\ l.op = "oauth" => l.user \in Ids /\ users[l.user].st # "unborn" /\ Backed(l)
    /\ l.pc \in {"lock", "check", "delete", "proven"} =>
          l.user \in Ids /\ l.row.st = "live" /\ (l.row.role = "admin" => guard = l.user)
    /\ l.pc \in {"check", "delete"} => lock[l.user] = q
    /\ l.pc = "delete" => l.user \in password \/ \E a \in AccountsOf(l.user) : a.provider # l.provider
    /\ l.pc \in {"claim", "remove", "grant"} => l.user \in Ids
    /\ l.pc = "create" /\ l.op = "bootstrap" => l.user = NoUser

\* Tables that only name users, and the states.
Aside ==
    /\ states \in [States -> State] /\ cookie \in [Browsers -> States \cup {NoState}]
    /\ signed \in [Browsers -> Ids \cup {NoUser}] /\ mailed \in [Emails -> Token]
    /\ hindered \in BOOLEAN /\ uses \in [States -> Nat]
    /\ \A s \in States : uses[s] <= 1 /\ (states[s].st \in {"unborn", "live"} => uses[s] = 0)

\* Users, accounts and the row of the bootstrap.
Rows ==
    /\ users \in [Ids -> User] /\ password \subseteq Ids /\ accounts \subseteq Account
    /\ guard \in Ids \cup {NoUser} /\ unlinked \subseteq Account /\ leftover \subseteq Ids
    /\ \A a \in accounts : users[a.user].st = "live"
    /\ \A a, b \in accounts : a.user = b.user /\ a.provider = b.provider => a = b
    /\ OneBootstrap

Locks ==
    /\ lock \in [Ids -> Requests \cup {"free"}]
    /\ \A u \in Ids : lock[u] # "free" => req[lock[u]].pc \in {"check", "delete"} /\ req[lock[u]].user = u

\* A row without a way in is the first part of a Bootstrap or a CreateUser.
Half(u) == u \in leftover \/ \E q \in Requests : req[q].op \in {"bootstrap", "admin"} /\ req[q].user = u
Ways == \A u \in Ids : users[u].st = "live" => WayIn(u) \/ Half(u)

Inv ==
    /\ scene \in Scenes /\ Aside /\ Rows /\ Locks /\ Ways
    /\ req \in [Requests -> Local] /\ \A q \in Requests : Carries(q, req[q])

-----------------------------------------------------------------------------
(* What a step of one request leaves to the others.                        *)

\* Users do not come back, the guard row stays, an account goes by an unlink or with
\* its user, and who holds the lock of a row keeps the ways in of its user.
Others(q) ==
    /\ \A u \in Ids : users[u].st # "unborn" =>
          users'[u].st # "unborn" /\ (users[u].st = "gone" => users'[u].st = "gone")
    /\ guard' = guard \/ guard = NoUser
    /\ \A a \in accounts : a \in accounts' \/ a \in unlinked' \/ users'[a.user].st = "gone"
    /\ unlinked \subseteq unlinked'
    /\ \A u \in Ids : lock[u] \in Requests \ {q} =>
          /\ lock'[u] = lock[u]
          /\ u \in password => u \in password'
          /\ \A a \in accounts : a.user = u => a \in accounts'

LEMMA CarriesStays ==
    ASSUME Inv, NEW q, Others(q), NEW p \in Requests \ {q}, NEW l \in Local, Carries(p, l)
    PROVE  Carries(p, l)'
<1>1. guard \in Ids => guard' = guard
  BY RegistrationAssumption DEF Others
<1>2. ASSUME l.pc \in {"owner", "session"}, l.op = "oauth"
      PROVE  users'[l.user].st # "unborn" /\ Backed(l)'
  <2>1. l.user \in Ids /\ users[l.user].st # "unborn" /\ Backed(l)
    BY <1>2 DEF Carries
  <2>. DEFINE a == [user |-> l.user, provider |-> l.provider, sub |-> l.identity.sub]
  <2>2. a.user = l.user
    OBVIOUS
  <2>3. a \in accounts \/ a \in unlinked \/ users[l.user].st = "gone"
    BY <2>1 DEF Backed
  <2>. HIDE DEF a
  <2>4. a \in accounts' \/ a \in unlinked' \/ users'[l.user].st = "gone"
    BY <2>1, <2>2, <2>3 DEF Others
  <2>. QED  BY <2>1, <2>4 DEF Others, Backed, a
<1>3. ASSUME l.pc \in {"check", "delete"}
      PROVE  /\ lock'[l.user] = p
             /\ l.user \in password => l.user \in password'
             /\ AccountsOf(l.user) \subseteq AccountsOf(l.user)'
  BY <1>3 DEF Carries, Others, AccountsOf
<1>. QED  BY <1>1, <1>2, <1>3 DEF Carries

\* The request that a user without a way in waits for is another one, or still runs.
LEMMA HalfStays ==
    ASSUME Inv, NEW q, NEW m, req' \in [Requests -> Local], \A p \in Requests \ {q} : req'[p] = req[p],
           q \in Requests => req'[q] = m,
           leftover \subseteq leftover', NEW u \in Ids, Half(u),
           q \in Requests /\ req[q].op \in {"bootstrap", "admin"} /\ req[q].user = u =>
               (m.op = req[q].op /\ m.user = u) \/ u \in leftover'
    PROVE  Half(u)'
<1>1. CASE u \in leftover
  BY <1>1 DEF Half
<1>2. ASSUME NEW p \in Requests, req[p].op \in {"bootstrap", "admin"}, req[p].user = u PROVE Half(u)'
  <2>1. CASE p = q
    BY <1>2, <2>1 DEF Half
  <2>2. CASE p # q
    <3>1. req'[p] = req[p]
      BY <2>2
    <3>. QED  BY <1>2, <3>1 DEF Half
  <2>. QED  BY <2>1, <2>2
<1>. QED  BY <1>1, <1>2 DEF Half

-----------------------------------------------------------------------------
(* Steps that write no row of a user.                                      *)

LEMMA StepNames ==
    /\ "idle" \in Steps /\ "consume" \in Steps /\ "current" \in Steps /\ "exchange" \in Steps /\ "owner" \in Steps
    /\ "email" \in Steps /\ "link" \in Steps /\ "insert" \in Steps /\ "session" \in Steps /\ "lock" \in Steps
    /\ "check" \in Steps /\ "delete" \in Steps /\ "issue" \in Steps /\ "resolve" \in Steps /\ "create" \in Steps
    /\ "prove" \in Steps /\ "proven" \in Steps /\ "claim" \in Steps /\ "remove" \in Steps /\ "grant" \in Steps
    /\ "signup" \in AllOps /\ "oauth" \in AllOps /\ "unlink" \in AllOps /\ "magic" \in AllOps /\ "bootstrap" \in AllOps
    /\ "admin" \in AllOps
BY DEF Steps, AllOps

LEMMA IdleRequest ==
    /\ Idle \in Local /\ Idle.pc = "idle" /\ Idle.op = "none" /\ Idle.user = NoUser /\ Idle.state = NoState
    /\ Idle.provider = "none" /\ Idle.row = Unborn
BY StepNames DEF Idle, Local, User, Unborn

LEMMA IdleCarries == ASSUME NEW q PROVE Carries(q, Idle)
BY IdleRequest DEF Carries, Flow

\* Request q goes from what it was to m.
Moves(q, m) ==
    /\ req' = [req EXCEPT ![q] = m]
    /\ \A u \in Ids : lock[u] = q => m.pc \in {"check", "delete"} /\ m.user = u
    /\ req[q].op \in {"bootstrap", "admin"} /\ req[q].user # NoUser => m.op = req[q].op /\ m.user = req[q].user

LEMMA MoveKeeps ==
    ASSUME Inv, NEW q \in Requests, NEW m \in Local, Moves(q, m), Carries(q, m), Aside',
           UNCHANGED <<scene, tables, lock, unlinked, leftover>>
    PROVE  Inv'
<1>1. /\ users' = users /\ password' = password /\ accounts' = accounts /\ guard' = guard
      /\ lock' = lock /\ unlinked' = unlinked /\ leftover' = leftover /\ scene' = scene
  BY DEF tables
<1>2. /\ req' \in [Requests -> Local] /\ req'[q] = m
      /\ \A p \in Requests \ {q} : req'[p] = req[p]
  BY DEF Inv, Moves
<1>3. Others(q)
  BY <1>1 DEF Others
<1>4. \A p \in Requests : Carries(p, req[p])'
  <2>1. ASSUME NEW p \in Requests, p # q PROVE Carries(p, req[p])'
    <3>1. PICK l \in Local : l = req[p]
      BY DEF Inv
    <3>2. Carries(p, l)'
      BY <1>3, <2>1, <3>1, CarriesStays DEF Inv
    <3>3. req'[p] = l
      BY <1>2, <2>1, <3>1
    <3>. QED  BY <3>2, <3>3 DEF Carries, Flow, Backed
  <2>2. Carries(q, req[q])'
    BY <1>1, <1>2 DEF Carries, Flow, Backed, AccountsOf
  <2>. QED  BY <2>1, <2>2
<1>5. Rows'
  BY <1>1 DEF Inv, Rows, OneBootstrap
<1>6. Locks'
  BY <1>1, <1>2 DEF Inv, Locks, Moves
<1>7. Ways'
  <2>1. ASSUME NEW u \in Ids, users'[u].st = "live" PROVE WayIn(u)' \/ Half(u)'
    <3>1. CASE WayIn(u)
      BY <1>1, <3>1 DEF WayIn, AccountsOf
    <3>2. CASE Half(u)
      <4>1. u # NoUser
        BY RegistrationAssumption
      <4>. QED  BY <1>1, <1>2, <3>2, <4>1, HalfStays DEF Moves
    <3>. QED  BY <1>1, <2>1, <3>1, <3>2 DEF Inv, Ways
  <2>. QED  BY <2>1 DEF Ways
<1>. QED  BY <1>1, <1>2, <1>4, <1>5, <1>6, <1>7 DEF Inv

\* A request that ends, but for the ones that hold a lock or a row without a way in.
LEMMA EndMoves ==
    ASSUME Inv, NEW q \in Requests, End(q), req[q].pc \notin {"check", "delete", "claim", "remove", "grant"}
    PROVE  Moves(q, Idle)
<1>1. req[q] \in Local /\ Carries(q, req[q])
  BY DEF Inv
<1>2. \A u \in Ids : lock[u] # q
  BY RegistrationAssumption DEF Inv, Locks
<1>3. req[q].op \in {"bootstrap", "admin"} => req[q].pc = "create" /\ req[q].op = "bootstrap"
  BY <1>1 DEF Carries, Flow, Local, Steps
<1>. QED  BY <1>1, <1>2, <1>3 DEF Moves, End, Carries

LEMMA EndKeeps ==
    ASSUME Inv, NEW q \in Requests, End(q), req[q].pc \notin {"check", "delete", "claim", "remove", "grant"},
           Aside', UNCHANGED <<scene, tables, lock, unlinked, leftover>>
    PROVE  Inv'
BY EndMoves, IdleRequest, IdleCarries, MoveKeeps

\* A request of another flow than Bootstrap and CreateUser that goes on, without a lock.
LEMMA GoOnKeeps ==
    ASSUME Inv, NEW q \in Requests, NEW m \in Local, req' = [req EXCEPT ![q] = m], Carries(q, m),
           req[q].pc \notin {"check", "delete"}, req[q].op \notin {"bootstrap", "admin"},
           Aside', UNCHANGED <<scene, tables, lock, unlinked, leftover>>
    PROVE  Inv'
<1>1. \A u \in Ids : lock[u] # q
  BY RegistrationAssumption DEF Inv, Locks
<1>2. Moves(q, m)
  BY <1>1 DEF Moves
<1>. QED  BY <1>2, MoveKeeps

LEMMA AsideStays == Inv /\ UNCHANGED <<states, browser, mailed, hindered, uses>> => Aside'
BY DEF Inv, Aside, browser

\* No request moves.
LEMMA NobodyMoves ==
    ASSUME Inv, req' = req, Aside', UNCHANGED <<scene, tables, lock, unlinked, leftover>>
    PROVE  Inv'
<1>1. /\ users' = users /\ password' = password /\ accounts' = accounts /\ guard' = guard
      /\ lock' = lock /\ unlinked' = unlinked /\ leftover' = leftover /\ scene' = scene /\ req' = req
  BY DEF tables
<1>2. \A q \in Requests : Carries(q, req[q])'
  BY <1>1 DEF Inv, Carries, Flow, Backed, AccountsOf
<1>3. Rows' /\ Locks' /\ Ways'
  BY <1>1 DEF Inv, Rows, Locks, Ways, Half, WayIn, AccountsOf, OneBootstrap
<1>. QED  BY <1>1, <1>2, <1>3 DEF Inv

LEMMA StartOAuthKeeps ==
    ASSUME Inv, scene' = scene, NEW b \in Browsers, NEW p \in Providers,
           OAuthStart(b, p) \/ AccountLink(b, p)
    PROVE  Inv'
<1>1. PICK link \in Ids \cup {NoUser} : StartOAuth(b, p, link)
  BY DEF OAuthStart, AccountLink, Inv, Aside
<1>2. PICK s \in NewStates :
        /\ states' = [states EXCEPT ![s] = [st |-> "live", provider |-> p, link |-> link]]
        /\ cookie' = [cookie EXCEPT ![b] = s]
        /\ UNCHANGED <<tables, signed, mailed, lock, req, history>>
  BY <1>1 DEF StartOAuth
<1>3. s \in States /\ states[s].st = "unborn"
  BY DEF NewStates
<1>4. [st |-> "live", provider |-> p, link |-> link] \in State
  BY DEF State
<1>5. Aside'
  BY <1>2, <1>3, <1>4 DEF Inv, Aside, history
<1>. QED  BY <1>2, <1>5, NobodyMoves DEF history

LEMMA ExpireKeeps == ASSUME Inv, scene' = scene, NEW s \in States, Expire(s) PROVE Inv'
<1>1. states' = [states EXCEPT ![s].st = "expired"]
  BY DEF Expire
<1>2. [states[s] EXCEPT !.st = "expired"] \in State
  BY DEF Inv, Aside, State
<1>3. Aside'
  BY <1>1, <1>2 DEF Expire, Inv, Aside, browser, history
<1>. QED  BY <1>3, NobodyMoves DEF Expire, history

LEMMA OAuthCallbackKeeps ==
    ASSUME Inv, scene' = scene, NEW q \in Requests, NEW b \in Browsers, NEW p \in Providers, OAuthCallback(q, b, p)
    PROVE  Inv'
<1>. DEFINE m == [Idle EXCEPT !.op = "oauth", !.pc = "consume", !.browser = b, !.state = cookie[b], !.provider = p]
<1>1. cookie[b] \in States /\ "consume" \in Steps /\ "oauth" \in AllOps
  BY StepNames DEF Inv, Aside, OAuthCallback
<1>2. m \in Local /\ m.pc = "consume" /\ m.op = "oauth" /\ m.state = cookie[b]
  BY <1>1, IdleRequest DEF Local
<1>3. Carries(q, m)
  BY <1>1, <1>2 DEF Carries, Flow
<1>4. req' = [req EXCEPT ![q] = m] /\ req[q].pc = "idle"
  BY DEF OAuthCallback
<1>. HIDE DEF m
<1>5. req[q].op = "none"
  BY <1>4 DEF Inv, Carries, Flow
<1>. QED  BY <1>2, <1>3, <1>4, <1>5, AsideStays, GoOnKeeps DEF OAuthCallback, history

LEMMA ConsumeStateKeeps == ASSUME Inv, scene' = scene, NEW q \in Requests, ConsumeState(q) PROVE Inv'
<1>. DEFINE s == req[q].state
            ok == states[s].st = "live" /\ states[s].provider = req[q].provider
            pc == IF states[s].link = NoUser THEN "exchange" ELSE "current"
            m == [req[q] EXCEPT !.link = states[s].link, !.pc = pc]
<1>1. req[q] \in Local /\ req[q].pc = "consume" /\ req[q].op = "oauth" /\ s \in States /\ states[s] \in State
  BY DEF Inv, Aside, Carries, Flow, ConsumeState
<1>2. /\ cookie' \in [Browsers -> States \cup {NoState}]
      /\ states' = [states EXCEPT ![s].st = IF @ = "live" THEN "consumed" ELSE @]
      /\ uses' = IF ok THEN [uses EXCEPT ![s] = @ + 1] ELSE uses
      /\ IF ok THEN req' = [req EXCEPT ![q] = m] ELSE End(q)
      /\ UNCHANGED <<tables, signed, mailed, lock, unlinked, leftover, hindered>>
  BY DEF Inv, Aside, ConsumeState
<1>3. Aside'
  <2>. DEFINE new == [states[s] EXCEPT !.st = IF @ = "live" THEN "consumed" ELSE @]
  <2>1. new \in State /\ new.st = IF states[s].st = "live" THEN "consumed" ELSE states[s].st
    BY <1>1 DEF State
  <2>x. states' = [states EXCEPT ![s] = new]
    BY <1>2
  <2>. HIDE DEF new
  <2>2. states' \in [States -> State]
    BY <1>1, <2>x, <2>1 DEF Inv, Aside
  <2>3. /\ states'[s].st = IF states[s].st = "live" THEN "consumed" ELSE states[s].st
        /\ \A t \in States \ {s} : states'[t] = states[t]
    BY <1>1, <2>x, <2>1 DEF Inv, Aside
  <2>4. /\ uses' \in [States -> Nat]
        /\ \A t \in States \ {s} : uses'[t] = uses[t]
        /\ uses'[s] = IF ok THEN uses[s] + 1 ELSE uses[s]
    BY <1>1, <1>2 DEF Inv, Aside
  <2>5. uses[s] \in Nat /\ uses[s] <= 1 /\ (states[s].st \in {"unborn", "live"} => uses[s] = 0)
    BY <1>1 DEF Inv, Aside
  <2>6. uses'[s] <= 1 /\ (states'[s].st \in {"unborn", "live"} => uses'[s] = 0)
    BY <2>3, <2>4, <2>5
  <2>7. \A t \in States : uses'[t] <= 1 /\ (states'[t].st \in {"unborn", "live"} => uses'[t] = 0)
    BY <2>3, <2>4, <2>6 DEF Inv, Aside
  <2>. QED  BY <1>2, <2>2, <2>4, <2>7 DEF Inv, Aside
<1>4. CASE ok
  <2>0. pc \in Steps /\ pc \in {"exchange", "current"} /\ states[s].link \in Ids \cup {NoUser}
    BY <1>1, StepNames DEF State
  <2>. HIDE DEF pc
  <2>1. m \in Local /\ m.pc = pc /\ m.op = "oauth"
    BY <1>1, <2>0 DEF Local
  <2>2. Carries(q, m)
    BY <2>0, <2>1 DEF Carries, Flow
  <2>3. req' = [req EXCEPT ![q] = m]
    BY <1>2, <1>4 DEF pc
  <2>. HIDE DEF m, ok
  <2>. QED  BY <1>1, <1>2, <1>3, <2>1, <2>2, <2>3, GoOnKeeps
<1>5. CASE ~ok
  BY <1>1, <1>2, <1>3, <1>5, EndKeeps
<1>. QED  BY <1>4, <1>5

\* A statement that only moves the counter of its request.
LEMMA GotoKeeps ==
    ASSUME Inv, scene' = scene, NEW q \in Requests, NEW pc \in Steps, Goto(q, pc),
           Carries(q, [req[q] EXCEPT !.pc = pc]),
           req[q].pc \notin {"check", "delete"}, req[q].op \notin {"bootstrap", "admin"},
           UNCHANGED <<tables, states, browser, mailed, lock, history>>
    PROVE  Inv'
<1>. DEFINE m == [req[q] EXCEPT !.pc = pc]
<1>1. m \in Local /\ req' = [req EXCEPT ![q] = m]
  BY DEF Inv, Goto, Local
<1>. HIDE DEF m
<1>. QED  BY <1>1, AsideStays, GoOnKeeps DEF history, m

LEMMA CurrentUserKeeps == ASSUME Inv, scene' = scene, NEW q \in Requests, CurrentUser(q) PROVE Inv'
<1>1. req[q] \in Local /\ req[q].pc = "current" /\ req[q].op = "oauth"
  BY DEF Inv, Carries, Flow, CurrentUser
<1>2. Carries(q, [req[q] EXCEPT !.pc = "exchange"])
  BY <1>1 DEF Carries, Flow, Local
<1>3. CASE Goto(q, "exchange")
  BY <1>1, <1>2, <1>3, GotoKeeps, StepNames DEF CurrentUser
<1>4. CASE End(q)
  BY <1>1, <1>4, EndKeeps, AsideStays DEF CurrentUser, history
<1>. QED  BY <1>3, <1>4 DEF CurrentUser

LEMMA ResolveAccountKeeps ==
    ASSUME Inv, scene' = scene, NEW q \in Requests, NEW i \in Identities, ResolveAccount(q, i) PROVE Inv'
<1>. DEFINE l == req[q]
<1>1. /\ l \in Local /\ l.pc = "exchange" /\ l.op = "oauth" /\ i.provider = l.provider /\ l.provider \in Providers
      /\ UNCHANGED <<tables, states, browser, mailed, lock, history>>
  BY RegistrationAssumption DEF Inv, Carries, Flow, ResolveAccount
<1>2. CASE End(q)
  BY <1>1, <1>2, EndKeeps, AsideStays DEF history
<1>3. ASSUME NEW a \in Owner(l.provider, i.sub),
             req' = [req EXCEPT ![q].identity = i, ![q].pc = "owner", ![q].user = a.user]
      PROVE  Inv'
  <2>. DEFINE m == [l EXCEPT !.identity = i, !.pc = "owner", !.user = a.user]
  <2>1. a \in accounts /\ a \in Account /\ a.provider = l.provider /\ a.sub = i.sub /\ a.user \in Ids
        /\ users[a.user].st # "unborn"
    BY DEF Owner, Inv, Rows, Account
  <2>2. m.pc = "owner" /\ m.op = "oauth" /\ m.user = a.user /\ m.identity = i /\ m.provider = l.provider
    BY <1>1 DEF Local
  <2>6. m \in Local
    BY <1>1, <2>1, StepNames DEF Local
  <2>3. a = [user |-> m.user, provider |-> m.provider, sub |-> m.identity.sub]
    BY <2>1, <2>2 DEF Account
  <2>4. req' = [req EXCEPT ![q] = m]
    BY <1>3
  <2>. HIDE DEF m
  <2>5. Carries(q, m)
    BY <2>1, <2>2, <2>3 DEF Carries, Flow, Backed
  <2>. QED  BY <1>1, <2>2, <2>4, <2>5, <2>6, GoOnKeeps, AsideStays DEF history
<1>4. ASSUME req' = [req EXCEPT ![q].identity = i, ![q].pc = "link", ![q].user = l.link] PROVE Inv'
  <2>. DEFINE m == [l EXCEPT !.identity = i, !.pc = "link", !.user = l.link]
  <2>0. m.pc = "link" /\ m.op = "oauth" /\ m.identity = i /\ m.provider = l.provider
    BY <1>1 DEF Local
  <2>1. m \in Local
    BY <1>1, StepNames DEF Local
  <2>2. Carries(q, m) /\ req' = [req EXCEPT ![q] = m]
    BY <1>1, <1>4, <2>0 DEF Carries, Flow
  <2>. HIDE DEF m
  <2>. QED  BY <1>1, <2>0, <2>1, <2>2, GoOnKeeps, AsideStays DEF history
<1>5. ASSUME req' = [req EXCEPT ![q].identity = i, ![q].pc = "email"] PROVE Inv'
  <2>. DEFINE m == [l EXCEPT !.identity = i, !.pc = "email"]
  <2>0. m.pc = "email" /\ m.op = "oauth" /\ m.identity = i /\ m.provider = l.provider
    BY <1>1 DEF Local
  <2>1. m \in Local
    BY <1>1, StepNames DEF Local
  <2>2. Carries(q, m) /\ req' = [req EXCEPT ![q] = m]
    BY <1>1, <1>5, <2>0 DEF Carries, Flow
  <2>. HIDE DEF m
  <2>. QED  BY <1>1, <2>0, <2>1, <2>2, GoOnKeeps, AsideStays DEF history
<1>. QED  BY <1>2, <1>3, <1>4, <1>5 DEF ResolveAccount

LEMMA ReadOwnerKeeps == ASSUME Inv, scene' = scene, NEW q \in Requests, ReadOwner(q) PROVE Inv'
<1>1. req[q] \in Local /\ req[q].pc = "owner" /\ req[q].op = "oauth" /\ Carries(q, req[q])
  BY DEF Inv, Carries, Flow, ReadOwner
<1>2. Carries(q, [req[q] EXCEPT !.pc = "session"])
  BY <1>1 DEF Carries, Flow, Local, Backed
<1>3. CASE Goto(q, "session")
  BY <1>1, <1>2, <1>3, GotoKeeps, StepNames DEF ReadOwner
<1>4. CASE End(q)
  BY <1>1, <1>4, EndKeeps, AsideStays DEF ReadOwner, history
<1>. QED  BY <1>3, <1>4 DEF ReadOwner

LEMMA ResolveEmailKeeps == ASSUME Inv, scene' = scene, NEW q \in Requests, ResolveEmail(q) PROVE Inv'
<1>1. /\ req[q] \in Local /\ req[q].pc = "email" /\ req[q].op = "oauth" /\ Carries(q, req[q])
      /\ UNCHANGED <<tables, states, browser, mailed, lock, history>>
  BY DEF Inv, Carries, Flow, ResolveEmail
<1>2. CASE End(q)
  BY <1>1, <1>2, EndKeeps, AsideStays DEF history
<1>3. ASSUME NEW u \in Ids, req' = [req EXCEPT ![q].pc = "link", ![q].user = u] PROVE Inv'
  <2>. DEFINE m == [req[q] EXCEPT !.pc = "link", !.user = u]
  <2>1. m \in Local /\ m.pc = "link" /\ m.op = "oauth" /\ m.identity = req[q].identity /\ m.provider = req[q].provider
    BY <1>1, StepNames DEF Local
  <2>2. Carries(q, m) /\ req' = [req EXCEPT ![q] = m]
    BY <1>1, <1>3, <2>1 DEF Carries, Flow
  <2>. HIDE DEF m
  <2>. QED  BY <1>1, <2>1, <2>2, GoOnKeeps, AsideStays DEF history
<1>4. CASE Goto(q, "insert")
  <2>1. Carries(q, [req[q] EXCEPT !.pc = "insert"])
    BY <1>1 DEF Carries, Flow, Local
  <2>. QED  BY <1>1, <1>4, <2>1, GotoKeeps, StepNames
<1>. QED  BY <1>2, <1>3, <1>4 DEF ResolveEmail, Taken

LEMMA IssueSessionKeeps == ASSUME Inv, scene' = scene, NEW q \in Requests, IssueSession(q) PROVE Inv'
<1>1. req[q] \in Local /\ req[q].pc = "session"
  BY DEF Inv, IssueSession
<1>2. signed' \in [Browsers -> Ids \cup {NoUser}]
  BY <1>1 DEF Inv, Aside, IssueSession, Local
<1>3. Aside'
  BY <1>2 DEF Inv, Aside, IssueSession, history
<1>. QED  BY <1>1, <1>3, EndKeeps DEF IssueSession, history

\* A request begins.
LEMMA BeginKeeps ==
    ASSUME Inv, scene' = scene, NEW q \in Requests, NEW op, NEW m \in Local, Begin(q, op, m), Carries(q, m),
           Aside', UNCHANGED <<tables, lock, unlinked, leftover>>
    PROVE  Inv'
<1>1. req' = [req EXCEPT ![q] = m] /\ req[q].pc = "idle"
  BY DEF Begin
<1>2. req[q].op = "none"
  BY <1>1 DEF Inv, Carries, Flow
<1>. QED  BY <1>1, <1>2, GoOnKeeps

LEMMA UnlinkKeeps ==
    ASSUME Inv, scene' = scene, NEW q \in Requests, NEW b \in Browsers, NEW p \in Providers, Unlink(q, b, p)
    PROVE  Inv'
<1>. DEFINE u == signed[b]
            m == [Idle EXCEPT !.op = "unlink", !.pc = "lock", !.browser = b, !.provider = p, !.user = u,
                              !.row = users[u]]
<1>1. /\ u \in Ids /\ users[u] \in User /\ users[u].st = "live" /\ (users[u].role = "admin" => guard = u)
      /\ "lock" \in Steps /\ "unlink" \in AllOps
  BY StepNames DEF Inv, Aside, Rows, OneBootstrap, Unlink, Live
<1>2. m \in Local /\ m.pc = "lock" /\ m.op = "unlink" /\ m.user = u /\ m.row = users[u]
  BY <1>1, IdleRequest DEF Local
<1>3. Begin(q, "unlink", m) /\ UNCHANGED <<tables, states, browser, mailed, lock, history>>
  BY DEF Unlink
<1>. HIDE DEF m
<1>4. Carries(q, m)
  BY <1>1, <1>2 DEF Carries, Flow
<1>. QED  BY <1>2, <1>3, <1>4, BeginKeeps, AsideStays DEF history

LEMMA SendLinkKeeps ==
    ASSUME Inv, scene' = scene, NEW q \in Requests, NEW e \in Emails, SendLink(q, e) PROVE Inv'
<1>1. PICK u \in Ids \cup {NoUser} :
        Begin(q, "magic", [Idle EXCEPT !.op = "magic", !.pc = "issue", !.email = e, !.user = u])
  BY DEF SendLink, Taken
<1>. DEFINE m == [Idle EXCEPT !.op = "magic", !.pc = "issue", !.email = e, !.user = u]
<1>2. "issue" \in Steps /\ "magic" \in AllOps
  BY StepNames
<1>3. Idle \in Local
  BY IdleRequest
<1>4. m \in Local
  BY <1>2, <1>3 DEF Local
<1>5. m.pc = "issue" /\ m.op = "magic"
  BY <1>3 DEF Local
<1>6. Begin(q, "magic", m)
  BY <1>1
<1>. HIDE DEF m
<1>7. Carries(q, m)
  BY <1>5 DEF Carries, Flow
<1>. QED  BY <1>4, <1>5, <1>6, <1>7, BeginKeeps, AsideStays DEF SendLink, history

LEMMA IssueTokenKeeps == ASSUME Inv, scene' = scene, NEW q \in Requests, IssueToken(q) PROVE Inv'
<1>1. req[q] \in Local /\ req[q].pc = "issue"
  BY DEF Inv, IssueToken
<1>2. [st |-> "live", user |-> req[q].user] \in Token
  BY <1>1 DEF Token, Local
<1>3. mailed' \in [Emails -> Token]
  BY <1>1, <1>2 DEF Inv, Aside, IssueToken
<1>4. Aside'
  BY <1>3 DEF Inv, Aside, IssueToken, history, browser
<1>. QED  BY <1>1, <1>4, EndKeeps DEF IssueToken, history

LEMMA CompleteVerifyKeeps ==
    ASSUME Inv, scene' = scene, NEW q \in Requests, NEW b \in Browsers, NEW e \in Emails, CompleteVerify(q, b, e)
    PROVE  Inv'
<1>. DEFINE m == [Idle EXCEPT !.op = "magic", !.pc = "resolve", !.browser = b, !.email = e, !.user = mailed[e].user]
<1>1. "resolve" \in Steps /\ "magic" \in AllOps /\ mailed[e].user \in Ids \cup {NoUser} /\ NoToken \in Token
  BY StepNames DEF Inv, Aside, Token, NoToken
<1>2. m \in Local /\ m.pc = "resolve" /\ m.op = "magic"
  BY <1>1, IdleRequest DEF Local
<1>3. Begin(q, "magic", m)
  BY DEF CompleteVerify
<1>. HIDE DEF m
<1>4. Aside'
  BY <1>1 DEF Inv, Aside, CompleteVerify, history, browser
<1>5. Carries(q, m)
  BY <1>2 DEF Carries, Flow
<1>. QED  BY <1>2, <1>3, <1>4, <1>5, BeginKeeps DEF CompleteVerify, history

LEMMA ResolveUserKeeps == ASSUME Inv, scene' = scene, NEW q \in Requests, ResolveUser(q) PROVE Inv'
<1>1. /\ req[q] \in Local /\ req[q].pc = "resolve" /\ req[q].op = "magic"
      /\ UNCHANGED <<tables, states, browser, mailed, lock, history>>
  BY DEF Inv, Carries, Flow, ResolveUser
<1>2. CASE End(q)
  BY <1>1, <1>2, EndKeeps, AsideStays DEF history
<1>3. ASSUME NEW u \in Ids, req' = [req EXCEPT ![q].pc = "prove", ![q].user = u] PROVE Inv'
  <2>. DEFINE m == [req[q] EXCEPT !.pc = "prove", !.user = u]
  <2>1. m \in Local /\ m.pc = "prove" /\ m.op = "magic"
    BY <1>1, StepNames DEF Local
  <2>2. Carries(q, m) /\ req' = [req EXCEPT ![q] = m]
    BY <1>3, <2>1 DEF Carries, Flow
  <2>. HIDE DEF m
  <2>. QED  BY <1>1, <2>1, <2>2, GoOnKeeps, AsideStays DEF history
<1>4. CASE Goto(q, "create")
  <2>1. Carries(q, [req[q] EXCEPT !.pc = "create"])
    BY <1>1 DEF Carries, Flow, Local
  <2>. QED  BY <1>1, <1>4, <2>1, GotoKeeps, StepNames
<1>. QED  BY <1>2, <1>3, <1>4 DEF ResolveUser, Taken

LEMMA ProveReadKeeps == ASSUME Inv, scene' = scene, NEW q \in Requests, ProveRead(q) PROVE Inv'
<1>. DEFINE u == req[q].user
            pc == IF users[u].verified THEN "session" ELSE "proven"
            m == [req[q] EXCEPT !.pc = pc, !.row = users[u]]
<1>1. /\ req[q] \in Local /\ req[q].pc = "prove" /\ req[q].op = "magic"
      /\ UNCHANGED <<tables, states, browser, mailed, lock, history>>
  BY DEF Inv, Carries, Flow, ProveRead
<1>2. CASE ~Live(u)
  BY <1>1, <1>2, EndKeeps, AsideStays DEF ProveRead, history
<1>3. CASE Live(u)
  <2>1. u \in Ids /\ users[u] \in User /\ users[u].st = "live" /\ (users[u].role = "admin" => guard = u)
    BY <1>1, <1>3 DEF Inv, Rows, OneBootstrap, Live, Local
  <2>2. pc \in Steps /\ pc \in {"session", "proven"} /\ req' = [req EXCEPT ![q] = m]
    BY <1>3, StepNames DEF ProveRead
  <2>. HIDE DEF pc
  <2>3. m \in Local /\ m.pc = pc /\ m.op = "magic" /\ m.user = u /\ m.row = users[u]
    BY <1>1, <2>1, <2>2 DEF Local
  <2>. HIDE DEF m, u
  <2>4. Carries(q, m)
    BY <2>1, <2>2, <2>3 DEF Carries, Flow
  <2>. QED  BY <1>1, <2>2, <2>3, <2>4, GoOnKeeps, AsideStays DEF history
<1>. QED  BY <1>2, <1>3

LEMMA BootstrapKeeps ==
    ASSUME Inv, scene' = scene, NEW q \in Requests, NEW e \in Emails, Bootstrap(q, e) PROVE Inv'
<1>. DEFINE m == [Idle EXCEPT !.op = "bootstrap", !.pc = "create", !.email = e]
<1>1. "create" \in Steps /\ "bootstrap" \in AllOps
  BY StepNames
<1>2. m \in Local /\ m.pc = "create" /\ m.op = "bootstrap" /\ m.user = NoUser
  BY <1>1, IdleRequest DEF Local
<1>3. Begin(q, "bootstrap", m)
  BY DEF Bootstrap
<1>. HIDE DEF m
<1>4. Carries(q, m)
  BY <1>2 DEF Carries, Flow
<1>. QED  BY <1>2, <1>3, <1>4, BeginKeeps, AsideStays DEF Bootstrap, history

-----------------------------------------------------------------------------
(* Steps that write rows of users, accounts or locks.                      *)

\* The parts of the invariant, put together: q is the request that moves, if any.
LEMMA StepKeeps ==
    ASSUME Inv, scene' = scene, NEW q, req' \in [Requests -> Local],
           \A p \in Requests \ {q} : req'[p] = req[p],
           q \in Requests => Carries(q, req[q])',
           Others(q), Aside', Rows', Locks', Ways'
    PROVE  Inv'
<1>1. ASSUME NEW p \in Requests, p # q PROVE Carries(p, req[p])'
  <2>1. PICK l \in Local : l = req[p]
    BY DEF Inv
  <2>2. Carries(p, l)'
    BY <1>1, <2>1, CarriesStays DEF Inv
  <2>3. req'[p] = l
    BY <1>1, <2>1
  <2>. QED  BY <2>2, <2>3 DEF Carries, Flow, Backed
<1>. QED  BY <1>1 DEF Inv

\* The users of before have the ways in that they had, and q may end when its user
\* has one.
LEMMA WaysStay ==
    ASSUME Inv, NEW q, req' \in [Requests -> Local], \A p \in Requests \ {q} : req'[p] = req[p],
           leftover \subseteq leftover',
           \A u \in Ids : users'[u].st = "live" =>
               \/ users[u].st = "live" /\ (WayIn(u) => WayIn(u)')
               \/ WayIn(u)' \/ Half(u)',
           \A u \in Ids : q \in Requests /\ req[q].op \in {"bootstrap", "admin"} /\ req[q].user = u =>
               \/ req'[q].op = req[q].op /\ req'[q].user = u
               \/ WayIn(u)' \/ users'[u].st # "live" \/ u \in leftover'
    PROVE  Ways'
<1>1. ASSUME NEW u \in Ids, users'[u].st = "live" PROVE WayIn(u)' \/ Half(u)'
  <2>1. CASE WayIn(u)' \/ Half(u)'
    BY <2>1
  <2>2. CASE users[u].st = "live" /\ (WayIn(u) => WayIn(u)') /\ ~WayIn(u)'
    <3>1. Half(u)
      BY <2>2 DEF Inv, Ways
    <3>2. q \in Requests /\ req[q].op \in {"bootstrap", "admin"} /\ req[q].user = u =>
            (req'[q].op = req[q].op /\ req'[q].user = u) \/ u \in leftover'
      BY <1>1, <2>2
    <3>3. Half(u)'
      BY <3>1, <3>2, HalfStays
    <3>. QED  BY <3>3
  <2>. QED  BY <1>1, <2>1, <2>2
<1>. QED  BY <1>1 DEF Ways

\* A request without a lock goes on and nobody's lock changes.
LEMMA LocksStay ==
    ASSUME Inv, NEW q \in Requests, req[q].pc \notin {"check", "delete"}, req' \in [Requests -> Local],
           \A p \in Requests \ {q} : req'[p] = req[p], lock' = lock
    PROVE  Locks'
<1>1. \A u \in Ids : lock[u] # q
  BY RegistrationAssumption DEF Inv, Locks
<1>. QED  BY <1>1 DEF Inv, Locks

\* A new row of a user who has a way in, or whose request has its second part to come.
LEMMA NewUserKeeps ==
    ASSUME Inv, scene' = scene, NEW q \in Requests, NEW m \in Local, req' = [req EXCEPT ![q] = m],
           req[q].pc \notin {"check", "delete"}, req[q].op \in {"bootstrap", "admin"} => req[q].user = NoUser,
           NEW n \in NewIds, NEW row \in User, row.st = "live", row.role = "user",
           users' = [users EXCEPT ![n] = row], password' \in {password, password \cup {n}},
           NEW new \in SUBSET Account, accounts' = accounts \cup new,
           \A a \in new : a.user = n, \A a, b \in new : a = b,
           row.verified \/ n \in password' \/ new # {} \/ (m.op \in {"bootstrap", "admin"} /\ m.user = n),
           UNCHANGED <<guard, lock, unlinked, leftover>>, Aside', Carries(q, m)'
    PROVE  Inv'
<1>1. n \in Ids /\ users[n].st = "unborn" /\ users \in [Ids -> User]
  BY DEF NewIds, Inv, Rows
<1>2. req' \in [Requests -> Local] /\ req'[q] = m /\ \A p \in Requests \ {q} : req'[p] = req[p]
  BY DEF Inv
<1>3. users' \in [Ids -> User] /\ users'[n] = row /\ \A u \in Ids \ {n} : users'[u] = users[u]
  BY <1>1
<1>4. \A a \in accounts : a.user \in Ids /\ a.user # n /\ users[a.user].st = "live"
  BY <1>1 DEF Inv, Rows, Account
<1>5. Others(q)
  BY <1>1, <1>3, <1>4 DEF Others
<1>6. Rows'
  BY <1>1, <1>3, <1>4 DEF Inv, Rows, OneBootstrap
<1>7. Ways'
  <2>1. ASSUME NEW u \in Ids, u # n PROVE users'[u] = users[u] /\ (WayIn(u) => WayIn(u)')
    BY <1>3, <2>1 DEF WayIn, AccountsOf
  <2>2. WayIn(n)' \/ Half(n)'
    BY <1>2, <1>3 DEF WayIn, AccountsOf, Half
  <2>3. NoUser \notin Ids
    BY RegistrationAssumption
  <2>. QED  BY <1>1, <1>2, <2>1, <2>2, <2>3, WaysStay
<1>8. Carries(q, req[q])'
  BY <1>2 DEF Carries, Flow, Backed, AccountsOf
<1>. QED  BY <1>2, <1>5, <1>6, <1>7, <1>8, LocksStay, StepKeeps

\* The row of a live user is written, and the user keeps a way in.
LEMMA WriteKeeps ==
    ASSUME Inv, scene' = scene, NEW q \in Requests, NEW m \in Local, req' = [req EXCEPT ![q] = m],
           NEW u \in Ids, users[u].st = "live", req[q].op \in {"bootstrap", "admin"} => req[q].user = u,
           NEW row \in User, row.st = "live", users' = [users EXCEPT ![u] = row],
           guard' \in Ids \cup {NoUser}, guard' = guard \/ guard = NoUser, row.role = "admin" => guard' = u,
           password' \subseteq Ids, \A v \in Ids \ {u} : v \in password => v \in password',
           NEW gone \in SUBSET AccountsOf(u), accounts' = accounts \ gone, unlinked' = unlinked \cup gone,
           leftover' = leftover, lock[u] \in {"free", q}, \A v \in Ids : lock[v] \in Requests \ {q} => lock'[v] = lock[v],
           WayIn(u)', Aside', Locks', Carries(q, m)'
    PROVE  Inv'
<1>1. req' \in [Requests -> Local] /\ req'[q] = m /\ \A p \in Requests \ {q} : req'[p] = req[p]
  BY DEF Inv
<1>2. users' \in [Ids -> User] /\ users'[u] = row /\ \A v \in Ids \ {u} : users'[v] = users[v]
  BY DEF Inv, Rows
<1>3. gone \subseteq accounts /\ (\A a \in gone : a.user = u) /\ accounts \subseteq Account
  BY DEF AccountsOf, Inv, Rows
<1>4. Others(q)
  BY <1>2, <1>3, RegistrationAssumption DEF Others
<1>5. Rows'
  <2>1. accounts' \subseteq accounts /\ unlinked' \subseteq Account /\ \A a \in accounts : a.user \in Ids
    BY <1>3 DEF Inv, Rows, Account
  <2>2. \A v \in Ids : users'[v].role = "admin" => guard' = v
    BY <1>2, RegistrationAssumption DEF Inv, Rows, OneBootstrap
  <2>. QED  BY <1>2, <2>1, <2>2 DEF Inv, Rows, OneBootstrap
<1>6. Ways'
  <2>1. ASSUME NEW v \in Ids, v # u PROVE users'[v] = users[v] /\ (WayIn(v) => WayIn(v)')
    BY <1>2, <1>3, <2>1 DEF WayIn, AccountsOf
  <2>. QED  BY <1>1, <2>1, WaysStay
<1>7. Carries(q, req[q])'
  BY <1>1 DEF Carries, Flow, Backed, AccountsOf
<1>. QED  BY <1>1, <1>4, <1>5, <1>6, <1>7, StepKeeps

\* A user goes with the rows that name it.
LEMMA RemoveKeeps ==
    ASSUME Inv, scene' = scene, NEW q, req' \in [Requests -> Local], \A p \in Requests \ {q} : req'[p] = req[p],
           NEW u \in Ids, lock[u] = "free", q \in Requests /\ req[q].op \in {"bootstrap", "admin"} => req[q].user = u,
           users' = IF Live(u) THEN [users EXCEPT ![u].st = "gone"] ELSE users,
           password' = password \ {u}, accounts' = accounts \ AccountsOf(u),
           UNCHANGED <<guard, lock, unlinked, leftover>>, Aside', Locks',
           q \in Requests => Carries(q, req[q])'
    PROVE  Inv'
<1>1. users \in [Ids -> User] /\ u # NoUser
  BY RegistrationAssumption DEF Inv, Rows
<1>2. [users[u] EXCEPT !.st = "gone"] \in User
  BY <1>1 DEF User
<1>3. /\ users' \in [Ids -> User] /\ users'[u].st # "live" /\ users'[u].role = users[u].role
      /\ users[u].st # "unborn" => users'[u].st = "gone"
      /\ \A v \in Ids \ {u} : users'[v] = users[v]
  BY <1>1, <1>2 DEF User, Live
<1>4. (\A a \in accounts : a \in accounts' \/ a.user = u) /\ accounts \subseteq Account
  BY DEF AccountsOf, Inv, Rows
<1>5. Others(q)
  BY <1>3, <1>4, RegistrationAssumption DEF Others, Inv, Rows
<1>6. Rows'
  <2>1. accounts' \subseteq accounts /\ \A a \in accounts' : a.user \in Ids /\ a.user # u
    BY DEF Inv, Rows, Account, AccountsOf
  <2>. QED  BY <1>3, <2>1 DEF Inv, Rows, OneBootstrap
<1>7. Ways'
  <2>1. ASSUME NEW v \in Ids, v # u PROVE users'[v] = users[v] /\ (WayIn(v) => WayIn(v)')
    BY <1>3, <1>4, <2>1 DEF WayIn, AccountsOf
  <2>. QED  BY <1>3, <2>1, WaysStay
<1>. QED  BY <1>5, <1>6, <1>7, StepKeeps

\* A request ends and gives its lock back.
LEMMA ReleaseKeeps ==
    ASSUME Inv, scene' = scene, NEW q \in Requests, End(q), Release(q), UNCHANGED <<tables, unlinked>>,
           leftover \subseteq leftover', leftover' \subseteq Ids, Aside',
           req[q].op \in {"bootstrap", "admin"} /\ req[q].user \in Ids => req[q].user \in leftover'
    PROVE  Inv'
<1>1. /\ users' = users /\ password' = password /\ accounts' = accounts /\ guard' = guard /\ unlinked' = unlinked
  BY DEF tables
<1>2. req' \in [Requests -> Local] /\ req'[q] = Idle /\ \A p \in Requests \ {q} : req'[p] = req[p]
  BY IdleRequest DEF Inv, End
<1>3. \A u \in Ids : lock'[u] = IF lock[u] = q THEN "free" ELSE lock[u]
  BY DEF Release
<1>4. Others(q)
  BY <1>1, <1>3, RegistrationAssumption DEF Others
<1>5. Rows'
  BY <1>1 DEF Inv, Rows, OneBootstrap
<1>6. Locks'
  BY <1>2, <1>3 DEF Inv, Locks, Release
<1>7. Ways'
  <2>1. ASSUME NEW u \in Ids PROVE WayIn(u) => WayIn(u)'
    BY <1>1 DEF WayIn, AccountsOf
  <2>. QED  BY <1>1, <1>2, <2>1, WaysStay
<1>8. Carries(q, req[q])'
  <2>1. Carries(q, Idle)'
    BY IdleRequest DEF Carries, Flow
  <2>. QED  BY <1>2, <2>1 DEF Carries, Flow, Backed
<1>. QED  BY <1>2, <1>4, <1>5, <1>6, <1>7, <1>8, StepKeeps

-----------------------------------------------------------------------------
(* The operations that write.                                              *)

LEMMA SpareIdIsNew == Inv /\ (SpareId \/ NewIds # {}) => NewId \in NewIds
<1>1. ASSUME NewIds = {} PROVE ~SpareId
  <2>. DEFINE C == {q \in Requests : req[q].pc = "create"}
  <2>1. IsFiniteSet(C)
    BY FS_Subset, RegistrationAssumption
  <2>2. Cardinality(C) \in Nat /\ Cardinality(NewIds) = 0
    BY <1>1, <2>1, FS_CardinalityType, FS_EmptySet
  <2>. HIDE DEF C
  <2>3. ~(Cardinality(NewIds) > Cardinality(C))
    BY <2>2
  <2>. QED  BY <2>3 DEF SpareId, C
<1>. QED  BY <1>1 DEF NewId

\* The row of a new user.
NewRow(e, v) == [st |-> "live", email |-> e, verified |-> v, role |-> "user"]

LEMMA CreatedRow ==
    ASSUME NEW e \in Emails \cup {NoEmail}, NEW v \in BOOLEAN
    PROVE  /\ NewRow(e, v) \in User /\ NewRow(e, v).st = "live" /\ NewRow(e, v).role = "user"
           /\ NewRow(e, v).verified = v
           /\ \A u : CreateRow(u, e, v) => users' = [users EXCEPT ![u] = NewRow(e, v)]
BY DEF NewRow, User, CreateRow

LEMMA SignUpKeeps ==
    ASSUME Inv, scene' = scene, NEW q \in Requests, NEW b \in Browsers, NEW e \in Emails, SignUp(q, b, e)
    PROVE  Inv'
<1>1. PICK n \in Ids : n = NewId /\ n \in NewIds
  BY SpareIdIsNew DEF SignUp, NewIds
<1>. DEFINE m1 == [Idle EXCEPT !.op = "signup", !.pc = "session", !.browser = b, !.user = n]
            row == NewRow(e, FALSE)
<1>2. "session" \in Steps /\ "signup" \in AllOps
  BY StepNames
<1>3. m1 \in Local /\ m1.pc = "session" /\ m1.op = "signup"
  BY <1>1, <1>2, IdleRequest DEF Local
<1>4. PICK m \in {m1, Idle} : Begin(q, "signup", m)
  BY <1>1 DEF SignUp
<1>. HIDE DEF m1
<1>5. m \in Local /\ Carries(q, m)'
  BY <1>3, <1>4, IdleRequest DEF Carries, Flow
<1>6. /\ row \in User /\ row.st = "live" /\ row.role = "user" /\ users' = [users EXCEPT ![n] = row]
      /\ password' = password \cup {n}
      /\ UNCHANGED <<accounts, guard, states, browser, mailed, lock, history>>
  BY <1>1, CreatedRow DEF SignUp
<1>7. req' = [req EXCEPT ![q] = m] /\ req[q].pc = "idle" /\ req[q].op = "none"
  BY <1>4 DEF Begin, Inv, Carries, Flow
<1>8. accounts' = accounts \cup {} /\ Aside'
  BY <1>6, AsideStays DEF history
<1>. HIDE DEF row
<1>9. n \in password' /\ UNCHANGED <<guard, lock, unlinked, leftover>>
  BY <1>6 DEF history
<1>. QED  BY <1>1, <1>5, <1>6, <1>7, <1>8, <1>9, NewUserKeeps

LEMMA CreateWithAccountKeeps == ASSUME Inv, scene' = scene, NEW q \in Requests, CreateWithAccount(q) PROVE Inv'
<1>1. PICK l \in Local : l = req[q]
  BY DEF Inv
<1>2. PICK n \in Ids : n = NewId /\ n \in NewIds
  BY SpareIdIsNew DEF CreateWithAccount, NewIds
<1>. DEFINE a == [user |-> n, provider |-> l.provider, sub |-> l.identity.sub]
            m == [l EXCEPT !.pc = "session", !.user = n]
            row == NewRow(l.identity.email, l.identity.verified)
<1>3. /\ l.pc = "insert" /\ l.op = "oauth" /\ l.identity \in Identities /\ l.provider \in Providers
      /\ UNCHANGED <<password, guard, states, browser, mailed, lock, history>>
  BY <1>1 DEF Inv, Carries, Flow, CreateWithAccount
<1>4. CASE End(q) /\ users' = users /\ accounts' = accounts
  BY <1>1, <1>3, <1>4, EndKeeps, AsideStays DEF history, tables
<1>5. CASE /\ CreateRow(n, l.identity.email, l.identity.verified) /\ accounts' = accounts \cup {a}
           /\ req' = [req EXCEPT ![q] = m]
  <2>1. l.identity.email \in Emails \cup {NoEmail} /\ l.identity.verified \in BOOLEAN
    BY <1>3, RegistrationAssumption
  <2>2. a \in Account /\ a.user = n
    BY <1>3 DEF Account
  <2>3. /\ m \in Local /\ m.pc = "session" /\ m.op = "oauth" /\ m.user = n
        /\ m.provider = l.provider /\ m.identity = l.identity
    BY <1>3, StepNames DEF Local
  <2>4. row \in User /\ row.st = "live" /\ row.role = "user" /\ users' = [users EXCEPT ![n] = row]
    BY <1>5, <2>1, CreatedRow
  <2>5. users'[n].st = "live"
    BY <2>4 DEF Inv, Rows
  <2>6. a = [user |-> m.user, provider |-> m.provider, sub |-> m.identity.sub] /\ a \in accounts'
    BY <1>5, <2>3
  <2>. DEFINE new == {a}
  <2>7. /\ req' = [req EXCEPT ![q] = m]
        /\ new \in SUBSET Account /\ accounts' = accounts \cup new /\ new # {}
        /\ (\A x \in new : x.user = n) /\ \A x, y \in new : x = y
    BY <1>5, <2>2
  <2>. HIDE DEF a, m, row, new
  <2>8. Carries(q, m)'
    BY <2>3, <2>5, <2>6 DEF Carries, Flow, Backed
  <2>9. Aside' /\ UNCHANGED <<password, guard, lock, unlinked, leftover>>
    BY <1>3, AsideStays DEF history
  <2>. QED  BY <1>1, <1>2, <1>3, <2>3, <2>4, <2>7, <2>8, <2>9, NewUserKeeps
<1>. QED  BY <1>1, <1>2, <1>4, <1>5 DEF CreateWithAccount

LEMMA CreateVerifiedKeeps == ASSUME Inv, scene' = scene, NEW q \in Requests, CreateVerified(q) PROVE Inv'
<1>1. PICK l \in Local : l = req[q]
  BY DEF Inv
<1>2. PICK n \in Ids : n = NewId /\ n \in NewIds
  BY SpareIdIsNew DEF CreateVerified, NewIds
<1>. DEFINE m == [l EXCEPT !.pc = "prove", !.user = n]
            row == NewRow(l.email, TRUE)
<1>3. /\ l.pc = "create" /\ l.op = "magic"
      /\ UNCHANGED <<password, accounts, guard, states, browser, mailed, lock, history>>
  BY <1>1 DEF CreateVerified
<1>4. CASE End(q) /\ users' = users
  BY <1>1, <1>3, <1>4, EndKeeps, AsideStays DEF history, tables
<1>5. CASE CreateRow(n, l.email, TRUE) /\ req' = [req EXCEPT ![q] = m]
  <2>1. m \in Local /\ m.pc = "prove" /\ m.op = "magic"
    BY <1>3, StepNames DEF Local
  <2>2. l.email \in Emails \cup {NoEmail}
    BY DEF Local
  <2>3. row \in User /\ row.st = "live" /\ row.role = "user" /\ row.verified /\ users' = [users EXCEPT ![n] = row]
    BY <1>5, <2>2, CreatedRow
  <2>4. req' = [req EXCEPT ![q] = m] /\ accounts' = accounts \cup {}
    BY <1>3, <1>5
  <2>. HIDE DEF m, row
  <2>5. Carries(q, m)'
    BY <2>1 DEF Carries, Flow
  <2>6. Aside' /\ UNCHANGED <<password, guard, lock, unlinked, leftover>>
    BY <1>3, AsideStays DEF history
  <2>. QED  BY <1>1, <1>2, <1>3, <2>1, <2>3, <2>4, <2>5, <2>6, NewUserKeeps
<1>. QED  BY <1>1, <1>2, <1>4, <1>5 DEF CreateVerified

LEMMA AdminCreateKeeps ==
    ASSUME Inv, scene' = scene, NEW q \in Requests, NEW e \in Emails, AdminCreate(q, e) PROVE Inv'
<1>1. PICK n \in Ids : n = NewId /\ n \in NewIds
  BY SpareIdIsNew DEF AdminCreate, NewIds
<1>. DEFINE m == [Idle EXCEPT !.op = "admin", !.pc = "grant", !.email = e, !.user = n]
            row == NewRow(e, FALSE)
<1>2. "grant" \in Steps /\ "admin" \in AllOps
  BY StepNames
<1>3. m \in Local /\ m.pc = "grant" /\ m.op = "admin" /\ m.user = n
  BY <1>2, IdleRequest DEF Local
<1>4. /\ row \in User /\ row.st = "live" /\ row.role = "user" /\ users' = [users EXCEPT ![n] = row]
      /\ UNCHANGED <<password, accounts, guard, states, browser, mailed, lock, history>>
  BY <1>1, CreatedRow DEF AdminCreate
<1>5. req' = [req EXCEPT ![q] = m] /\ req[q].pc = "idle" /\ req[q].op = "none"
  BY <1>1 DEF AdminCreate, Begin, Inv, Carries, Flow
<1>6. accounts' = accounts \cup {} /\ Aside'
  BY <1>4, AsideStays DEF history
<1>. HIDE DEF m, row
<1>7. Carries(q, m)'
  BY <1>3 DEF Carries, Flow
<1>. QED  BY <1>1, <1>3, <1>4, <1>5, <1>6, <1>7, NewUserKeeps DEF history

LEMMA BootstrapCreateKeeps == ASSUME Inv, scene' = scene, NEW q \in Requests, BootstrapCreate(q) PROVE Inv'
<1>1. PICK l \in Local : l = req[q]
  BY DEF Inv
<1>2. PICK n \in Ids : n = NewId /\ n \in NewIds
  BY SpareIdIsNew DEF BootstrapCreate, NewIds
<1>. DEFINE m == [l EXCEPT !.pc = "claim", !.user = n]
            row == NewRow(l.email, FALSE)
<1>3. /\ l.pc = "create" /\ l.op = "bootstrap" /\ l.user = NoUser
      /\ UNCHANGED <<password, accounts, guard, states, browser, mailed, lock, uses, unlinked, leftover>>
  BY <1>1 DEF Inv, Carries, BootstrapCreate
<1>4. hindered' \in BOOLEAN
  BY DEF Inv, Aside, BootstrapCreate
<1>5. Aside'
  BY <1>3, <1>4 DEF Inv, Aside, browser
<1>6. CASE End(q) /\ users' = users
  BY <1>1, <1>3, <1>5, <1>6, EndKeeps DEF tables
<1>7. CASE CreateRow(n, l.email, FALSE) /\ req' = [req EXCEPT ![q] = m]
  <2>1. "claim" \in Steps
    BY StepNames
  <2>1a. m \in Local /\ m.pc = "claim" /\ m.op = "bootstrap" /\ m.user = n
    BY <1>3, <2>1 DEF Local
  <2>2. l.email \in Emails \cup {NoEmail}
    BY DEF Local
  <2>3. row \in User /\ row.st = "live" /\ row.role = "user" /\ users' = [users EXCEPT ![n] = row]
    BY <1>7, <2>2, CreatedRow
  <2>4. req' = [req EXCEPT ![q] = m] /\ accounts' = accounts \cup {}
    BY <1>3, <1>7
  <2>. HIDE DEF m, row
  <2>5. Carries(q, m)'
    BY <2>1a DEF Carries, Flow
  <2>. QED  BY <1>1, <1>2, <1>3, <1>5, <2>1a, <2>3, <2>4, <2>5, NewUserKeeps
<1>. QED  BY <1>1, <1>2, <1>6, <1>7 DEF BootstrapCreate

\* The sessions and mailed tokens of a user who goes.
LEMMA ForgottenTypes ==
    ASSUME Inv, NEW u \in Ids,
           signed' = [b \in Browsers |-> IF signed[b] = u THEN NoUser ELSE signed[b]],
           mailed' = [e \in Emails |-> IF mailed[e].user = u THEN NoToken ELSE mailed[e]],
           UNCHANGED <<states, cookie, hindered, uses>>
    PROVE  Aside'
<1>1. NoToken \in Token
  BY DEF NoToken, Token
<1>. QED  BY <1>1 DEF Inv, Aside

LEMMA DeleteUserKeeps == ASSUME Inv, scene' = scene, NEW u \in Ids, DeleteUser(u) PROVE Inv'
<1>1. Aside'
  BY ForgottenTypes DEF DeleteUser, history
<1>2. /\ lock[u] = "free" /\ users' = IF Live(u) THEN [users EXCEPT ![u].st = "gone"] ELSE users
      /\ password' = password \ {u} /\ accounts' = accounts \ AccountsOf(u)
      /\ UNCHANGED <<guard, lock, unlinked, leftover>> /\ req' = req
  BY DEF DeleteUser, history
<1>3. Locks' /\ req' \in [Requests -> Local]
  BY <1>2 DEF Inv, Locks
<1>4. "free" \notin Requests
  BY RegistrationAssumption
<1>. QED  BY <1>1, <1>2, <1>3, <1>4, RemoveKeeps

LEMMA BootstrapRemoveKeeps == ASSUME Inv, scene' = scene, NEW q \in Requests, BootstrapRemove(q) PROVE Inv'
<1>1. PICK u \in Ids : u = req[q].user /\ req[q].pc = "remove" /\ lock[u] = "free"
  BY DEF Inv, Carries, BootstrapRemove
<1>2. Aside'
  BY <1>1, ForgottenTypes DEF BootstrapRemove, history
<1>3. /\ users' = IF Live(u) THEN [users EXCEPT ![u].st = "gone"] ELSE users
      /\ password' = password \ {u} /\ accounts' = accounts \ AccountsOf(u)
      /\ UNCHANGED <<guard, lock, unlinked, leftover>>
  BY <1>1 DEF BootstrapRemove, history
<1>4. req' \in [Requests -> Local] /\ req'[q] = Idle /\ \A p \in Requests \ {q} : req'[p] = req[p]
  BY IdleRequest DEF Inv, End, BootstrapRemove
<1>5. Locks'
  BY <1>1, <1>3, <1>4, LocksStay
<1>6. Carries(q, req[q])'
  <2>1. Carries(q, Idle)'
    BY IdleRequest DEF Carries, Flow
  <2>. QED  BY <1>4, <2>1 DEF Carries, Flow, Backed
<1>. QED  BY <1>1, <1>2, <1>3, <1>4, <1>5, <1>6, RemoveKeeps

LEMMA AbortKeeps == ASSUME Inv, scene' = scene, NEW q \in Requests, Abort(q) PROVE Inv'
<1>1. PICK l \in Local : l = req[q] /\ Carries(q, l)
  BY DEF Inv
<1>2. Aside'
  BY DEF Abort, Inv, Aside, browser
<1>3. l.op \in {"bootstrap", "admin"} => l.pc \in {"claim", "remove", "grant"} \/ l.user = NoUser
  BY <1>1 DEF Carries, Flow, Local, Steps
<1>4. leftover \subseteq leftover' /\ leftover' \subseteq Ids
  BY <1>1 DEF Abort, Inv, Rows, Carries
<1>5. l.op \in {"bootstrap", "admin"} /\ l.user \in Ids => l.user \in leftover'
  BY <1>1, <1>3, RegistrationAssumption DEF Abort
<1>. QED  BY <1>1, <1>2, <1>4, <1>5, ReleaseKeeps DEF Abort, Release

LEMMA LinkAccountKeeps == ASSUME Inv, scene' = scene, NEW q \in Requests, LinkAccount(q) PROVE Inv'
<1>1. PICK l \in Local : l = req[q] /\ Carries(q, l)
  BY DEF Inv
<1>. DEFINE a == [user |-> l.user, provider |-> l.provider, sub |-> l.identity.sub]
            m == [l EXCEPT !.pc = "session"]
<1>2. /\ l.pc = "link" /\ l.op = "oauth" /\ l.identity \in Identities /\ l.provider \in Providers
      /\ UNCHANGED <<users, password, guard, states, browser, mailed, lock, history>>
  BY <1>1 DEF Carries, Flow, LinkAccount
<1>3. Aside'
  BY <1>2, AsideStays DEF history
<1>4. CASE accounts' = accounts /\ End(q)
  BY <1>1, <1>2, <1>3, <1>4, EndKeeps DEF tables, history
<1>5. CASE /\ Live(l.user) /\ \A o \in AccountsOf(l.user) : o.provider # a.provider
           /\ accounts' = accounts \cup {a} /\ Goto(q, "session")
  <2>1. l.user \in Ids /\ users[l.user].st = "live"
    BY <1>5 DEF Live, Local
  <2>2. a \in Account /\ a.user = l.user /\ a.provider = l.provider
    BY <1>2, <2>1 DEF Account
  <2>3. m \in Local /\ m.pc = "session" /\ m.op = "oauth" /\ m.user = l.user
        /\ m.provider = l.provider /\ m.identity = l.identity
    BY <1>2, StepNames DEF Local
  <2>4. a = [user |-> m.user, provider |-> m.provider, sub |-> m.identity.sub] /\ a \in accounts'
    BY <1>5, <2>3
  <2>5. req' = [req EXCEPT ![q] = m]
    BY <1>1, <1>5 DEF Goto
  <2>6. \A o \in accounts : o.user = l.user => o.provider # l.provider
    BY <1>5, <2>2 DEF AccountsOf
  <2>7. accounts' = accounts \cup {a}
    BY <1>5
  <2>. HIDE DEF a, m
  <2>8. req' \in [Requests -> Local] /\ req'[q] = m /\ \A p \in Requests \ {q} : req'[p] = req[p]
    BY <2>3, <2>5 DEF Inv
  <2>9. Others(q)
    BY <1>2, <2>7 DEF Others, history
  <2>10. Rows'
    <3>1. users' = users /\ password' = password /\ guard' = guard /\ unlinked' = unlinked /\ leftover' = leftover
      BY <1>2 DEF history
    <3>2. accounts' \subseteq Account /\ \A x \in accounts' : users'[x.user].st = "live"
      BY <2>1, <2>2, <2>7, <3>1 DEF Inv, Rows
    <3>3. \A x, y \in accounts' : x.user = y.user /\ x.provider = y.provider => x = y
      BY <2>2, <2>6, <2>7 DEF Inv, Rows
    <3>. QED  BY <3>1, <3>2, <3>3 DEF Inv, Rows, OneBootstrap
  <2>11. Locks'
    BY <1>1, <1>2, <2>8, LocksStay
  <2>12. Ways'
    <3>1. ASSUME NEW u \in Ids PROVE users'[u] = users[u] /\ (WayIn(u) => WayIn(u)')
      BY <1>2, <2>7 DEF WayIn, AccountsOf
    <3>. QED  BY <1>1, <1>2, <2>8, <3>1, WaysStay DEF history
  <2>13. Carries(q, req[q])'
    BY <1>2, <2>1, <2>3, <2>4, <2>8 DEF Carries, Flow, Backed
  <2>. QED  BY <1>3, <2>8, <2>9, <2>10, <2>11, <2>12, <2>13, StepKeeps
<1>. QED  BY <1>1, <1>4, <1>5 DEF LinkAccount

LEMMA UnlinkLockKeeps == ASSUME Inv, scene' = scene, NEW q \in Requests, UnlinkLock(q) PROVE Inv'
<1>1. PICK l \in Local : l = req[q] /\ Carries(q, l)
  BY DEF Inv
<1>. DEFINE m == [l EXCEPT !.pc = "check"]
<1>2. /\ l.pc = "lock" /\ l.op = "unlink" /\ l.user \in Ids /\ lock[l.user] = "free"
      /\ UNCHANGED <<tables, states, browser, mailed, history>>
  BY <1>1 DEF Carries, Flow, UnlinkLock
<1>3. Aside'
  BY <1>2, AsideStays DEF history
<1>4. CASE lock' = lock /\ End(q)
  BY <1>1, <1>2, <1>3, <1>4, EndKeeps DEF history
<1>5. CASE lock' = [lock EXCEPT ![l.user] = q] /\ Goto(q, "check")
  <2>1. /\ m \in Local /\ m.pc = "check" /\ m.op = "unlink" /\ m.user = l.user /\ m.row = l.row
        /\ m.provider = l.provider
    BY <1>2, StepNames DEF Local
  <2>2. req' = [req EXCEPT ![q] = m]
    BY <1>1, <1>5 DEF Goto
  <2>. HIDE DEF m
  <2>3. req' \in [Requests -> Local] /\ req'[q] = m /\ \A p \in Requests \ {q} : req'[p] = req[p]
    BY <2>1, <2>2 DEF Inv
  <2>4. /\ users' = users /\ password' = password /\ accounts' = accounts /\ guard' = guard
        /\ unlinked' = unlinked /\ leftover' = leftover
    BY <1>2 DEF tables, history
  <2>5. /\ lock' \in [Ids -> Requests \cup {"free"}] /\ lock'[l.user] = q
        /\ \A u \in Ids \ {l.user} : lock'[u] = lock[u]
    BY <1>2, <1>5 DEF Inv, Locks
  <2>6. Others(q)
    BY <1>2, <2>4, <2>5, RegistrationAssumption DEF Others
  <2>7. Rows'
    BY <2>4 DEF Inv, Rows, OneBootstrap
  <2>8. Locks'
    <3>1. \A u \in Ids : lock[u] # q
      BY <1>1, <1>2, RegistrationAssumption DEF Inv, Locks
    <3>. QED  BY <2>1, <2>3, <2>5, <3>1 DEF Inv, Locks
  <2>9. Ways'
    <3>1. ASSUME NEW u \in Ids PROVE WayIn(u) => WayIn(u)'
      BY <2>4 DEF WayIn, AccountsOf
    <3>. QED  BY <1>1, <1>2, <2>3, <2>4, <3>1, WaysStay
  <2>10. Carries(q, req[q])'
    BY <1>1, <1>2, <2>1, <2>3, <2>4, <2>5 DEF Carries, Flow
  <2>. QED  BY <1>3, <2>3, <2>6, <2>7, <2>8, <2>9, <2>10, StepKeeps
<1>. QED  BY <1>1, <1>4, <1>5 DEF UnlinkLock

\* Who has more than one account has one of another provider.
LEMMA OneOfMany ==
    ASSUME NEW S, Cardinality(S) > 1, NEW a \in S PROVE \E b \in S : b # a
<1>1. SUFFICES ASSUME \A b \in S : b = a PROVE FALSE
  OBVIOUS
<1>2. S = {a}
  BY <1>1
<1>. QED  BY <1>2, FS_Singleton

LEMMA UnlinkCheckKeeps == ASSUME Inv, scene' = scene, NEW q \in Requests, UnlinkCheck(q) PROVE Inv'
<1>1. PICK l \in Local : l = req[q] /\ Carries(q, l)
  BY DEF Inv
<1>. DEFINE m == [l EXCEPT !.pc = "delete"]
<1>2. /\ l.pc = "check" /\ l.op = "unlink" /\ l.user \in Ids
      /\ UNCHANGED <<tables, states, browser, mailed, history>>
  BY <1>1 DEF Carries, Flow, UnlinkCheck
<1>3. Aside'
  BY <1>2, AsideStays DEF history
<1>4. CASE End(q) /\ Release(q)
  BY <1>1, <1>2, <1>3, <1>4, ReleaseKeeps DEF history, Inv, Rows
<1>5. ASSUME NEW a \in AccountsOf(l.user), a.provider = l.provider,
             l.user \in password \/ Cardinality(AccountsOf(l.user)) > 1, Goto(q, "delete"), lock' = lock
      PROVE  Inv'
  <2>1. /\ m \in Local /\ m.pc = "delete" /\ m.op = "unlink" /\ m.user = l.user /\ m.row = l.row
        /\ m.provider = l.provider
    BY <1>2, StepNames DEF Local
  <2>2. req' = [req EXCEPT ![q] = m]
    BY <1>1, <1>5 DEF Goto
  <2>. HIDE DEF m
  <2>3. l.user \in password \/ \E b \in AccountsOf(l.user) : b.provider # l.provider
    <3>1. CASE Cardinality(AccountsOf(l.user)) > 1
      <4>1. PICK b \in AccountsOf(l.user) : b # a
        BY <3>1, <1>5, OneOfMany
      <4>. QED  BY <4>1, <1>5 DEF AccountsOf, Inv, Rows
    <3>. QED  BY <1>5, <3>1
  <2>4. Carries(q, m)
    BY <1>1, <1>2, <2>1, <2>3 DEF Carries, Flow
  <2>5. Moves(q, m)
    BY <1>1, <1>2, <2>1, <2>2, RegistrationAssumption DEF Moves, Inv, Locks
  <2>. QED  BY <1>2, <1>3, <1>5, <2>1, <2>4, <2>5, MoveKeeps DEF history
<1>. QED  BY <1>1, <1>4, <1>5 DEF UnlinkCheck

LEMMA UnlinkDeleteKeeps == ASSUME Inv, scene' = scene, NEW q \in Requests, UnlinkDelete(q) PROVE Inv'
<1>1. PICK l \in Local : l = req[q] /\ Carries(q, l)
  BY DEF Inv
<1>2. PICK gone \in SUBSET accounts : gone = {a \in AccountsOf(l.user) : a.provider = l.provider}
  BY DEF AccountsOf
<1>3. /\ l.pc = "delete" /\ l.op = "unlink" /\ l.user \in Ids /\ l.row.st = "live" /\ lock[l.user] = q
      /\ l.row.role = "admin" => guard = l.user
      /\ l.user \in password \/ \E a \in AccountsOf(l.user) : a.provider # l.provider
  BY <1>1 DEF Carries, Flow, UnlinkDelete
<1>4. /\ accounts' = accounts \ gone /\ unlinked' = unlinked \cup gone
      /\ users' = IF gone # {} THEN [users EXCEPT ![l.user] = l.row] ELSE users
      /\ End(q) /\ Release(q)
      /\ UNCHANGED <<password, guard, states, browser, mailed, uses, leftover, hindered>>
  BY <1>1, <1>2 DEF UnlinkDelete
<1>5. Aside'
  BY <1>4, AsideStays
<1>6. CASE gone = {}
  BY <1>1, <1>3, <1>4, <1>5, <1>6, ReleaseKeeps DEF tables, Inv, Rows
<1>7. CASE gone # {}
  <2>1. users[l.user].st = "live"
    BY <1>2, <1>7 DEF AccountsOf, Inv, Rows
  <2>2. l.row \in User /\ users' = [users EXCEPT ![l.user] = l.row]
    BY <1>4, <1>7 DEF Local
  <2>3. WayIn(l.user)'
    BY <1>2, <1>3, <1>4 DEF WayIn, AccountsOf
  <2>4. /\ req' = [req EXCEPT ![q] = Idle] /\ \A v \in Ids : lock'[v] = IF lock[v] = q THEN "free" ELSE lock[v]
    BY <1>4 DEF End, Release
  <2>5. Locks'
    <3>1. req'[q] = Idle /\ \A p \in Requests \ {q} : req'[p] = req[p]
      BY <2>4 DEF Inv
    <3>2. lock' \in [Ids -> Requests \cup {"free"}]
      BY <1>4 DEF Inv, Locks, Release
    <3>. QED  BY <2>4, <3>1, <3>2 DEF Inv, Locks
  <2>6. Carries(q, Idle)'
    BY IdleRequest DEF Carries, Flow
  <2>7. gone \in SUBSET AccountsOf(l.user)
    BY <1>2
  <2>8. /\ guard' = guard /\ guard' \in Ids \cup {NoUser} /\ password' = password /\ password' \subseteq Ids
        /\ leftover' = leftover
    BY <1>4 DEF Inv, Rows
  <2>. QED  BY <1>1, <1>3, <1>4, <1>5, <2>1, <2>2, <2>3, <2>4, <2>5, <2>6, <2>7, <2>8, IdleRequest, WriteKeeps
<1>. QED  BY <1>6, <1>7

\* The last write of Bootstrap and of CreateUser, and the proof of an address: the
\* request goes to m, and nothing else of the tables changes.
LEMMA RowKeeps ==
    ASSUME Inv, scene' = scene, NEW q \in Requests, NEW m \in Local, req' = [req EXCEPT ![q] = m],
           req[q].pc \notin {"check", "delete"}, NEW u \in Ids, users[u].st = "live", lock[u] = "free",
           req[q].op \in {"bootstrap", "admin"} => req[q].user = u,
           NEW row \in User, row.st = "live", users' = [users EXCEPT ![u] = row],
           guard' \in Ids \cup {NoUser}, guard' = guard \/ guard = NoUser, row.role = "admin" => guard' = u,
           password' \subseteq Ids, \A v \in Ids \ {u} : v \in password => v \in password',
           u \in password' \/ row.verified,
           UNCHANGED <<accounts, lock, unlinked, leftover>>, Aside', Carries(q, m)'
    PROVE  Inv'
<1>1. accounts' = accounts \ {} /\ unlinked' = unlinked \cup {} /\ {} \in SUBSET AccountsOf(u)
  OBVIOUS
<1>2. WayIn(u)'
  BY DEF Inv, Rows, WayIn
<1>3. Locks'
  BY LocksStay DEF Inv
<1>. QED  BY <1>1, <1>2, <1>3, WriteKeeps

LEMMA ProveCommitKeeps == ASSUME Inv, scene' = scene, NEW q \in Requests, ProveCommit(q) PROVE Inv'
<1>1. PICK l \in Local : l = req[q] /\ Carries(q, l)
  BY DEF Inv
<1>. DEFINE m == [l EXCEPT !.pc = "session"]
            row == [l.row EXCEPT !.verified = TRUE]
<1>2. /\ l.pc = "proven" /\ l.op = "magic" /\ l.user \in Ids /\ l.row.st = "live" /\ l.row \in User
      /\ l.row.role = "admin" => guard = l.user
      /\ lock[l.user] = "free" /\ UNCHANGED <<accounts, guard, states, cookie, mailed, lock, history>>
  BY <1>1 DEF Carries, Flow, ProveCommit, Local
<1>3. signed' \in [Browsers -> Ids \cup {NoUser}]
  BY <1>1 DEF ProveCommit, Inv, Aside
<1>4. Aside'
  BY <1>2, <1>3 DEF Inv, Aside, history
<1>5. CASE ~Live(l.user)
  BY <1>1, <1>2, <1>4, <1>5, EndKeeps DEF ProveCommit, tables, history
<1>6. CASE Live(l.user)
  <2>1. users[l.user].st = "live" /\ password' = password \ {l.user} /\ users' = [users EXCEPT ![l.user] = row]
    BY <1>1, <1>6 DEF ProveCommit, Live
  <2>2. row \in User /\ row.st = "live" /\ row.role = l.row.role /\ row.verified
    BY <1>2 DEF User
  <2>3. m \in Local /\ m.pc = "session" /\ m.op = "magic"
    BY <1>2, StepNames DEF Local
  <2>4. req' = [req EXCEPT ![q] = m]
    BY <1>1, <1>6 DEF ProveCommit, Goto
  <2>. HIDE DEF m, row
  <2>5. Carries(q, m)'
    BY <2>3 DEF Carries, Flow
  <2>6. /\ guard' = guard /\ guard' \in Ids \cup {NoUser} /\ password' \subseteq Ids
        /\ UNCHANGED <<accounts, lock, unlinked, leftover>>
    BY <1>2, <2>1 DEF Inv, Rows, history
  <2>7. /\ row.role = "admin" => guard' = l.user
        /\ \A v \in Ids \ {l.user} : v \in password => v \in password'
        /\ l.user \in password' \/ row.verified
    BY <1>2, <2>1, <2>2, <2>6
  <2>8. /\ req[q].pc \notin {"check", "delete"} /\ req[q].op \notin {"bootstrap", "admin"}
        /\ l.user \in Ids /\ lock[l.user] = "free"
    BY <1>1, <1>2
  <2>. QED  BY <1>4, <2>1, <2>2, <2>3, <2>4, <2>5, <2>6, <2>7, <2>8, RowKeeps
<1>. QED  BY <1>5, <1>6

LEMMA ClaimBootstrapKeeps == ASSUME Inv, scene' = scene, NEW q \in Requests, ClaimBootstrap(q) PROVE Inv'
<1>1. PICK l \in Local : l = req[q] /\ Carries(q, l)
  BY DEF Inv
<1>. DEFINE m == [l EXCEPT !.pc = "remove"]
            row == [st |-> "live", email |-> l.email, verified |-> FALSE, role |-> "admin"]
<1>2. /\ l.pc = "claim" /\ l.op = "bootstrap" /\ l.user \in Ids /\ lock[l.user] = "free"
      /\ UNCHANGED <<accounts, states, browser, mailed, lock, uses, unlinked, leftover>>
  BY <1>1 DEF Carries, Flow, ClaimBootstrap
<1>3. hindered' \in BOOLEAN
  BY DEF ClaimBootstrap, Inv, Aside
<1>4. Aside'
  BY <1>2, <1>3 DEF Inv, Aside, browser
<1>5. \A u \in Ids : lock[u] # q
  BY <1>1, <1>2, RegistrationAssumption DEF Inv, Locks
<1>6. CASE guard # NoUser
  <2>1. UNCHANGED <<users, password, guard>> /\ req' = [req EXCEPT ![q] = m]
    BY <1>1, <1>6 DEF ClaimBootstrap, Goto
  <2>2. m \in Local /\ m.pc = "remove" /\ m.op = "bootstrap" /\ m.user = l.user
    BY <1>2, StepNames DEF Local
  <2>. HIDE DEF m
  <2>3. Carries(q, m) /\ Moves(q, m)
    BY <1>1, <1>2, <1>5, <2>1, <2>2 DEF Carries, Flow, Moves
  <2>. QED  BY <1>2, <1>4, <2>1, <2>2, <2>3, MoveKeeps DEF tables
<1>7. CASE guard = NoUser /\ ~Live(l.user)
  <2>1. UNCHANGED <<users, password, guard>> /\ req' = [req EXCEPT ![q] = Idle]
    BY <1>1, <1>7 DEF ClaimBootstrap, End
  <2>2. /\ req' \in [Requests -> Local] /\ req'[q] = Idle /\ \A p \in Requests \ {q} : req'[p] = req[p]
    BY <2>1, IdleRequest DEF Inv
  <2>3. users[l.user].st # "live"
    BY <1>2, <1>7, RegistrationAssumption DEF Live
  <2>4. Ways'
    <3>1. ASSUME NEW u \in Ids PROVE WayIn(u) => WayIn(u)'
      BY <1>2, <2>1 DEF WayIn, AccountsOf
    <3>. QED  BY <1>1, <1>2, <2>1, <2>2, <2>3, <3>1, WaysStay
  <2>5. Rows' /\ Others(q)
    BY <1>2, <2>1 DEF Inv, Rows, OneBootstrap, Others
  <2>6. Locks'
    BY <1>1, <1>2, <2>2, LocksStay
  <2>7. Carries(q, req[q])'
    <3>1. Carries(q, Idle)'
      BY IdleRequest DEF Carries, Flow
    <3>. QED  BY <2>2, <3>1 DEF Carries, Flow, Backed
  <2>. QED  BY <1>4, <2>2, <2>4, <2>5, <2>6, <2>7, StepKeeps
<1>8. CASE guard = NoUser /\ Live(l.user)
  <2>1. /\ users[l.user].st = "live" /\ guard' = l.user /\ password' = password \cup {l.user}
        /\ users' = [users EXCEPT ![l.user] = row] /\ req' = [req EXCEPT ![q] = Idle]
    BY <1>1, <1>8 DEF ClaimBootstrap, End, Live
  <2>2. row \in User /\ row.st = "live"
    BY DEF User, Local
  <2>. HIDE DEF row
  <2>3. Carries(q, Idle)'
    BY IdleRequest DEF Carries, Flow
  <2>4. password' \subseteq Ids
    BY <1>2, <2>1 DEF Inv, Rows
  <2>. QED  BY <1>1, <1>2, <1>4, <1>8, <2>1, <2>2, <2>3, <2>4, IdleRequest, RowKeeps
<1>. QED  BY <1>6, <1>7, <1>8

LEMMA AdminGrantKeeps == ASSUME Inv, scene' = scene, NEW q \in Requests, AdminGrant(q) PROVE Inv'
<1>1. PICK l \in Local : l = req[q] /\ Carries(q, l)
  BY DEF Inv
<1>. DEFINE row == [st |-> "live", email |-> l.email, verified |-> FALSE, role |-> "user"]
<1>2. /\ l.pc = "grant" /\ l.op = "admin" /\ l.user \in Ids /\ lock[l.user] = "free"
      /\ req' = [req EXCEPT ![q] = Idle]
      /\ UNCHANGED <<accounts, guard, states, browser, mailed, lock, history>>
  BY <1>1 DEF Carries, Flow, AdminGrant, End
<1>3. Aside'
  BY <1>2, AsideStays DEF history
<1>4. Carries(q, Idle)'
  BY IdleRequest DEF Carries, Flow
<1>5. CASE ~Live(l.user)
  <2>1. UNCHANGED <<users, password>>
    BY <1>1, <1>5 DEF AdminGrant
  <2>2. /\ req' \in [Requests -> Local] /\ req'[q] = Idle /\ \A p \in Requests \ {q} : req'[p] = req[p]
    BY <1>2, IdleRequest DEF Inv
  <2>3. users[l.user].st # "live"
    BY <1>2, <1>5, RegistrationAssumption DEF Live
  <2>4. Ways'
    <3>1. ASSUME NEW u \in Ids PROVE WayIn(u) => WayIn(u)'
      BY <1>2, <2>1 DEF WayIn, AccountsOf
    <3>. QED  BY <1>1, <1>2, <2>1, <2>2, <2>3, <3>1, WaysStay DEF history
  <2>5. Rows' /\ Others(q)
    BY <1>2, <2>1 DEF Inv, Rows, OneBootstrap, Others, history
  <2>6. Locks'
    BY <1>1, <1>2, <2>2, LocksStay
  <2>7. Carries(q, req[q])'
    BY <1>4, <2>2 DEF Carries, Flow, Backed
  <2>. QED  BY <1>3, <2>2, <2>4, <2>5, <2>6, <2>7, StepKeeps
<1>6. CASE Live(l.user)
  <2>1. /\ users[l.user].st = "live" /\ password' = password \cup {l.user}
        /\ users' = [users EXCEPT ![l.user] = row]
    BY <1>1, <1>6 DEF AdminGrant, Live
  <2>2. row \in User /\ row.st = "live" /\ row.role = "user"
    BY DEF User, Local
  <2>. HIDE DEF row
  <2>3. password' \subseteq Ids /\ guard' = guard /\ guard' \in Ids \cup {NoUser}
    BY <1>2, <2>1 DEF Inv, Rows
  <2>4. UNCHANGED <<accounts, lock, unlinked, leftover>>
    BY <1>2 DEF history
  <2>. QED  BY <1>1, <1>2, <1>3, <1>4, <2>1, <2>2, <2>3, <2>4, IdleRequest, RowKeeps
<1>. QED  BY <1>5, <1>6

-----------------------------------------------------------------------------
(* The theorems.                                                           *)

LEMMA ContinueKeeps == ASSUME Inv, scene' = scene, NEW q \in Requests, Continue(q) PROVE Inv'
BY ConsumeStateKeeps, CurrentUserKeeps, ReadOwnerKeeps, ResolveEmailKeeps, LinkAccountKeeps,
   CreateWithAccountKeeps, IssueSessionKeeps, ResolveAccountKeeps, UnlinkLockKeeps, UnlinkCheckKeeps,
   UnlinkDeleteKeeps, IssueTokenKeeps, ResolveUserKeeps, CreateVerifiedKeeps, ProveReadKeeps,
   ProveCommitKeeps, BootstrapCreateKeeps, ClaimBootstrapKeeps, BootstrapRemoveKeeps, AdminGrantKeeps
   DEF Continue

LEMMA StartKeeps == ASSUME Inv, scene' = scene, Start PROVE Inv'
BY DeleteUserKeeps, ExpireKeeps, StartOAuthKeeps, OAuthCallbackKeeps, UnlinkKeeps, SendLinkKeeps,
   BootstrapKeeps, AdminCreateKeeps, SignUpKeeps, CompleteVerifyKeeps DEF Start

LEMMA StutterKeeps == ASSUME Inv, UNCHANGED vars PROVE Inv'
<1>1. UNCHANGED <<scene, tables, lock, unlinked, leftover>> /\ req' = req
  BY DEF vars, history
<1>2. Aside'
  BY AsideStays DEF vars, history
<1>. QED  BY <1>1, <1>2, NobodyMoves

LEMMA InitInv == Init => Inv
<1>. SUFFICES ASSUME Init PROVE Inv
  OBVIOUS
<1>1. /\ scene \in Scenes /\ users = scene.users /\ password = scene.password /\ accounts = scene.accounts
      /\ signed = scene.signed /\ guard = NoUser /\ unlinked = {} /\ leftover = {} /\ hindered = FALSE
      /\ states = [s \in States |-> [st |-> "unborn", provider |-> "none", link |-> NoUser]]
      /\ cookie = [b \in Browsers |-> NoState] /\ mailed = [e \in Emails |-> NoToken]
      /\ lock = [u \in Ids |-> "free"] /\ req = [q \in Requests |-> Idle] /\ uses = [s \in States |-> 0]
  BY DEF Init
<1>2. /\ scene.users \in [Ids -> User] /\ scene.password \subseteq Ids /\ scene.accounts \subseteq Account
      /\ scene.signed \in [Browsers -> Ids \cup {NoUser}] /\ Consistent(scene)
  BY <1>1, RegistrationAssumption
<1>3. [st |-> "unborn", provider |-> "none", link |-> NoUser] \in State /\ NoToken \in Token
  BY DEF State, Token, NoToken
<1>4. Aside
  <2>1. states \in [States -> State]
    BY <1>1, <1>3
  <2>2. cookie \in [Browsers -> States \cup {NoState}]
    BY <1>1
  <2>3. signed \in [Browsers -> Ids \cup {NoUser}]
    BY <1>1, <1>2
  <2>4. mailed \in [Emails -> Token]
    BY <1>1, <1>3
  <2>5. hindered \in BOOLEAN /\ uses \in [States -> Nat]
    BY <1>1
  <2>6. ASSUME NEW s \in States
        PROVE  uses[s] <= 1 /\ (states[s].st \in {"unborn", "live"} => uses[s] = 0)
    BY <1>1
  <2>. QED  BY <2>1, <2>2, <2>3, <2>4, <2>5, <2>6 DEF Aside
<1>5. Rows
  BY <1>1, <1>2 DEF Rows, OneBootstrap, Consistent
<1>6. Locks
  BY <1>1 DEF Locks
<1>7. Ways
  <2>1. ASSUME NEW u \in Ids, users[u].st = "live" PROVE WayIn(u)
    BY <1>1, <1>2, <2>1 DEF Consistent, WayIn, AccountsOf
  <2>. QED  BY <2>1 DEF Ways
<1>8. req \in [Requests -> Local] /\ \A q \in Requests : Carries(q, req[q])
  <2>1. req \in [Requests -> Local]
    BY <1>1, IdleRequest
  <2>2. ASSUME NEW q \in Requests PROVE Carries(q, req[q])
    <3>1. req[q] = Idle
      BY <1>1
    <3>. QED  BY <3>1, IdleCarries
  <2>. QED  BY <2>1, <2>2
<1>. QED  BY <1>1, <1>4, <1>5, <1>6, <1>7, <1>8 DEF Inv

\* handlers.go, handlers_oauth.go, plugins/magiclink and plugins/admin: what every
\* request under way knows of the rows, whatever the others have done since it read
\* them, and that no step of any of them breaks the tables.
THEOREM RegistrationInvariant == Spec => []Inv
<1>1. Inv /\ [Next]_vars => Inv'
  BY ContinueKeeps, StartKeeps, AbortKeeps, StutterKeeps DEF Next
<1>. QED  BY <1>1, InitInv, PTL DEF Spec

\* states.Consume: however often a browser delivers the callback, and from however
\* many requests at once, one of them gets past the state.
THEOREM StatesCountOnce == Spec => []StateOnce
<1>1. Inv => StateOnce
  BY DEF Inv, Aside, StateOnce
<1>. QED  BY <1>1, RegistrationInvariant, PTL

\* claimBootstrap: of any number of instances that bootstrap at once, the one whose
\* user is in the guard row has made an administrator.
THEOREM OneAdministrator == Spec => []OneBootstrap
<1>1. Inv => OneBootstrap
  BY DEF Inv, Rows
<1>. QED  BY <1>1, RegistrationInvariant, PTL

\* resolveOAuthUser: the session of an external sign-in is of the user who owns the
\* identity, unless an unlink or a deletion came in between.
THEOREM AccountBehindSession == Spec => []SessionBehindAccount
<1>1. ASSUME Inv PROVE SessionBehindAccount
  <2>1. ASSUME NEW q \in Requests, req[q].pc = "session", req[q].op = "oauth"
        PROVE  \/ [user |-> req[q].user, provider |-> req[q].provider, sub |-> req[q].identity.sub] \in accounts \cup unlinked
               \/ ~Live(req[q].user)
    BY <1>1, <2>1 DEF Inv, Carries, Backed, Live
  <2>. QED  BY <2>1 DEF SessionBehindAccount
<1>. QED  BY <1>1, RegistrationInvariant, PTL

\* handleAccountUnlink and proveEmailOwnership: whatever a user links, unlinks and
\* proves at once, a password, an account or a proven address is left.
THEOREM EverybodyKeepsAWayIn == Spec => []AlwaysAWayIn
<1>1. ASSUME Inv PROVE AlwaysAWayIn
  <2>1. TypeOK
    BY <1>1 DEF Inv, Aside, Rows, Locks, TypeOK
  <2>2. \A u \in Ids : Live(u) /\ ~WayIn(u) => Half(u)
    BY <1>1 DEF Inv, Ways, Live
  <2>. QED  BY <2>1, <2>2 DEF AlwaysAWayIn, Half
<1>. QED  BY <1>1, RegistrationInvariant, PTL

-----------------------------------------------------------------------------
(* The administrators.  A bootstrap makes the first one; the guard of      *)
(* plugins/admin keeps the last one through parallel demotions and         *)
(* disables and, with one connection, through every operation, for any     *)
(* number of users, roles and operations.                                  *)

CONSTANTS Users, Txs, Roles, AdminRole, Ops, Serial
VARIABLES row, tx

G == INSTANCE AdminGuard

LEMMA NoTxType ==
    ASSUME G!AdminAssumption
    PROVE  G!NoTx \in G!Tx
<1>. DEFINE r0 == [role |-> AdminRole, disabled |-> FALSE]
<1>1. (CHOOSE u \in Users : TRUE) \in Users
  BY DEF G!AdminAssumption
<1>2. r0 \in G!Row
  BY DEF G!AdminAssumption, G!Row
<1>. QED  BY <1>1, <1>2 DEF G!AdminAssumption, G!NoTx, G!Tx, G!AllOps

\* An operation writes a row of the table.
LEMMA WrittenType ==
    ASSUME G!AdminAssumption, NEW l \in G!Tx PROVE G!Written(l) \in G!Row
<1>1. l.read \in G!Row /\ l.to \in Roles /\ l.op \in G!AllOps
  BY DEF G!Tx
<1>. DEFINE r == l.read
<1>2. [r EXCEPT !.role = l.to] \in G!Row
  BY <1>1 DEF G!Row
<1>3. [r EXCEPT !.disabled = TRUE] \in G!Row /\ [r EXCEPT !.disabled = FALSE] \in G!Row
  BY <1>1 DEF G!Row
<1>. QED  BY <1>1, <1>2, <1>3 DEF G!Written, G!AllOps

\* The types of the two tables are kept by every step of every operation.
LEMMA TypeStep ==
    ASSUME G!AdminAssumption
    PROVE  G!TypeOK /\ [G!Next]_(G!vars) => G!TypeOK'
<1>. SUFFICES ASSUME G!TypeOK, [G!Next]_(G!vars) PROVE G!TypeOK'
  OBVIOUS
<1>1. CASE UNCHANGED G!vars
  BY <1>1 DEF G!TypeOK, G!vars
<1>2. ASSUME NEW t \in Txs, NEW op \in Ops, NEW u \in Users, NEW to \in Roles, G!Begin(t, op, u, to)
      PROVE  G!TypeOK'
  BY <1>2 DEF G!AdminAssumption, G!TypeOK, G!Begin, G!Tx
<1>3. ASSUME NEW t \in Txs, G!LockSnapshot(t) PROVE G!TypeOK'
  <2> DEFINE W == {u \in Users : G!Lockable(row[u])}
  <2>1. W \in SUBSET Users /\ tx[t] \in G!Tx
    BY DEF G!TypeOK
  <2>2. tx' = [tx EXCEPT ![t] = [tx[t] EXCEPT !.pc = "lock", !.want = W]]
    BY <1>3 DEF G!LockSnapshot
  <2>. HIDE DEF W
  <2>3. [tx[t] EXCEPT !.pc = "lock", !.want = W] \in G!Tx
    BY <2>1 DEF G!Tx
  <2>. QED  BY <1>3, <2>2, <2>3 DEF G!TypeOK, G!LockSnapshot
<1>4. ASSUME NEW t \in Txs, G!CountOthers(t) PROVE G!TypeOK'
  <2>1. [tx[t] EXCEPT !.pc = "write"] \in G!Tx
    BY DEF G!TypeOK, G!Tx
  <2>2. \/ tx' = [tx EXCEPT ![t] = [tx[t] EXCEPT !.pc = "write"]]
        \/ tx' = [tx EXCEPT ![t] = G!NoTx]
    BY <1>4 DEF G!CountOthers, G!End
  <2>. QED  BY <1>4, <2>1, <2>2, NoTxType DEF G!TypeOK, G!CountOthers
<1>5. ASSUME NEW t \in Txs, G!WriteRow(t) PROVE G!TypeOK'
  <2>1. G!Written(tx[t]) \in G!Row
    BY WrittenType DEF G!TypeOK
  <2>. QED  BY <1>5, <2>1, NoTxType DEF G!TypeOK, G!WriteRow, G!End
<1>6. ASSUME NEW t \in Txs, G!Rollback(t) PROVE G!TypeOK'
  BY <1>6, NoTxType DEF G!TypeOK, G!Rollback, G!End
<1>7. ASSUME NEW t \in Txs, NEW u \in Users, G!LockRow(t, u) PROVE G!TypeOK'
  <2> DEFINE H == IF G!Lockable(row[u]) THEN tx[t].held \cup {u} ELSE tx[t].held
  <2>1. H \in SUBSET Users /\ tx[t].want \ {u} \in SUBSET Users /\ tx[t] \in G!Tx
    BY DEF G!TypeOK, G!Tx
  <2>2. tx' = [tx EXCEPT ![t] = [tx[t] EXCEPT !.want = tx[t].want \ {u}, !.held = H]]
    BY <1>7 DEF G!LockRow
  <2>. HIDE DEF H
  <2>3. [tx[t] EXCEPT !.want = tx[t].want \ {u}, !.held = H] \in G!Tx
    BY <2>1 DEF G!Tx
  <2>. QED  BY <1>7, <2>2, <2>3 DEF G!TypeOK, G!LockRow
<1>. QED  BY <1>1, <1>2, <1>3, <1>4, <1>5, <1>6, <1>7 DEF G!Next

\* Type correctness of the users rows and of the operations in progress.
THEOREM AdminTypeCorrect ==
    ASSUME G!AdminAssumption
    PROVE  G!Spec => []G!TypeOK
<1>1. G!Init => G!TypeOK
  BY NoTxType DEF G!Init, G!TypeOK
<1>. QED  BY <1>1, TypeStep, PTL DEF G!Spec

-----------------------------------------------------------------------------
(* The row locks.                                                          *)

LEMMA LocksStep ==
    ASSUME G!AdminAssumption
    PROVE  G!TypeOK /\ G!LocksHold /\ [G!Next]_(G!vars) => G!LocksHold'
<1>. SUFFICES ASSUME G!TypeOK, G!LocksHold, [G!Next]_(G!vars) PROVE G!LocksHold'
  OBVIOUS
<1>1. CASE UNCHANGED G!vars
  BY <1>1 DEF G!LocksHold, G!LockedByOther, G!vars
<1>2. ASSUME NEW t \in Txs, row' = row, \A o \in Txs \ {t} : tx'[o] = tx[o],
             tx'[t].held \subseteq tx[t].held
      PROVE  G!LocksHold'
  BY <1>2 DEF G!LocksHold, G!LockedByOther
<1>3. ASSUME NEW t \in Txs, NEW op \in Ops, NEW u \in Users, NEW to \in Roles, G!Begin(t, op, u, to)
      PROVE  G!LocksHold'
  <2>1. row' = row /\ (\A o \in Txs \ {t} : tx'[o] = tx[o]) /\ tx'[t].held = {}
    BY <1>3 DEF G!Begin, G!TypeOK
  <2>. QED  BY <1>2, <2>1
<1>4. ASSUME NEW t \in Txs, G!LockSnapshot(t) PROVE G!LocksHold'
  <2>1. row' = row /\ (\A o \in Txs \ {t} : tx'[o] = tx[o]) /\ tx'[t].held = tx[t].held
    BY <1>4 DEF G!LockSnapshot, G!TypeOK, G!Tx
  <2>. QED  BY <1>2, <2>1
<1>5. ASSUME NEW t \in Txs, G!End(t), row' = row PROVE G!LocksHold'
  <2>1. (\A o \in Txs \ {t} : tx'[o] = tx[o]) /\ tx'[t].held = {}
    BY <1>5 DEF G!End, G!NoTx, G!TypeOK
  <2>. QED  BY <1>2, <1>5, <2>1
<1>6. ASSUME NEW t \in Txs, G!CountOthers(t) PROVE G!LocksHold'
  <2>1. CASE tx[t].held \ {tx[t].user} # {}
    <3>1. row' = row /\ (\A o \in Txs \ {t} : tx'[o] = tx[o]) /\ tx'[t].held = tx[t].held
      BY <1>6, <2>1 DEF G!CountOthers, G!TypeOK, G!Tx
    <3>. QED  BY <1>2, <3>1
  <2>. QED  BY <1>5, <1>6, <2>1 DEF G!CountOthers
<1>7. ASSUME NEW t \in Txs, G!WriteRow(t) PROVE G!LocksHold'
  <2>1. /\ \A o \in Txs \ {t} : tx'[o] = tx[o] /\ tx[t].user \notin tx[o].held
        /\ tx'[t].held = {}
        /\ \A u \in Users \ {tx[t].user} : row'[u] = row[u]
    BY <1>7 DEF G!WriteRow, G!End, G!NoTx, G!LockedByOther, G!TypeOK
  <2>2. \A o \in Txs : tx[o].held \subseteq Users
    BY DEF G!TypeOK, G!Tx
  <2>. QED  BY <2>1, <2>2 DEF G!LocksHold, G!LockedByOther
<1>8. ASSUME NEW t \in Txs, NEW u \in Users, G!LockRow(t, u) PROVE G!LocksHold'
  <2>1. /\ row' = row /\ \A o \in Txs \ {t} : tx'[o] = tx[o]
        /\ \/ tx'[t].held = tx[t].held
           \/ tx'[t].held = tx[t].held \cup {u} /\ G!Lockable(row[u]) /\ ~G!LockedByOther(t, u)
    BY <1>8 DEF G!LockRow, G!TypeOK, G!Tx
  <2>2. CASE tx'[t].held = tx[t].held
    BY <1>2, <2>1, <2>2
  <2>3. CASE tx'[t].held = tx[t].held \cup {u} /\ G!Lockable(row[u]) /\ ~G!LockedByOther(t, u)
    <3>1. /\ \A o \in Txs : \A x \in tx'[o].held : x \in tx[o].held \/ (o = t /\ x = u)
          /\ \A o \in Txs \ {t} : u \notin tx[o].held
      BY <2>1, <2>3 DEF G!LockedByOther
    <3>2. \A o \in Txs : \A x \in tx[o].held : G!Lockable(row[x]) /\ \A p \in Txs \ {o} : x \notin tx[p].held
      BY DEF G!LocksHold, G!LockedByOther
    <3>3. \A o \in Txs : \A x \in tx'[o].held : G!Lockable(row'[x]) /\ \A p \in Txs \ {o} : x \notin tx'[p].held
      BY <2>1, <2>3, <3>1, <3>2
    <3>. QED  BY <3>3 DEF G!LocksHold, G!LockedByOther, G!Lockable, G!Enabled
  <2>. QED  BY <2>1, <2>2, <2>3
<1>. QED  BY <1>1, <1>3, <1>4, <1>5, <1>6, <1>7, <1>8 DEF G!Next, G!Rollback

\* LockEnabledUsersWithRole: whatever the operations, a row that a transaction
\* counted stays that of an enabled administrator, and is counted by no other
\* transaction, until the transaction ends.
THEOREM CountedRowsStay ==
    ASSUME G!AdminAssumption
    PROVE  G!Spec => []G!LocksHold
<1>1. G!Init => G!LocksHold
  <2>1. G!NoTx.held = {}
    BY DEF G!NoTx
  <2>2. G!Init => \A t \in Txs : tx[t] = G!NoTx
    BY DEF G!Init
  <2>. QED  BY <2>1, <2>2 DEF G!LocksHold
<1>. QED  BY <1>1, LocksStep, AdminTypeCorrect, PTL DEF G!Spec

-----------------------------------------------------------------------------
(* Parallel demotions and disables.                                        *)

\* The row that a demotion or a disable writes is of no enabled administrator.
LEMMA LoweringWrites ==
    ASSUME G!AdminAssumption, NEW l \in G!Tx, l.op \in {"demote", "disable"}, G!Needed(l.op, l.read, l.to)
    PROVE  ~G!EnabledAdmin(G!Written(l))
<1>0. l.read \in G!Row /\ l.to \in Roles
  BY DEF G!Tx
<1>1. CASE l.op = "demote"
  <2>1. G!Written(l) = [l.read EXCEPT !.role = l.to] /\ l.to < AdminRole
    BY <1>1 DEF G!Written, G!Needed
  <2>2. G!Written(l).role = l.to
    BY <2>1, <1>0 DEF G!Row
  <2>. QED  BY <2>1, <2>2, <1>0 DEF G!AdminAssumption, G!EnabledAdmin
<1>2. CASE l.op = "disable"
  <2>1. G!Written(l) = [l.read EXCEPT !.disabled = TRUE]
    BY <1>2 DEF G!Written
  <2>2. G!Written(l).disabled = TRUE
    BY <2>1, <1>0 DEF G!Row
  <2>. QED  BY <2>2 DEF G!EnabledAdmin, G!Enabled
<1>. QED  BY <1>1, <1>2

\* A write leaves an administrator: the row it writes was of none, or its
\* transaction holds another one.
LEMMA LoweringWriteStep ==
    ASSUME G!AdminAssumption, Ops \subseteq {"demote", "disable"}, G!ParallelInv, NEW t \in Txs, G!WriteRow(t)
    PROVE  G!ParallelInv'
<1>. DEFINE u == tx[t].user
<1>0. /\ tx[t] \in G!Tx /\ u \in Users
      /\ tx' = [tx EXCEPT ![t] = G!NoTx]
      /\ row' = [row EXCEPT ![u] = G!Written(tx[t])]
      /\ tx[t].pc = "write" /\ ~G!LockedByOther(t, u)
      /\ tx[t].op \in {"demote", "disable"} /\ G!Needed(tx[t].op, tx[t].read, tx[t].to)
  BY DEF G!ParallelInv, G!TypeOK, G!Tx, G!WriteRow, G!End, G!InProgress
<1>1. G!TypeOK'
  BY TypeStep DEF G!ParallelInv, G!Next
<1>2. G!NoTx.pc = "idle" /\ G!NoTx.held = {}
  BY DEF G!NoTx
<1>3. ~G!EnabledAdmin(row'[u])
  BY <1>0, LoweringWrites DEF G!ParallelInv, G!TypeOK
<1>4. G!AdminRemains'
  <2>1. PICK v \in Users : G!EnabledAdmin(row[v]) /\ v # u
    <3>1. CASE G!EnabledAdmin(row[u])
      <4>1. G!EnabledAdmin(tx[t].read)
        BY <3>1, <1>0 DEF G!ParallelInv, G!ReadsAreAbove
      <4>2. G!Guarded(tx[t].op, tx[t].read)
        BY <4>1, <1>0 DEF G!Guarded, G!EnabledAdmin
      <4>3. PICK v \in tx[t].held : v # u
        BY <4>2, <1>0 DEF G!ParallelInv, G!WriterHoldsOther
      <4>4. v \in Users /\ G!Lockable(row[v])
        BY <4>3, <1>0 DEF G!ParallelInv, G!LocksHold, G!Tx
      <4>5. row[v].role \in Nat /\ AdminRole \in Nat
        BY <4>4 DEF G!AdminAssumption, G!ParallelInv, G!TypeOK, G!Row
      <4>. QED  BY <4>3, <4>4, <4>5 DEF G!Lockable, G!EnabledAdmin
    <3>2. CASE ~G!EnabledAdmin(row[u])
      BY <3>2 DEF G!ParallelInv, G!AdminRemains
    <3>. QED  BY <3>1, <3>2
  <2>2. row'[v] = row[v]
    BY <2>1, <1>0 DEF G!ParallelInv, G!TypeOK
  <2>. QED  BY <2>1, <2>2 DEF G!AdminRemains
<1>5. G!LocksHold'
  <2>. SUFFICES ASSUME NEW o \in Txs, NEW v \in tx'[o].held
                PROVE  G!Lockable(row'[v]) /\ ~G!LockedByOther(o, v)'
    BY DEF G!LocksHold
  <2>1. o # t /\ tx'[o] = tx[o]
    BY <1>0, <1>2 DEF G!ParallelInv, G!TypeOK
  <2>2. v \in Users /\ G!Lockable(row[v]) /\ ~G!LockedByOther(o, v)
    BY <2>1 DEF G!ParallelInv, G!LocksHold, G!TypeOK, G!Tx
  <2>3. v # u
    BY <2>1, <1>0 DEF G!LockedByOther
  <2>4. row'[v] = row[v]
    BY <2>2, <2>3, <1>0 DEF G!ParallelInv, G!TypeOK
  <2>5. \A x \in Txs : tx'[x].held \subseteq tx[x].held
    BY <1>0, <1>2 DEF G!ParallelInv, G!TypeOK
  <2>. QED  BY <2>2, <2>4, <2>5 DEF G!LockedByOther
<1>6. G!ReadsAreAbove'
  <2>. SUFFICES ASSUME NEW o \in Txs, tx'[o].pc # "idle", G!EnabledAdmin(row'[tx'[o].user])
                PROVE  G!EnabledAdmin(tx'[o].read)
    BY DEF G!ReadsAreAbove
  <2>1. o # t /\ tx'[o] = tx[o] /\ tx[o].user \in Users
    BY <1>0, <1>2 DEF G!ParallelInv, G!TypeOK, G!Tx
  <2>2. tx[o].user # u /\ row'[tx[o].user] = row[tx[o].user]
    BY <2>1, <1>3, <1>0 DEF G!ParallelInv, G!TypeOK
  <2>. QED  BY <2>1, <2>2 DEF G!ParallelInv, G!ReadsAreAbove
<1>7. G!WriterHoldsOther' /\ G!InProgress'
  BY <1>0, <1>2 DEF G!ParallelInv, G!TypeOK, G!WriterHoldsOther, G!InProgress
<1>. QED  BY <1>1, <1>4, <1>5, <1>6, <1>7 DEF G!ParallelInv

\* Every other step changes no row and keeps the locks apart.
LEMMA ParallelStep ==
    ASSUME G!AdminAssumption, Ops \subseteq {"demote", "disable"}, G!ParallelInv, [G!Next]_(G!vars)
    PROVE  G!ParallelInv'
<1>0. G!TypeOK'
  BY TypeStep DEF G!ParallelInv
<1>1. CASE UNCHANGED G!vars
  BY <1>1 DEF G!vars, G!ParallelInv, G!TypeOK, G!AdminRemains, G!LocksHold, G!LockedByOther, G!ReadsAreAbove,
              G!WriterHoldsOther, G!InProgress
<1>2. ASSUME NEW t \in Txs, NEW op \in Ops, NEW u \in Users, NEW to \in Roles, G!Begin(t, op, u, to)
      PROVE  G!ParallelInv'
  <2>1. /\ row' = row /\ G!Needed(op, row[u], to)
        /\ tx'[t].op = op /\ tx'[t].user = u /\ tx'[t].to = to /\ tx'[t].read = row[u]
        /\ tx'[t].held = {} /\ (tx'[t].pc = "write" => ~G!Guarded(op, row[u]))
        /\ \A o \in Txs \ {t} : tx'[o] = tx[o]
    BY <1>2 DEF G!Begin, G!ParallelInv, G!TypeOK
  <2>2. G!LocksHold'
    BY <2>1 DEF G!ParallelInv, G!LocksHold, G!LockedByOther
  <2>3. G!ReadsAreAbove' /\ G!AdminRemains'
    BY <2>1 DEF G!ParallelInv, G!ReadsAreAbove, G!AdminRemains
  <2>4. G!WriterHoldsOther' /\ G!InProgress'
    BY <2>1 DEF G!ParallelInv, G!WriterHoldsOther, G!InProgress
  <2>. QED  BY <1>0, <2>2, <2>3, <2>4 DEF G!ParallelInv
<1>3. ASSUME NEW t \in Txs, G!LockSnapshot(t) PROVE G!ParallelInv'
  <2>1. /\ row' = row
        /\ tx'[t].pc = "lock" /\ tx[t].pc = "guard"
        /\ tx'[t].op = tx[t].op /\ tx'[t].user = tx[t].user /\ tx'[t].to = tx[t].to
        /\ tx'[t].read = tx[t].read /\ tx'[t].held = tx[t].held
        /\ \A o \in Txs \ {t} : tx'[o] = tx[o]
    BY <1>3 DEF G!LockSnapshot, G!ParallelInv, G!TypeOK, G!Tx
  <2>2. G!LocksHold'
    BY <2>1 DEF G!ParallelInv, G!LocksHold, G!LockedByOther
  <2>3. G!ReadsAreAbove' /\ G!AdminRemains'
    BY <2>1 DEF G!ParallelInv, G!ReadsAreAbove, G!AdminRemains
  <2>4. G!WriterHoldsOther' /\ G!InProgress'
    BY <2>1 DEF G!ParallelInv, G!WriterHoldsOther, G!InProgress
  <2>. QED  BY <1>0, <2>2, <2>3, <2>4 DEF G!ParallelInv
<1>4. ASSUME NEW t \in Txs, NEW u \in Users, G!LockRow(t, u) PROVE G!ParallelInv'
  <2>1. /\ row' = row /\ ~G!LockedByOther(t, u)
        /\ tx'[t].pc = "lock" /\ tx[t].pc = "lock"
        /\ tx'[t].op = tx[t].op /\ tx'[t].user = tx[t].user /\ tx'[t].to = tx[t].to
        /\ tx'[t].read = tx[t].read
        /\ tx'[t].held = IF G!Lockable(row[u]) THEN tx[t].held \cup {u} ELSE tx[t].held
        /\ \A o \in Txs \ {t} : tx'[o] = tx[o]
    BY <1>4 DEF G!LockRow, G!ParallelInv, G!TypeOK, G!Tx
  <2>2. G!LocksHold'
    BY <2>1 DEF G!ParallelInv, G!LocksHold, G!LockedByOther
  <2>3. G!ReadsAreAbove' /\ G!AdminRemains'
    BY <2>1 DEF G!ParallelInv, G!ReadsAreAbove, G!AdminRemains
  <2>4. G!WriterHoldsOther' /\ G!InProgress'
    BY <2>1 DEF G!ParallelInv, G!WriterHoldsOther, G!InProgress
  <2>. QED  BY <1>0, <2>2, <2>3, <2>4 DEF G!ParallelInv
<1>5. ASSUME NEW t \in Txs, G!CountOthers(t), tx' # [tx EXCEPT ![t] = G!NoTx] PROVE G!ParallelInv'
  <2>1. /\ row' = row /\ tx[t].pc = "lock"
        /\ tx[t].held \ {tx[t].user} # {}
        /\ tx'[t].pc = "write" /\ tx'[t].op = tx[t].op /\ tx'[t].user = tx[t].user
        /\ tx'[t].to = tx[t].to /\ tx'[t].read = tx[t].read /\ tx'[t].held = tx[t].held
        /\ \A o \in Txs \ {t} : tx'[o] = tx[o]
    BY <1>5 DEF G!CountOthers, G!End, G!ParallelInv, G!TypeOK, G!Tx
  <2>2. G!LocksHold'
    BY <2>1 DEF G!ParallelInv, G!LocksHold, G!LockedByOther
  <2>3. G!ReadsAreAbove' /\ G!AdminRemains'
    BY <2>1 DEF G!ParallelInv, G!ReadsAreAbove, G!AdminRemains
  <2>4. G!WriterHoldsOther' /\ G!InProgress'
    BY <2>1 DEF G!ParallelInv, G!WriterHoldsOther, G!InProgress
  <2>. QED  BY <1>0, <2>2, <2>3, <2>4 DEF G!ParallelInv
<1>6. ASSUME NEW t \in Txs, tx' = [tx EXCEPT ![t] = G!NoTx], row' = row PROVE G!ParallelInv'
  <2>1. /\ tx'[t].pc = "idle" /\ tx'[t].held = {}
        /\ \A o \in Txs \ {t} : tx'[o] = tx[o]
    BY <1>6 DEF G!NoTx, G!ParallelInv, G!TypeOK
  <2>2. G!LocksHold'
    BY <1>6, <2>1 DEF G!ParallelInv, G!LocksHold, G!LockedByOther
  <2>3. G!ReadsAreAbove' /\ G!AdminRemains'
    BY <1>6, <2>1 DEF G!ParallelInv, G!ReadsAreAbove, G!AdminRemains
  <2>4. G!WriterHoldsOther' /\ G!InProgress'
    BY <2>1 DEF G!ParallelInv, G!WriterHoldsOther, G!InProgress
  <2>. QED  BY <1>0, <2>2, <2>3, <2>4 DEF G!ParallelInv
<1>7. ASSUME NEW t \in Txs, G!WriteRow(t) PROVE G!ParallelInv'
  BY <1>7, LoweringWriteStep
<1>. QED  BY <1>1, <1>2, <1>3, <1>4, <1>5, <1>6, <1>7 DEF G!Next, G!CountOthers, G!Rollback, G!End

\* plugins/admin, guardLastAdmin: "two parallel changes cannot both pass the
\* count".  Any number of demotions and disables in parallel, on a database that
\* is READ COMMITTED, leaves an enabled administrator (SI-05).
THEOREM ParallelGuard ==
    ASSUME G!AdminAssumption, Ops \subseteq {"demote", "disable"}
    PROVE  G!Spec => []G!AdminRemains
<1>1. G!Init => G!ParallelInv
  <2>. SUFFICES ASSUME G!Init PROVE G!ParallelInv
    OBVIOUS
  <2>1. G!TypeOK /\ G!AdminRemains
    BY NoTxType DEF G!Init, G!TypeOK, G!AdminRemains
  <2>2. \A t \in Txs : tx[t].pc = "idle" /\ tx[t].held = {}
    BY DEF G!Init, G!NoTx
  <2>. QED  BY <2>1, <2>2 DEF G!ParallelInv, G!LocksHold, G!ReadsAreAbove, G!WriterHoldsOther, G!InProgress
<1>2. G!ParallelInv /\ [G!Next]_(G!vars) => G!ParallelInv'
  BY ParallelStep
<1>3. G!ParallelInv => G!AdminRemains
  BY DEF G!ParallelInv
<1>. QED  BY <1>1, <1>2, <1>3, PTL DEF G!Spec

-----------------------------------------------------------------------------
(* One connection.                                                         *)

\* While an operation of plugins/admin is open, nothing else begins or writes.
LEMMA OnlyOneOpen ==
    ASSUME G!AdminAssumption, Serial, Ops \subseteq G!AllOps \ {"write"}, G!SerialInv, NEW t \in Txs, G!Connected(t)
    PROVE  \A o \in Txs \ {t} : tx[o].pc = "idle"
BY DEF G!Connected, G!SerialInv, G!InProgress

LEMMA SerialWriteStep ==
    ASSUME G!AdminAssumption, Serial, Ops \subseteq G!AllOps \ {"write"}, G!SerialInv, NEW t \in Txs, G!WriteRow(t)
    PROVE  G!SerialInv'
<1>. DEFINE l == tx[t]
            u == tx[t].user
<1>0. /\ l \in G!Tx /\ u \in Users /\ l.read \in G!Row /\ l.to \in Roles
      /\ l.pc = "write" /\ G!Connected(t)
      /\ tx' = [tx EXCEPT ![t] = G!NoTx]
      /\ row' = [row EXCEPT ![u] = G!Written(l)]
      /\ l.op \in G!AllOps \ {"write"} /\ G!Needed(l.op, l.read, l.to)
      /\ l.read = row[u]
  BY DEF G!SerialInv, G!TypeOK, G!Tx, G!WriteRow, G!End, G!InProgress, G!ReadsAreCurrent
<1>1. G!TypeOK'
  BY TypeStep DEF G!SerialInv, G!Next
<1>2. G!NoTx.pc = "idle" /\ G!NoTx.held = {}
  BY DEF G!NoTx
<1>3. \A o \in Txs : tx'[o].pc = "idle"
  BY <1>0, <1>2, OnlyOneOpen DEF G!SerialInv, G!TypeOK
<1>4. G!AdminRemains'
  <2>0. AdminRole \in Nat /\ l.to \in Nat /\ row[u].role \in Nat
    BY <1>0 DEF G!AdminAssumption, G!Row
  <2>1. CASE G!EnabledAdmin(row[u]) /\ l.op \in {"demote", "disable"}
    <3>1. G!Guarded(l.op, l.read)
      BY <2>1, <1>0 DEF G!Guarded, G!EnabledAdmin
    <3>2. PICK v \in l.held : v # u
      BY <3>1, <1>0 DEF G!SerialInv, G!WriterHoldsOther
    <3>3. v \in Users /\ G!Lockable(row[v])
      BY <3>2, <1>0 DEF G!SerialInv, G!LocksHold, G!Tx
    <3>4. row[v].role \in Nat /\ row'[v] = row[v]
      BY <3>2, <3>3, <1>0 DEF G!AdminAssumption, G!SerialInv, G!TypeOK, G!Row
    <3>. QED  BY <3>3, <3>4, <2>0 DEF G!Lockable, G!EnabledAdmin, G!AdminRemains
  <2>2. CASE G!EnabledAdmin(row[u]) /\ l.op = "promote"
    <3>1. G!Written(l) = [l.read EXCEPT !.role = l.to] /\ l.to >= AdminRole
      BY <2>2, <1>0 DEF G!Written, G!Needed
    <3>2. G!Written(l).role = l.to /\ G!Written(l).disabled = row[u].disabled
      BY <3>1, <1>0 DEF G!Row
    <3>3. row'[u] = G!Written(l)
      BY <1>0 DEF G!SerialInv, G!TypeOK
    <3>. QED  BY <3>1, <3>2, <3>3, <2>2, <1>0 DEF G!EnabledAdmin, G!Enabled, G!AdminRemains
  <2>3. CASE G!EnabledAdmin(row[u]) /\ l.op = "enable"
    <3>1. FALSE
      BY <2>3, <1>0 DEF G!Needed, G!EnabledAdmin, G!Enabled
    <3>. QED  BY <3>1
  <2>4. CASE G!EnabledAdmin(row[u]) /\ l.op = "reset"
    <3>1. row'[u] = row[u]
      BY <2>4, <1>0 DEF G!Written, G!SerialInv, G!TypeOK
    <3>. QED  BY <3>1, <2>4, <1>0 DEF G!AdminRemains
  <2>5. CASE ~G!EnabledAdmin(row[u])
    <3>1. PICK v \in Users : G!EnabledAdmin(row[v])
      BY DEF G!SerialInv, G!AdminRemains
    <3>2. row'[v] = row[v]
      BY <3>1, <2>5, <1>0 DEF G!SerialInv, G!TypeOK
    <3>. QED  BY <3>1, <3>2 DEF G!AdminRemains
  <2>. QED  BY <2>1, <2>2, <2>3, <2>4, <2>5, <1>0 DEF G!AllOps
<1>5. \A o \in Txs : tx'[o].held = {}
  <2>1. \A o \in Txs \ {t} : tx[o].held = {}
    BY <1>0, OnlyOneOpen DEF G!SerialInv, G!IdleHoldsNothing
  <2>. QED  BY <2>1, <1>0, <1>2 DEF G!SerialInv, G!TypeOK
<1>6. G!LocksHold'
  BY <1>5 DEF G!LocksHold
<1>7. G!ReadsAreCurrent' /\ G!WriterHoldsOther' /\ G!InProgress' /\ G!OneOpen' /\ G!IdleHoldsNothing'
  BY <1>3, <1>5 DEF G!ReadsAreCurrent, G!WriterHoldsOther, G!InProgress, G!OneOpen, G!IdleHoldsNothing
<1>. QED  BY <1>1, <1>4, <1>6, <1>7 DEF G!SerialInv

\* The other steps change no row; a transaction begins only when none is open.
LEMMA SerialStep ==
    ASSUME G!AdminAssumption, Serial, Ops \subseteq G!AllOps \ {"write"}, G!SerialInv, [G!Next]_(G!vars)
    PROVE  G!SerialInv'
<1>0. G!TypeOK'
  BY TypeStep DEF G!SerialInv
<1>. DEFINE Same(t) == /\ row' = row
                       /\ \A o \in Txs \ {t} : tx'[o] = tx[o]
<1>1. CASE UNCHANGED G!vars
  BY <1>1 DEF G!vars, G!SerialInv, G!TypeOK, G!AdminRemains, G!LocksHold, G!LockedByOther, G!ReadsAreCurrent,
              G!WriterHoldsOther, G!InProgress, G!OneOpen, G!IdleHoldsNothing
<1>2. ASSUME NEW t \in Txs, NEW op \in Ops, NEW u \in Users, NEW to \in Roles, G!Begin(t, op, u, to)
      PROVE  G!SerialInv'
  <2>1. /\ Same(t) /\ G!Needed(op, row[u], to) /\ G!Connected(t)
        /\ tx'[t].op = op /\ tx'[t].user = u /\ tx'[t].to = to /\ tx'[t].read = row[u]
        /\ tx'[t].held = {} /\ (tx'[t].pc = "write" => ~G!Guarded(op, row[u]))
    BY <1>2 DEF G!Begin, G!SerialInv, G!TypeOK
  <2>2. G!LocksHold' /\ G!IdleHoldsNothing'
    BY <2>1 DEF G!SerialInv, G!LocksHold, G!LockedByOther, G!IdleHoldsNothing
  <2>3. G!ReadsAreCurrent' /\ G!AdminRemains'
    BY <2>1 DEF G!SerialInv, G!ReadsAreCurrent, G!AdminRemains
  <2>4. G!WriterHoldsOther' /\ G!InProgress'
    BY <2>1 DEF G!SerialInv, G!WriterHoldsOther, G!InProgress
  <2>5. G!OneOpen'
    BY <2>1, OnlyOneOpen DEF G!OneOpen
  <2>. QED  BY <1>0, <2>2, <2>3, <2>4, <2>5 DEF G!SerialInv
<1>3. ASSUME NEW t \in Txs, NEW u \in Users, G!LockSnapshot(t) \/ G!LockRow(t, u)
      PROVE  G!SerialInv'
  <2>1. /\ Same(t)
        /\ tx'[t].pc = "lock" /\ tx[t].pc # "idle"
        /\ tx'[t].op = tx[t].op /\ tx'[t].user = tx[t].user /\ tx'[t].to = tx[t].to
        /\ tx'[t].read = tx[t].read
        /\ \/ tx'[t].held = tx[t].held
           \/ /\ tx'[t].held = tx[t].held \cup {u}
              /\ G!Lockable(row[u]) /\ ~G!LockedByOther(t, u)
    BY <1>3 DEF G!LockSnapshot, G!LockRow, G!SerialInv, G!TypeOK, G!Tx
  <2>2. G!LocksHold' /\ G!IdleHoldsNothing'
    BY <2>1 DEF G!SerialInv, G!LocksHold, G!LockedByOther, G!IdleHoldsNothing
  <2>3. G!ReadsAreCurrent' /\ G!AdminRemains'
    BY <2>1 DEF G!SerialInv, G!ReadsAreCurrent, G!AdminRemains
  <2>4. G!WriterHoldsOther' /\ G!InProgress' /\ G!OneOpen'
    BY <2>1 DEF G!SerialInv, G!WriterHoldsOther, G!InProgress, G!OneOpen
  <2>. QED  BY <1>0, <2>2, <2>3, <2>4 DEF G!SerialInv
<1>4. ASSUME NEW t \in Txs, G!CountOthers(t), tx' # [tx EXCEPT ![t] = G!NoTx] PROVE G!SerialInv'
  <2>1. /\ Same(t) /\ tx[t].pc = "lock"
        /\ tx[t].held \ {tx[t].user} # {}
        /\ tx'[t].pc = "write" /\ tx'[t].op = tx[t].op /\ tx'[t].user = tx[t].user
        /\ tx'[t].to = tx[t].to /\ tx'[t].read = tx[t].read /\ tx'[t].held = tx[t].held
    BY <1>4 DEF G!CountOthers, G!End, G!SerialInv, G!TypeOK, G!Tx
  <2>2. G!LocksHold' /\ G!IdleHoldsNothing'
    BY <2>1 DEF G!SerialInv, G!LocksHold, G!LockedByOther, G!IdleHoldsNothing
  <2>3. G!ReadsAreCurrent' /\ G!AdminRemains'
    BY <2>1 DEF G!SerialInv, G!ReadsAreCurrent, G!AdminRemains
  <2>4. G!WriterHoldsOther' /\ G!InProgress' /\ G!OneOpen'
    BY <2>1 DEF G!SerialInv, G!WriterHoldsOther, G!InProgress, G!OneOpen
  <2>. QED  BY <1>0, <2>2, <2>3, <2>4 DEF G!SerialInv
<1>5. ASSUME NEW t \in Txs, tx' = [tx EXCEPT ![t] = G!NoTx], row' = row PROVE G!SerialInv'
  <2>1. Same(t) /\ tx'[t].pc = "idle" /\ tx'[t].held = {}
    BY <1>5 DEF G!NoTx, G!SerialInv, G!TypeOK
  <2>2. G!LocksHold' /\ G!IdleHoldsNothing'
    BY <2>1 DEF G!SerialInv, G!LocksHold, G!LockedByOther, G!IdleHoldsNothing
  <2>3. G!ReadsAreCurrent' /\ G!AdminRemains'
    BY <2>1 DEF G!SerialInv, G!ReadsAreCurrent, G!AdminRemains
  <2>4. G!WriterHoldsOther' /\ G!InProgress' /\ G!OneOpen'
    BY <2>1 DEF G!SerialInv, G!WriterHoldsOther, G!InProgress, G!OneOpen
  <2>. QED  BY <1>0, <2>2, <2>3, <2>4 DEF G!SerialInv
<1>6. ASSUME NEW t \in Txs, G!WriteRow(t) PROVE G!SerialInv'
  BY <1>6, SerialWriteStep
<1>. QED  BY <1>1, <1>2, <1>3, <1>4, <1>5, <1>6
     DEF G!AdminAssumption, G!Next, G!CountOthers, G!Rollback, G!End

\* SI-05 for SQLite, which the library opens with one connection: no sequence of
\* SetRole, Disable, Enable and ResetPassword removes the last administrator.
THEOREM SerialGuard ==
    ASSUME G!AdminAssumption, Serial, Ops \subseteq G!AllOps \ {"write"}
    PROVE  G!Spec => []G!AdminRemains
<1>1. G!Init => G!SerialInv
  <2>. SUFFICES ASSUME G!Init PROVE G!SerialInv
    OBVIOUS
  <2>1. G!TypeOK /\ G!AdminRemains
    BY NoTxType DEF G!Init, G!TypeOK, G!AdminRemains
  <2>2. \A t \in Txs : tx[t].pc = "idle" /\ tx[t].held = {}
    BY DEF G!Init, G!NoTx
  <2>. QED  BY <2>1, <2>2 DEF G!SerialInv, G!LocksHold, G!ReadsAreCurrent, G!WriterHoldsOther, G!InProgress,
                              G!OneOpen, G!IdleHoldsNothing
<1>2. G!SerialInv /\ [G!Next]_(G!vars) => G!SerialInv'
  BY SerialStep
<1>3. G!SerialInv => G!AdminRemains
  BY DEF G!SerialInv
<1>. QED  BY <1>1, <1>2, <1>3, PTL DEF G!Spec
=============================================================================
