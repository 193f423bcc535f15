------------------------- MODULE OAuthGrantsProofs -------------------------
(***************************************************************************)
(* For any number of flows, requests, clients, users and refresh tokens,   *)
(* and any set of operations that happen together: a code gives one set of  *)
(* tokens and a grant one chain of refresh tokens, scopes and keys never     *)
(* widen along the chain, and nothing that begins after the end of its       *)
(* grant is answered.                                                       *)
(***************************************************************************)
EXTENDS OAuthGrants, FiniteSetTheorems, WellFoundedInduction, TLAPS

-----------------------------------------------------------------------------
(* The inductive invariant.                                                *)

\* What a request that holds a place in a flow is at; every other program
\* counter only ends something, or asks the user.
Active == {"grant", "code", "check", "replay", "rotate", "mint", "refresh", "owner"}
Inert(l) == l.pc \notin Active /\ l.succ = NoId

\* The program counters that each operation passes.
Ordered(l) ==
    /\ l.pc \in {"continue", "deny", "upsert", "insert", "consume"} => l.flow \in Flows /\ l.op # "credentials"
    /\ l.pc \in Active => l.flow \in Flows
    /\ l.pc = "check" => l.op \in {"code", "refresh", "replay", "revokeacc", "resource", "userinfo", "introspect"}
    /\ l.pc = "replay" => l.op = "replay"
    /\ l.pc = "rotate" => l.op = "refresh"
    /\ l.pc = "mint" => l.op \in {"code", "refresh", "replay", "credentials"}
    /\ l.pc = "refresh" => l.op \in {"code", "refresh"}
    /\ l.pc = "owner" => l.op \in {"resource", "userinfo"}
    /\ l.succ # NoId => l.pc \in {"mint", "refresh"} /\ l.op = "refresh"

\* A flow goes from the request row to the grant and then to the code.
FlowOrder ==
    \A f \in Flows :
        /\ ask[f].st # "spent" => code[f] = "none" /\ grant[f].st = "none"
        /\ code[f] # "none" => grant[f].st # "none"
        /\ f \in access => grant[f].st # "none"
        /\ f \in ended => grant[f].st = "revoked"

\* A refresh token has a grant and no scope beyond it, and its successor
\* continues it.
Continues(row, next) ==
    /\ next.grant = row.grant /\ next.scopes \subseteq row.scopes /\ row.jkt \in {NoKey, next.jkt}

RowChain ==
    \A r \in Refresh :
        /\ refresh[r].st # "none" =>
             /\ refresh[r].grant \in Flows /\ grant[refresh[r].grant].st # "none"
             /\ refresh[r].scopes \subseteq grant[refresh[r].grant].scopes
        /\ refresh[r].st = "none" => refresh[r].succ = NoId
        /\ refresh[r].succ # NoId /\ refresh[refresh[r].succ].st # "none" =>
             Continues(refresh[r], refresh[refresh[r].succ])

ExpiredHasRow == \A r \in Refresh : refresh[r].expired => refresh[r].st # "none"

\* One request at most makes the grant and the code of a flow.
Makes(l) == l.pc \in {"grant", "code"}

OneMaker ==
    \A q \in Requests :
        /\ Makes(req[q]) =>
             /\ ask[req[q].flow].st = "spent" /\ code[req[q].flow] = "none"
             /\ \A p \in Requests : Makes(req[p]) /\ req[p].flow = req[q].flow => p = q
        /\ req[q].pc = "grant" =>
             /\ grant[req[q].flow].st = "none"
             /\ req[q].op = "credentials" => req[q].scopes = ask[req[q].flow].scopes
        /\ req[q].pc = "code" => grant[req[q].flow].st # "none"

\* A request on a grant finds its row, and asks for no scope beyond it.
Backed(l) ==
    /\ l.pc \in {"check", "replay", "rotate", "mint", "refresh", "owner"} => grant[l.flow].st # "none"
    /\ l.pc \in {"mint", "refresh"} => l.scopes \subseteq grant[l.flow].scopes
    /\ l.pc = "check" /\ l.op \in {"code", "replay"} => l.scopes \subseteq grant[l.flow].scopes

\* A request with a refresh token refers to a row of its grant.
Presents(l) ==
    /\ l.pc \in {"replay", "rotate"} \/ (l.pc = "check" /\ l.op = "refresh") =>
         l.ref \in Refresh /\ refresh[l.ref].st # "none" /\ refresh[l.ref].grant = l.flow
    /\ l.pc = "rotate" \/ (l.pc = "check" /\ l.op = "refresh") =>
         l.scopes \subseteq refresh[l.ref].scopes /\ refresh[l.ref].jkt \in {NoKey, l.jkt}

\* The identifier of a successor belongs to one request until its row exists.
Reserved ==
    \A q \in Requests : req[q].succ # NoId =>
        /\ refresh[req[q].succ].st = "none"
        /\ \A p \in Requests : req[p].succ = req[q].succ => p = q
        /\ \A r \in Refresh : refresh[r].succ = req[q].succ =>
             /\ refresh[r].grant = req[q].flow /\ req[q].scopes \subseteq refresh[r].scopes
             /\ refresh[r].jkt \in {NoKey, req[q].jkt}

\* The end of the chain of a grant: the code, one request, or one row.
Holds(l) == \/ l.pc \in {"mint", "refresh"} /\ l.op \in {"code", "refresh"}
            \/ l.pc = "check" /\ l.op = "code"
Tip(r) == refresh[r].st = "live" /\ refresh[r].rotated = "no"

OneTip ==
    /\ \A f \in Flows : redeemed[f] <= 1 /\ (code[f] # "spent" => redeemed[f] = 0)
    /\ \A r \in Refresh : Tip(r) =>
         /\ code[refresh[r].grant] = "spent"
         /\ \A s \in Refresh : Tip(s) /\ refresh[s].grant = refresh[r].grant => r = s
    /\ \A q \in Requests : Holds(req[q]) =>
         /\ code[req[q].flow] = "spent"
         /\ \A p \in Requests : Holds(req[p]) /\ req[p].flow = req[q].flow => p = q
         /\ \A r \in Refresh : Tip(r) => refresh[r].grant # req[q].flow
         /\ req[q].op = "code" /\ req[q].pc # "refresh" => redeemed[req[q].flow] = 0

\* A call that began too late does not get past the check of its grant, or, with
\* a disabled user, past the read of the user.
Late(l) ==
    l.dead => /\ l.pc \notin {"rotate", "mint", "refresh"}
              /\ l.pc = "grant" => l.op # "credentials"
              /\ l.pc \in {"check", "replay"} => l.flow \in ended \/ Barred(l.op, l.flow)
              /\ l.pc = "owner" => Barred(l.op, l.flow)

Inv ==
    /\ TypeOK
    /\ \A q \in Requests : Ordered(req[q]) /\ Backed(req[q]) /\ Presents(req[q]) /\ Late(req[q])
    /\ FlowOrder /\ RowChain /\ ExpiredHasRow /\ OneMaker /\ Reserved /\ OneTip /\ ~wrong

-----------------------------------------------------------------------------
(* Calls and identifiers.                                                  *)

\* Expired, rotated and revoked rows, spent codes, withdrawn grants: what time
\* and every statement that is not on the chain may do to the tables.
RowAges(old, new) ==
    /\ new.grant = old.grant /\ new.scopes = old.scopes /\ new.jkt = old.jkt /\ new.succ = old.succ
    /\ old.st = "none" <=> new.st = "none"
    /\ new.expired => old.expired \/ new.st # "none"
    /\ new.st = "live" /\ new.rotated = "no" => old.st = "live" /\ old.rotated = "no"

GrantAges(old, new) ==
    /\ new.client = old.client /\ new.user = old.user /\ new.scopes = old.scopes
    /\ new.st = old.st \/ (old.st # "none" /\ new.st = "revoked")

Ages ==
    /\ \A p \in Requests : req'[p] = req[p] \/ Inert(req'[p])
    /\ \A f \in Flows :
         /\ ask[f].st = "spent" => ask'[f].st = "spent" /\ ask'[f].scopes = ask[f].scopes
         /\ code'[f] = code[f] \/ (code[f] = "live" /\ code'[f] = "spent")
         /\ GrantAges(grant[f], grant'[f])
         /\ f \in ended' => grant'[f].st = "revoked"
    /\ access' \subseteq access /\ ended \subseteq ended'
    /\ \A r \in Refresh : RowAges(refresh[r], refresh'[r])
    /\ \A u \in Users : disabled[u] => disabled'[u]
    /\ UNCHANGED <<redeemed, wrong>>

\* Such a step keeps the invariant, if it keeps the types and the order of the
\* program counters.
LEMMA AgesKeeps ==
    ASSUME Inv, Ages, TypeOK', \A q \in Requests : Ordered(req'[q]) PROVE Inv'
<1>1. FlowOrder'
  BY DEF Inv, Ages, FlowOrder, GrantAges
<1>2. RowChain'
  <2>. SUFFICES ASSUME NEW r \in Refresh PROVE RowChain!(r)'
    BY DEF RowChain
  <2>1. RowAges(refresh[r], refresh'[r]) /\ RowChain!(r)
    BY DEF Inv, Ages, RowChain
  <2>2. refresh'[r].st # "none" => grant'[refresh'[r].grant].st # "none" /\ grant'[refresh'[r].grant].scopes = grant[refresh[r].grant].scopes
    BY <2>1 DEF RowAges, GrantAges, Ages
  <2>3. refresh[r].succ \in Refresh => RowAges(refresh[refresh[r].succ], refresh'[refresh[r].succ])
    BY DEF Ages
  <2>4. refresh[r].succ \in Refresh \cup {NoId}
    BY DEF Inv, TypeOK, RefreshRow
  <2>. QED  BY <2>1, <2>2, <2>3, <2>4 DEF RowAges, Continues
<1>3. ASSUME NEW q \in Requests PROVE Backed(req[q])' /\ Presents(req[q])' /\ Late(req[q])'
  <2>1. CASE Inert(req'[q])
    BY <2>1 DEF Inert, Active, Backed, Presents, Late
  <2>2. CASE req'[q] = req[q]
    <3>1. Backed(req[q]) /\ Presents(req[q]) /\ Late(req[q]) /\ Ordered(req[q])
      BY DEF Inv
    <3>2. req[q].flow \in Flows => GrantAges(grant[req[q].flow], grant'[req[q].flow])
      BY DEF Ages
    <3>3. Backed(req[q])'
      BY <2>2, <3>1, <3>2 DEF Backed, Ordered, Active, GrantAges
    <3>4. Presents(req[q])'
      BY <2>2, <3>1 DEF Presents, Ages, RowAges
    <3>5. Late(req[q])'
      <4>1. req[q].flow \in Flows /\ Barred(req[q].op, req[q].flow) => Barred(req[q].op, req[q].flow)'
        BY <2>2, <3>2 DEF Barred, GrantAges, Ages, Inv, TypeOK, GrantRow
      <4>. QED  BY <2>2, <3>1, <4>1 DEF Late, Ages, Ordered, Active
    <3>. QED  BY <3>3, <3>4, <3>5
  <2>. QED  BY <2>1, <2>2 DEF Ages
<1>4. OneMaker'
  <2>. SUFFICES ASSUME NEW q \in Requests, Makes(req'[q]) PROVE OneMaker!(q)'
    BY DEF OneMaker, Makes
  <2>1. req'[q] = req[q] /\ req[q].flow \in Flows
    BY DEF Ages, Inert, Active, Makes, Inv, Ordered
  <2>2. \A p \in Requests : Makes(req'[p]) => req'[p] = req[p]
    BY DEF Ages, Inert, Active, Makes
  <2>3. OneMaker!(q)
    BY DEF Inv, OneMaker
  <2>4. /\ ask[req[q].flow].st = "spent" => ask'[req[q].flow].st = "spent" /\ ask'[req[q].flow].scopes = ask[req[q].flow].scopes
        /\ code[req[q].flow] = "none" => code'[req[q].flow] = "none"
        /\ GrantAges(grant[req[q].flow], grant'[req[q].flow])
    BY <2>1 DEF Ages
  <2>. QED  BY <2>1, <2>2, <2>3, <2>4 DEF Makes, GrantAges
<1>5. Reserved'
  <2>. SUFFICES ASSUME NEW q \in Requests, req'[q].succ # NoId PROVE Reserved!(q)'
    BY DEF Reserved
  <2>1. req'[q] = req[q] /\ req[q].succ \in Refresh
    BY DEF Ages, Inert, Inv, TypeOK, Local
  <2>2. \A p \in Requests : req'[p].succ # NoId => req'[p] = req[p]
    BY DEF Ages, Inert
  <2>. QED  BY <2>1, <2>2 DEF Ages, RowAges, Inv, Reserved
<1>6. OneTip'
  <2>1. \A f \in Flows : redeemed'[f] <= 1 /\ (code'[f] # "spent" => redeemed'[f] = 0)
    BY DEF Ages, Inv, OneTip
  <2>2. \A r \in Refresh : Tip(r)' => Tip(r) /\ refresh'[r].grant = refresh[r].grant /\ refresh[r].grant \in Flows
    BY DEF Ages, RowAges, Tip, Inv, RowChain
  <2>3. \A q \in Requests : Holds(req'[q]) => req'[q] = req[q] /\ req[q].flow \in Flows
    BY DEF Ages, Inert, Active, Holds, Inv, Ordered
  <2>4. \A f \in Flows : code[f] = "spent" => code'[f] = "spent"
    BY DEF Ages
  <2>. QED  BY <2>1, <2>2, <2>3, <2>4 DEF Inv, OneTip, Ages
<1>7. ~wrong'
  BY DEF Inv, Ages
<1>8. ExpiredHasRow'
  BY DEF Inv, Ages, RowAges, ExpiredHasRow
<1>. QED  BY <1>1, <1>2, <1>3, <1>4, <1>5, <1>6, <1>7, <1>8 DEF Inv

\* A request that does not move stays as it is while its rows stay.
LEMMA StayKeeps ==
    ASSUME Inv, NEW p \in Requests, req'[p] = req[p], UNCHANGED <<grant, refresh, disabled, ended>>
    PROVE  Ordered(req[p])' /\ Backed(req[p])' /\ Presents(req[p])' /\ Late(req[p])'
<1>1. Ordered(req[p]) /\ Backed(req[p]) /\ Presents(req[p]) /\ Late(req[p])
  BY DEF Inv
<1>2. Ordered(req[p])' /\ Backed(req[p])'
  BY <1>1 DEF Ordered, Backed
<1>3. Presents(req[p])'
  BY <1>1 DEF Presents
<1>4. Late(req[p])'
  BY <1>1 DEF Late, Barred
<1>. QED  BY <1>2, <1>3, <1>4

\* One request leaves the chain, or goes on to end something.
Settles(q) == \E l \in Local : req' = [req EXCEPT ![q] = l] /\ Inert(l) /\ Ordered(l)

LEMMA QuietKeeps ==
    ASSUME Inv, NEW q \in Requests, Settles(q),
           UNCHANGED <<ask, grant, code, refresh, ended, redeemed, wrong>>, access' \subseteq access,
           consent' \in [Users -> [Clients -> SUBSET Scopes]], client' \in [Clients -> ClientRow],
           disabled' \in [Users -> BOOLEAN], \A u \in Users : disabled[u] => disabled'[u]
    PROVE  Inv'
<1>. PICK l \in Local : req' = [req EXCEPT ![q] = l] /\ Inert(l) /\ Ordered(l)
  BY DEF Settles
<1>1. TypeOK'
  BY DEF Inv, TypeOK
<1>2. \A p \in Requests : IF p = q THEN req'[p] = l ELSE req'[p] = req[p]
  BY DEF Inv, TypeOK
<1>3. Ages
  BY <1>2 DEF Ages, GrantAges, RowAges, Inv, FlowOrder
<1>4. \A p \in Requests : Ordered(req'[p])
  BY <1>2 DEF Inv
<1>. QED  BY <1>1, <1>3, <1>4, AgesKeeps

\* The tables change as time changes them, and no request moves.
LEMMA TimeKeeps ==
    ASSUME Inv, UNCHANGED <<grant, consent, disabled, req, ended, redeemed, wrong>>, access' \subseteq access,
           ask' \in [Flows -> AskRow], code' \in [Flows -> {"none", "live", "spent"}],
           refresh' \in [Refresh -> RefreshRow], client' \in [Clients -> ClientRow],
           \A f \in Flows :
             /\ ask[f].st = "spent" => ask'[f].st = "spent" /\ ask'[f].scopes = ask[f].scopes
             /\ code'[f] = code[f] \/ (code[f] = "live" /\ code'[f] = "spent"),
           \A r \in Refresh : RowAges(refresh[r], refresh'[r])
    PROVE  Inv'
<1>1. TypeOK'
  BY DEF Inv, TypeOK
<1>2. Ages
  BY DEF Ages, GrantAges, Inv, FlowOrder
<1>. QED  BY <1>1, <1>2, AgesKeeps DEF Inv

\* A request that is refused or answered ends.
LEMMA IdleCall ==
    /\ Idle \in Local /\ Inert(Idle) /\ Ordered(Idle)
    /\ Idle.pc = "idle" /\ Idle.succ = NoId /\ Idle.flow = None /\ Idle.op = "none"
<1>1. Idle \in Local
  BY OAuthGrantsAssumption DEF Idle, Local, PCs
<1>2. Idle.pc = "idle" /\ Idle.succ = NoId /\ Idle.flow = None /\ Idle.op = "none"
  BY DEF Idle
<1>. QED  BY <1>1, <1>2 DEF Inert, Ordered, Active

\* The local state of a new call.
LEMMA CallFields ==
    ASSUME NEW op \in AllOps, NEW c \in Clients \cup {None}, NEW f \in Flows \cup {None}
    PROVE  /\ Calling(op, c, f) \in Local
           /\ Calling(op, c, f).op = op /\ Calling(op, c, f).flow = f /\ Calling(op, c, f).succ = NoId
           /\ Calling(op, c, f).client = c
           /\ Calling(op, c, f).dead => f \in ended
<1>. DEFINE d == f \in ended
<1>1. d \in BOOLEAN
  OBVIOUS
<1>2. Calling(op, c, f) = [Idle EXCEPT !.op = op, !.client = c, !.flow = f, !.dead = d]
  BY Zenon DEF Calling
<1>. HIDE DEF d
<1>. DEFINE x == [Idle EXCEPT !.op = op, !.client = c, !.flow = f, !.dead = d]
<1>3. x \in Local
  <2>1. Idle \in Local
    BY IdleCall
  <2>. QED  BY <1>1, <2>1 DEF Local
<1>4. x.op = op /\ x.flow = f /\ x.client = c /\ x.succ = NoId /\ x.dead = d
  BY IdleCall DEF Local
<1>5. Calling(op, c, f).dead => d
  BY <1>2, <1>4
<1>. QED  BY <1>2, <1>3, <1>4, <1>5 DEF d

\* A call that only ends something, or asks the user, starts.
LEMMA InertCall ==
    ASSUME NEW x \in Local, NEW pc \in PCs \ Active, x.succ = NoId, NEW u \in Users \cup {None},
           pc \in {"continue", "deny", "upsert", "insert", "consume"} => x.flow \in Flows /\ x.op # "credentials"
    PROVE  /\ [x EXCEPT !.pc = pc] \in Local /\ Inert([x EXCEPT !.pc = pc]) /\ Ordered([x EXCEPT !.pc = pc])
           /\ [x EXCEPT !.user = u, !.pc = pc] \in Local /\ Inert([x EXCEPT !.user = u, !.pc = pc])
           /\ Ordered([x EXCEPT !.user = u, !.pc = pc])
<1>. pc \in PCs
  OBVIOUS
<1>1. [x EXCEPT !.pc = pc] \in Local /\ [x EXCEPT !.user = u, !.pc = pc] \in Local
  BY DEF Local
<1>2. /\ [x EXCEPT !.pc = pc].pc = pc /\ [x EXCEPT !.pc = pc].succ = NoId
      /\ [x EXCEPT !.pc = pc].flow = x.flow /\ [x EXCEPT !.pc = pc].op = x.op
  BY DEF Local
<1>3. /\ [x EXCEPT !.user = u, !.pc = pc].pc = pc /\ [x EXCEPT !.user = u, !.pc = pc].succ = NoId
      /\ [x EXCEPT !.user = u, !.pc = pc].flow = x.flow /\ [x EXCEPT !.user = u, !.pc = pc].op = x.op
  BY DEF Local
<1>. QED  BY <1>1, <1>2, <1>3 DEF Inert, Ordered, Active

LEMMA ReturnSettles == ASSUME NEW q \in Requests, Return(q) PROVE Settles(q)
  BY IdleCall DEF Return, Settles

LEMMA GotoSettles ==
    ASSUME Inv, NEW q \in Requests, NEW pc \in PCs \ Active, Goto(q, pc), req[q].pc \notin {"mint", "refresh"},
           pc \in {"continue", "deny", "upsert", "insert", "consume"} =>
             req[q].flow \in Flows /\ req[q].op # "credentials"
    PROVE  Settles(q)
<1>1. req[q] \in Local /\ req[q].succ = NoId
  BY DEF Inv, TypeOK, Ordered
<1>2. req' = [req EXCEPT ![q] = [req[q] EXCEPT !.pc = pc]]
  BY DEF Goto
<1>. QED  BY <1>1, <1>2, InertCall DEF Settles

-----------------------------------------------------------------------------
(* The steps that end something, or ask the user.                          *)

\* The consent page of one flow.
LEMMA ConsentKeeps ==
    ASSUME Inv, NEW q \in Requests, ContinueRequest(q) \/ UpsertConsent(q) \/ InsertConsent(q) PROVE Inv'
<1>. USE DEF flow, tokens, others, history
<1>1. TypeOK /\ Ordered(req[q])
  BY DEF Inv
<1>2. "consume" \in PCs \ Active /\ "insert" \in PCs \ Active
  BY DEF PCs, Active
<1>3. CASE ContinueRequest(q)
  <2>1. Settles(q)
    <3>1. CASE Return(q)
      BY <3>1, ReturnSettles
    <3>2. CASE Goto(q, "consume")
      BY <1>1, <1>2, <1>3, <3>2, GotoSettles DEF ContinueRequest, Ordered
    <3>. QED  BY <1>3, <3>1, <3>2 DEF ContinueRequest
  <2>. QED  BY <1>1, <1>3, <2>1, QuietKeeps DEF ContinueRequest, TypeOK
<1>4. ASSUME UpsertConsent(q) \/ InsertConsent(q) PROVE Inv'
  <2>1. req[q].flow \in Flows /\ req[q].op # "credentials" /\ req[q].pc \in {"upsert", "insert"}
    BY <1>1, <1>4 DEF UpsertConsent, InsertConsent, Ordered
  <2>2. Settles(q)
    <3>1. CASE Return(q)
      BY <3>1, ReturnSettles
    <3>2. CASE Goto(q, "consume")
      BY <1>2, <2>1, <3>2, GotoSettles
    <3>3. CASE Goto(q, "insert")
      BY <1>2, <2>1, <3>3, GotoSettles
    <3>. QED  BY <1>4, <3>1, <3>2, <3>3 DEF UpsertConsent, InsertConsent
  <2>3. consent' \in [Users -> [Clients -> SUBSET Scopes]]
    <3>. DEFINE s == ask[req[q].flow].scopes
                u == req[q].user
                c == req[q].client
    <3>1. s \in SUBSET Scopes
      BY <1>1, <2>1 DEF TypeOK, AskRow
    <3>2. UNCHANGED consent \/ consent' = [consent EXCEPT ![u] = [consent[u] EXCEPT ![c] = s]]
      BY <1>4 DEF UpsertConsent, InsertConsent, WriteConsent
    <3>3. consent \in [Users -> [Clients -> SUBSET Scopes]]
      BY <1>1 DEF TypeOK
    <3>. HIDE DEF s, u, c
    <3>4. u \in Users => [consent[u] EXCEPT ![c] = s] \in [Clients -> SUBSET Scopes]
      BY <3>1, <3>3
    <3>. QED  BY <3>2, <3>3, <3>4
  <2>4. UNCHANGED <<ask, grant, code, refresh, ended, redeemed, wrong, access, client, disabled>>
    BY <1>4 DEF UpsertConsent, InsertConsent
  <2>. QED  BY <1>1, <2>2, <2>3, <2>4, QuietKeeps DEF TypeOK
<1>. QED  BY <1>3, <1>4

\* A decision on the consent page, and a refresh token for revocation.
LEMMA DecideKeeps ==
    ASSUME Inv, NEW q \in Requests, NEW f \in Flows, NEW u \in Users, NEW ok \in BOOLEAN, Decide(q, f, u, ok) PROVE Inv'
<1>. DEFINE c == ask[f].client
            x == Calling("decide", c, f)
            pc == CASE ~ok -> "deny" [] ok /\ c \in Static -> "consume" [] OTHER -> "upsert"
<1>1. TypeOK /\ c \in Clients \cup {None}
  BY DEF Inv, TypeOK, AskRow
<1>2. x \in Local /\ x.succ = NoId /\ x.flow = f /\ x.op = "decide"
  BY <1>1, CallFields DEF AllOps
<1>3. pc \in PCs \ Active
  BY DEF PCs, Active
<1>4. req' = [req EXCEPT ![q] = [x EXCEPT !.user = u, !.pc = pc]]
  BY DEF Decide
<1>. HIDE DEF x, pc
<1>5. Settles(q)
  BY <1>2, <1>3, <1>4, InertCall DEF Settles
<1>. QED  BY <1>1, <1>5, QuietKeeps DEF Decide, flow, tokens, others, history, TypeOK

\* Whatever starts a revocation.
LEMMA RevocationStarts ==
    ASSUME Inv, NEW q \in Requests,
           \/ \E r \in Refresh, c \in Presenters : RevokeToken(q, r, c)
           \/ \E u \in Users, c \in Clients : WithdrawConsent(q, u, c)
           \/ \E u \in Users : DisableUser(q, u)
    PROVE  Inv'
<1>. USE DEF flow, tokens, others, history
<1>1. TypeOK
  BY DEF Inv
<1>2. "revoke1" \in PCs \ Active
  BY DEF PCs, Active
<1>3. ASSUME NEW r \in Refresh, NEW c \in Presenters, RevokeToken(q, r, c) PROVE Inv'
  <2>. DEFINE x == Calling("revoke", c, refresh[r].grant)
  <2>1. x \in Local /\ x.succ = NoId
    <3>1. refresh[r].grant \in Flows \cup {None} /\ c \in Clients \cup {None}
      BY <1>1, OAuthGrantsAssumption DEF TypeOK, RefreshRow
    <3>. QED  BY <3>1, CallFields DEF AllOps
  <2>2. req' = [req EXCEPT ![q] = [x EXCEPT !.pc = "revoke1"]]
    BY <1>3 DEF RevokeToken
  <2>. HIDE DEF x
  <2>3. Settles(q)
    BY <1>2, <2>1, <2>2, InertCall DEF Settles
  <2>. QED  BY <1>1, <1>3, <2>3, QuietKeeps DEF RevokeToken, TypeOK
<1>4. ASSUME NEW u \in Users, NEW c \in Clients, WithdrawConsent(q, u, c) PROVE Inv'
  <2>. DEFINE x == [Idle EXCEPT !.op = "withdraw", !.pc = "revoke1", !.user = u, !.client = c]
  <2>1. x \in Local /\ x.pc = "revoke1" /\ x.succ = NoId
    <3>1. Idle \in Local /\ Idle.succ = NoId /\ "withdraw" \in AllOps
      BY IdleCall DEF AllOps
    <3>. QED  BY <1>2, <3>1 DEF Local
  <2>2. req' = [req EXCEPT ![q] = x]
    BY <1>4 DEF WithdrawConsent
  <2>. HIDE DEF x
  <2>3. Settles(q)
    BY <2>1, <2>2 DEF Settles, Inert, Ordered, Active
  <2>4. consent' \in [Users -> [Clients -> SUBSET Scopes]]
    BY <1>1, <1>4 DEF WithdrawConsent, DeleteConsent, TypeOK
  <2>. QED  BY <1>1, <1>4, <2>3, <2>4, QuietKeeps DEF WithdrawConsent, TypeOK
<1>5. ASSUME NEW u \in Users, DisableUser(q, u) PROVE Inv'
  <2>. DEFINE x == [Idle EXCEPT !.op = "disable", !.pc = "revoke1", !.user = u]
  <2>1. x \in Local /\ x.pc = "revoke1" /\ x.succ = NoId
    <3>1. Idle \in Local /\ Idle.succ = NoId /\ "disable" \in AllOps
      BY IdleCall DEF AllOps
    <3>. QED  BY <1>2, <3>1 DEF Local
  <2>2. req' = [req EXCEPT ![q] = x]
    BY <1>5 DEF DisableUser
  <2>. HIDE DEF x
  <2>3. Settles(q)
    BY <2>1, <2>2 DEF Settles, Inert, Ordered, Active
  <2>4. disabled' \in [Users -> BOOLEAN] /\ \A v \in Users : disabled[v] => disabled'[v]
    BY <1>1, <1>5 DEF DisableUser, TypeOK
  <2>. QED  BY <1>1, <1>5, <2>3, <2>4, QuietKeeps DEF DisableUser, TypeOK
<1>. QED  BY <1>3, <1>4, <1>5

\* The three statements of revokeGrantRows.
LEMMA RevocationKeeps ==
    ASSUME Inv, NEW q \in Requests,
           \/ RevokeAccessTokens(q) \/ RevokeRefreshTokens(q) \/ RevokeGrants(q) \/ RevokeAccessToken(q)
    PROVE  Inv'
<1>. USE DEF flow, tokens, others, history
<1>1. TypeOK
  BY DEF Inv
<1>2. "revoke2" \in PCs \ Active /\ "revoke3" \in PCs \ Active
  BY DEF PCs, Active
<1>3. CASE RevokeAccessTokens(q)
  <2>1. Settles(q)
    BY <1>2, <1>3, GotoSettles DEF RevokeAccessTokens
  <2>. QED  BY <1>1, <1>3, <2>1, QuietKeeps DEF RevokeAccessTokens, TypeOK
<1>4. CASE RevokeAccessToken(q)
  BY <1>1, <1>4, ReturnSettles, QuietKeeps DEF RevokeAccessToken, TypeOK
<1>5. ASSUME Settles(q) PROVE /\ req' \in [Requests -> Local]
                              /\ \A p \in Requests : (req'[p] = req[p] \/ Inert(req'[p])) /\ Ordered(req'[p])
  <2>1. PICK l \in Local : req' = [req EXCEPT ![q] = l] /\ Inert(l) /\ Ordered(l)
    BY <1>5 DEF Settles
  <2>2. \A p \in Requests : IF p = q THEN req'[p] = l ELSE req'[p] = req[p]
    BY <1>1, <2>1 DEF TypeOK
  <2>. QED  BY <1>1, <2>1, <2>2 DEF Inv, TypeOK
<1>6. CASE RevokeRefreshTokens(q)
  <2>1. Settles(q)
    BY <1>2, <1>6, GotoSettles DEF RevokeRefreshTokens
  <2>. DEFINE S == Selected(req[q])
  <2>2. /\ refresh' = [r \in Refresh |-> IF refresh[r].st = "live" /\ refresh[r].grant \in S
                                          THEN [refresh[r] EXCEPT !.st = "revoked"] ELSE refresh[r]]
        /\ UNCHANGED <<ask, grant, code, access, mix, consent, client, disabled, ended, redeemed, wrong>>
    BY <1>6 DEF RevokeRefreshTokens
  <2>. HIDE DEF S
  <2>3. \A r \in Refresh : refresh'[r] \in RefreshRow /\ RowAges(refresh[r], refresh'[r])
    <3>. TAKE r \in Refresh
    <3>1. refresh[r] \in RefreshRow
      BY <1>1 DEF TypeOK
    <3>2. [refresh[r] EXCEPT !.st = "revoked"] \in RefreshRow
      BY <3>1 DEF RefreshRow
    <3>3. refresh[r].st = "live" => RowAges(refresh[r], [refresh[r] EXCEPT !.st = "revoked"])
      BY <3>1 DEF RefreshRow, RowAges
    <3>4. RowAges(refresh[r], refresh[r])
      BY DEF RowAges
    <3>. QED  BY <2>2, <3>1, <3>2, <3>3, <3>4
  <2>4. TypeOK'
    BY <1>1, <1>5, <2>1, <2>2, <2>3 DEF TypeOK
  <2>5. Ages
    BY <1>1, <1>5, <2>1, <2>2, <2>3 DEF Ages, GrantAges, Inv, FlowOrder
  <2>. QED  BY <1>5, <2>1, <2>4, <2>5, AgesKeeps
<1>7. CASE RevokeGrants(q)
  <2>1. Settles(q)
    BY <1>7, ReturnSettles DEF RevokeGrants
  <2>. DEFINE S == Selected(req[q])
  <2>2. /\ grant' = [f \in Flows |-> IF f \in S THEN [grant[f] EXCEPT !.st = "revoked"] ELSE grant[f]]
        /\ ended' = ended \cup S
        /\ UNCHANGED <<ask, code, access, refresh, mix, consent, client, disabled, redeemed, wrong>>
    BY <1>7 DEF RevokeGrants
  <2>3. S \subseteq Flows /\ \A f \in S : grant[f].st # "none"
    BY DEF Selected
  <2>. HIDE DEF S
  <2>4. \A f \in Flows : /\ grant'[f] \in GrantRow /\ GrantAges(grant[f], grant'[f])
                         /\ f \in ended' => grant'[f].st = "revoked"
    <3>. TAKE f \in Flows
    <3>1. grant[f] \in GrantRow
      BY <1>1 DEF TypeOK
    <3>2. [grant[f] EXCEPT !.st = "revoked"] \in GrantRow /\ [grant[f] EXCEPT !.st = "revoked"].st = "revoked"
      BY <3>1 DEF GrantRow
    <3>3. grant[f].st # "none" => GrantAges(grant[f], [grant[f] EXCEPT !.st = "revoked"])
      BY <3>1 DEF GrantRow, GrantAges
    <3>4. GrantAges(grant[f], grant[f])
      BY DEF GrantAges
    <3>. QED  BY <2>2, <2>3, <3>1, <3>2, <3>3, <3>4 DEF Inv, FlowOrder
  <2>5. TypeOK'
    BY <1>1, <1>5, <2>1, <2>2, <2>3, <2>4 DEF TypeOK
  <2>6. Ages
    BY <1>1, <1>5, <2>1, <2>2, <2>4 DEF Ages, RowAges
  <2>. QED  BY <1>5, <2>1, <2>5, <2>6, AgesKeeps
<1>. QED  BY <1>3, <1>4, <1>6, <1>7

\* The clients: their rows say who may call, not what a token is.
LEMMA ClientKeeps ==
    ASSUME Inv, NEW q \in Requests,
           \/ \E c \in Clients, op \in {"updateclient", "deleteclient"}, s \in {{}, Scopes} : ReadClient(q, c, op, s)
           \/ UpdateClient(q) \/ DeleteClient(q) \/ Abort(q)
    PROVE  Inv'
<1>. USE DEF flow, tokens, others, history
<1>1. TypeOK
  BY DEF Inv
<1>2. ASSUME NEW c \in Clients, NEW op \in {"updateclient", "deleteclient"}, NEW s \in {{}, Scopes}, ReadClient(q, c, op, s)
      PROVE  Inv'
  <2>. DEFINE x == [Idle EXCEPT !.op = op, !.pc = "client", !.client = c, !.scopes = s]
  <2>1. x \in Local /\ x.pc = "client" /\ x.succ = NoId
    <3>1. Idle \in Local /\ Idle.succ = NoId /\ op \in AllOps /\ s \in SUBSET Scopes /\ "client" \in PCs
      BY IdleCall DEF AllOps, PCs
    <3>. QED  BY <3>1 DEF Local
  <2>2. req' = [req EXCEPT ![q] = x]
    BY <1>2 DEF ReadClient
  <2>. HIDE DEF x
  <2>3. Settles(q)
    BY <2>1, <2>2 DEF Settles, Inert, Ordered, Active
  <2>. QED  BY <1>1, <1>2, <2>3, QuietKeeps DEF ReadClient, TypeOK
<1>3. CASE UpdateClient(q)
  <2>. DEFINE b == req[q].scopes = {}
              c == req[q].client
  <2>1. client' = client \/ client' = [client EXCEPT ![c] = [client[c] EXCEPT !.public = b]]
    BY <1>3 DEF UpdateClient
  <2>2. b \in BOOLEAN
    OBVIOUS
  <2>. HIDE DEF b, c
  <2>3. c \in Clients => [client[c] EXCEPT !.public = b] \in ClientRow
    BY <1>1, <2>2 DEF TypeOK, ClientRow
  <2>4. client' \in [Clients -> ClientRow]
    BY <1>1, <2>1, <2>3 DEF TypeOK
  <2>. QED  BY <1>1, <1>3, <2>4, ReturnSettles, QuietKeeps DEF UpdateClient, TypeOK
<1>4. CASE DeleteClient(q)
  <2>. DEFINE c == req[q].client
  <2>1. client' = [client EXCEPT ![c] = [client[c] EXCEPT !.st = "gone"]]
    BY <1>4 DEF DeleteClient, DeleteOAuthClient
  <2>. HIDE DEF c
  <2>2. c \in Clients => [client[c] EXCEPT !.st = "gone"] \in ClientRow
    BY <1>1 DEF TypeOK, ClientRow
  <2>3. client' \in [Clients -> ClientRow]
    BY <1>1, <2>1, <2>2 DEF TypeOK
  <2>. QED  BY <1>1, <1>4, <2>3, ReturnSettles, QuietKeeps DEF DeleteClient, TypeOK
<1>5. CASE Abort(q)
  BY <1>1, <1>5, ReturnSettles, QuietKeeps DEF Abort, TypeOK
<1>. QED  BY <1>2, <1>3, <1>4, <1>5

\* A row of the table is changed in place: it expires, its grace ends, it goes.
LEMMA RowUpdate ==
    ASSUME Inv, NEW r \in Refresh, NEW row \in RefreshRow, refresh' = [refresh EXCEPT ![r] = row],
           RowAges(refresh[r], row), UNCHANGED <<mix, ask, grant, code, access, consent, client, disabled, req, history>>
    PROVE  Inv'
<1>1. refresh' \in [Refresh -> RefreshRow]
  BY DEF Inv, TypeOK
<1>2. \A t \in Refresh : RowAges(refresh[t], refresh'[t])
  BY DEF Inv, TypeOK, RowAges
<1>. QED  BY <1>1, <1>2, TimeKeeps DEF Inv, TypeOK, history

\* Time, Cleanup, and the registration of a client.
LEMMA TimePasses ==
    ASSUME Inv, \/ Expire \/ \E r \in Refresh : GraceEnds(r) \/ Cleanup(r)
                \/ \E c \in Clients, public \in BOOLEAN : RegisterClient(c, public)
    PROVE  Inv'
<1>. USE DEF flow, tokens, others, history
<1>1. TypeOK
  BY DEF Inv
<1>2. \A r \in Refresh : RowAges(refresh[r], refresh[r])
  BY DEF RowAges
<1>3. ASSUME NEW r \in Refresh, GraceEnds(r) PROVE Inv'
  <2>. DEFINE row == [refresh[r] EXCEPT !.rotated = "past"]
  <2>1. refresh[r] \in RefreshRow /\ refresh[r].rotated = "grace"
    BY <1>1, <1>3 DEF TypeOK, GraceEnds
  <2>2. row \in RefreshRow /\ RowAges(refresh[r], row)
    BY <2>1 DEF RefreshRow, RowAges
  <2>3. refresh' = [refresh EXCEPT ![r] = row]
    BY <1>3 DEF GraceEnds
  <2>. HIDE DEF row
  <2>. QED  BY <1>3, <2>2, <2>3, RowUpdate DEF GraceEnds
<1>4. ASSUME NEW r \in Refresh, Cleanup(r) PROVE Inv'
  <2>. DEFINE row == [refresh[r] EXCEPT !.st = "gone"]
  <2>1. refresh[r] \in RefreshRow
    BY <1>1 DEF TypeOK
  <2>2. refresh[r].st # "none"
    BY <1>4 DEF Cleanup, Inv, ExpiredHasRow
  <2>3. row \in RefreshRow /\ RowAges(refresh[r], row)
    BY <2>1, <2>2 DEF RefreshRow, RowAges
  <2>4. refresh' = [refresh EXCEPT ![r] = row]
    BY <1>4 DEF Cleanup
  <2>. HIDE DEF row
  <2>. QED  BY <1>4, <2>3, <2>4, RowUpdate DEF Cleanup
<1>5. CASE Expire
  <2>1. ASSUME NEW f \in Flows, ask' = [ask EXCEPT ![f].st = "spent"], ask[f].st = "open",
               UNCHANGED <<code, access, refresh>>
        PROVE  Inv'
    <3>. DEFINE row == [ask[f] EXCEPT !.st = "spent"]
    <3>1. row \in AskRow
      BY <1>1 DEF TypeOK, AskRow
    <3>2. ask' = [ask EXCEPT ![f] = row]
      BY <2>1
    <3>. HIDE DEF row
    <3>3. ask' \in [Flows -> AskRow]
      BY <1>1, <3>1, <3>2 DEF TypeOK
    <3>4. \A g \in Flows : ask[g].st = "spent" => ask'[g] = ask[g]
      BY <1>1, <2>1, <3>2 DEF TypeOK
    <3>. QED  BY <1>1, <1>2, <1>5, <2>1, <3>3, <3>4, TimeKeeps DEF Expire, TypeOK
  <2>2. ASSUME NEW f \in Flows, code[f] = "live", code' = [code EXCEPT ![f] = "spent"], UNCHANGED <<ask, access, refresh>>
        PROVE  Inv'
    <3>1. /\ code' \in [Flows -> {"none", "live", "spent"}]
          /\ \A g \in Flows : code'[g] = code[g] \/ (code[g] = "live" /\ code'[g] = "spent")
      BY <1>1, <2>2 DEF TypeOK
    <3>. QED  BY <1>1, <1>2, <1>5, <2>2, <3>1, TimeKeeps DEF Expire, TypeOK
  <2>3. ASSUME NEW f \in access, access' = access \ {f}, UNCHANGED <<ask, code, refresh>> PROVE Inv'
    BY <1>1, <1>2, <1>5, <2>3, TimeKeeps DEF Expire, TypeOK
  <2>4. ASSUME NEW r \in Refresh, refresh[r].st = "live", refresh' = [refresh EXCEPT ![r].expired = TRUE],
               UNCHANGED <<ask, code, access>>
        PROVE  Inv'
    <3>. DEFINE row == [refresh[r] EXCEPT !.expired = TRUE]
    <3>1. refresh[r] \in RefreshRow
      BY <1>1 DEF TypeOK
    <3>2. row \in RefreshRow
      BY <3>1 DEF RefreshRow
    <3>3. RowAges(refresh[r], row)
      BY <2>4, <3>1 DEF RefreshRow, RowAges
    <3>4. refresh' = [refresh EXCEPT ![r] = row]
      BY <2>4
    <3>. HIDE DEF row
    <3>. QED  BY <1>5, <2>4, <3>2, <3>3, <3>4, RowUpdate DEF Expire
  <2>. QED  BY <1>5, <2>1, <2>2, <2>3, <2>4 DEF Expire
<1>6. ASSUME NEW c \in Clients, NEW public \in BOOLEAN, RegisterClient(c, public) PROVE Inv'
  <2>1. [st |-> "live", public |-> public, secret |-> ~public] \in ClientRow
    BY DEF ClientRow
  <2>2. client' \in [Clients -> ClientRow]
    BY <1>1, <1>6, <2>1 DEF RegisterClient, InsertClient, TypeOK
  <2>. QED  BY <1>1, <1>2, <1>6, <2>2, TimeKeeps DEF RegisterClient, TypeOK
<1>. QED  BY <1>3, <1>4, <1>5, <1>6

-----------------------------------------------------------------------------
(* The authorization request, the grant and the code.                      *)

\* The row of the request, and the page of the host.
LEMMA AuthorizeKeeps ==
    ASSUME Inv, NEW q \in Requests, NEW f \in Flows, NEW u \in Users, NEW c \in Clients, NEW s \in Wanted,
           NEW k \in Proofs, Authorize(q, f, u, c, s, k)
    PROVE  Inv'
<1>1. TypeOK
  BY DEF Inv
<1>. DEFINE x == Calling("authorize", c, f)
            l == [x EXCEPT !.user = u, !.pc = "continue"]
            row == [st |-> "open", client |-> c, scopes |-> s, jkt |-> k]
<1>2. x \in Local /\ x.succ = NoId /\ x.flow = f /\ x.op = "authorize"
  BY CallFields DEF AllOps
<1>3. req' = [req EXCEPT ![q] = [x EXCEPT !.pc = "continue", !.user = u]]
  BY DEF Authorize
<1>. HIDE DEF x
<1>4. [x EXCEPT !.pc = "continue", !.user = u] = l
  BY <1>2 DEF Local
<1>5. l \in Local /\ Inert(l) /\ Ordered(l)
  BY <1>2, InertCall DEF PCs, Active
<1>6. row \in AskRow /\ ask' = [ask EXCEPT ![f] = row]
  <2>1. s \in SUBSET Scopes /\ k \in Keys
    BY OAuthGrantsAssumption DEF Wanted, Proofs
  <2>. QED  BY <2>1 DEF Authorize, InsertRequest, AskRow
<1>. HIDE DEF l, row
<1>7. /\ \A p \in Requests : IF p = q THEN req'[p] = l ELSE req'[p] = req[p]
      /\ \A g \in Flows : IF g = f THEN ask'[g] = row ELSE ask'[g] = ask[g]
  BY <1>1, <1>3, <1>4, <1>6 DEF TypeOK
<1>8. ask[f].st # "spent" /\ UNCHANGED <<grant, code, access, refresh, consent, client, disabled, ended, redeemed, wrong>>
  BY DEF Authorize, tokens, others, history
<1>9. TypeOK'
  BY <1>1, <1>3, <1>4, <1>5, <1>6, <1>8 DEF TypeOK
<1>10. Ages
  BY <1>5, <1>7, <1>8 DEF Ages, GrantAges, RowAges, Inv, FlowOrder
<1>11. \A p \in Requests : Ordered(req'[p])
  BY <1>5, <1>7 DEF Inv
<1>. QED  BY <1>9, <1>10, <1>11, AgesKeeps

\* A request becomes the one that makes the grant of a flow: the consent page
\* consumed the row, or a client with credentials of its own begins.
LEMMA MakerKeeps ==
    ASSUME Inv, NEW q \in Requests, NEW f \in Flows, NEW row \in AskRow, NEW l \in Local,
           req' = [req EXCEPT ![q] = l], ask' = [ask EXCEPT ![f] = row],
           ask[f].st # "spent", row.st = "spent", l.pc = "grant", l.flow = f, l.succ = NoId,
           l.op = "credentials" => l.scopes = row.scopes /\ ~l.dead,
           UNCHANGED <<grant, code, access, refresh, consent, client, disabled, ended, redeemed, wrong>>
    PROVE  Inv'
<1>1. TypeOK
  BY DEF Inv
<1>2. /\ \A p \in Requests : IF p = q THEN req'[p] = l ELSE req'[p] = req[p]
      /\ \A g \in Flows : IF g = f THEN ask'[g] = row ELSE ask'[g] = ask[g]
  BY <1>1 DEF TypeOK
<1>3. TypeOK'
  BY <1>1 DEF TypeOK
<1>4. code[f] = "none" /\ grant[f].st = "none"
  BY DEF Inv, FlowOrder
<1>5. \A p \in Requests : Makes(req[p]) => req[p].flow # f
  BY DEF Inv, OneMaker
<1>6. ~Holds(l) /\ Makes(l) /\ Ordered(l) /\ Backed(l) /\ Presents(l) /\ Late(l)
  BY DEF Holds, Makes, Ordered, Backed, Presents, Late, Active
<1>7. FlowOrder' /\ RowChain' /\ ExpiredHasRow' /\ ~wrong'
  BY <1>2 DEF Inv, FlowOrder, RowChain, ExpiredHasRow, Continues
<1>8. \A p \in Requests : Ordered(req[p])' /\ Backed(req[p])' /\ Presents(req[p])' /\ Late(req[p])'
  <2>. TAKE p \in Requests
  <2>1. CASE p = q
    BY <1>2, <1>6, <2>1 DEF Ordered, Backed, Presents, Late, Barred
  <2>2. CASE p # q
    BY <1>2, <2>2, StayKeeps
  <2>. QED  BY <2>1, <2>2
<1>9. OneMaker'
  <2>. SUFFICES ASSUME NEW p \in Requests PROVE OneMaker!(p)'
    BY DEF OneMaker
  <2>1. CASE p = q
    BY <1>2, <1>4, <1>5, <2>1 DEF Makes
  <2>2. CASE p # q
    <3>1. Makes(req[p]) => req[p].flow \in Flows /\ req[p].flow # f
      BY <1>5 DEF Inv, Ordered, Makes, Active
    <3>2. OneMaker!(p)
      BY DEF Inv, OneMaker
    <3>. QED  BY <1>2, <2>2, <3>1, <3>2 DEF Makes
  <2>. QED  BY <2>1, <2>2
<1>10. Reserved'
  BY <1>2 DEF Inv, Reserved
<1>11. OneTip'
  BY <1>2, <1>6 DEF Inv, OneTip, Tip
<1>. QED  BY <1>3, <1>7, <1>8, <1>9, <1>10, <1>11 DEF Inv

\* The consent page consumes the row of the request, and the client credentials
\* grant needs none.
LEMMA ConsumeKeeps ==
    ASSUME Inv, NEW q \in Requests,
           \/ ConsumeRequest(q)
           \/ \E f \in Flows, c \in Presenters, s \in Asked : ClientCredentials(q, f, c, s)
    PROVE  Inv'
<1>1. TypeOK
  BY DEF Inv
<1>2. CASE ConsumeRequest(q)
  <2>. DEFINE f == req[q].flow
              row == [ask[f] EXCEPT !.st = "spent"]
  <2>1. ask' = [ask EXCEPT ![f] = row] /\ UNCHANGED <<grant, code, access, refresh, consent, client, disabled, ended, redeemed, wrong>>
    BY <1>2 DEF ConsumeRequest, tokens, others, history
  <2>2. f \in Flows => row \in AskRow /\ row.st = "spent" /\ row.scopes = ask[f].scopes
    <3>. SUFFICES ASSUME f \in Flows PROVE row \in AskRow /\ row.st = "spent" /\ row.scopes = ask[f].scopes
      OBVIOUS
    <3>1. ask[f] \in AskRow
      BY <1>1 DEF TypeOK
    <3>. QED  BY <3>1 DEF AskRow
  <2>3. f \in Flows /\ req[q].op # "credentials" /\ req[q].succ = NoId
    BY <1>2 DEF ConsumeRequest, Inv, Ordered
  <2>. HIDE DEF row
  <2>4. CASE ask[f].st = "open" /\ req[q].pc = "consume"
    <3>. DEFINE l == [req[q] EXCEPT !.pc = "grant"]
    <3>1. req' = [req EXCEPT ![q] = l]
      BY <1>2, <2>4 DEF ConsumeRequest, Goto
    <3>2. l \in Local /\ l.pc = "grant" /\ l.flow = f /\ l.op # "credentials" /\ l.succ = NoId
      <4>1. req[q] \in Local /\ "grant" \in PCs
        BY <1>1 DEF TypeOK, PCs
      <4>. QED  BY <2>3, <4>1 DEF Local
    <3>. HIDE DEF l
    <3>. QED  BY <2>1, <2>2, <2>3, <2>4, <3>1, <3>2, MakerKeeps
  <2>5. CASE ~(ask[f].st = "open" /\ req[q].pc = "consume")
    <3>1. req' = [req EXCEPT ![q] = Idle]
      BY <1>2, <2>5 DEF ConsumeRequest, Return
    <3>2. /\ \A p \in Requests : IF p = q THEN req'[p] = Idle ELSE req'[p] = req[p]
          /\ \A g \in Flows : IF g = f THEN ask'[g] = row ELSE ask'[g] = ask[g]
      BY <1>1, <2>1, <2>3, <3>1 DEF TypeOK
    <3>3. TypeOK'
      BY <1>1, <2>1, <2>2, <2>3, <3>1, IdleCall DEF TypeOK
    <3>4. Ages
      BY <2>1, <2>2, <2>3, <3>2, IdleCall DEF Ages, GrantAges, RowAges, Inv, FlowOrder
    <3>5. \A p \in Requests : Ordered(req'[p])
      BY <3>2, IdleCall DEF Inv
    <3>. QED  BY <3>3, <3>4, <3>5, AgesKeeps
  <2>. QED  BY <2>4, <2>5
<1>3. ASSUME NEW f \in Flows, NEW c \in Presenters, NEW s \in Asked, ClientCredentials(q, f, c, s) PROVE Inv'
  <2>. DEFINE x == Calling("credentials", c, f)
              l == [x EXCEPT !.pc = "grant", !.scopes = s]
              row == [st |-> "spent", client |-> c, scopes |-> s, jkt |-> NoKey]
  <2>1. c \in Clients /\ s \in SUBSET Scopes
    BY OAuthGrantsAssumption
  <2>2. x \in Local /\ x.succ = NoId /\ x.flow = f /\ x.op = "credentials" /\ (x.dead => f \in ended)
    BY <2>1, CallFields DEF AllOps
  <2>3. f \notin ended /\ Known(c)
    BY <1>3 DEF ClientCredentials, Authenticated, Inv, FlowOrder
  <2>4. req' = [req EXCEPT ![q] = l] /\ ask' = [ask EXCEPT ![f] = row] /\ ask[f].st # "spent"
    BY <1>3 DEF ClientCredentials
  <2>5. UNCHANGED <<grant, code, access, refresh, consent, client, disabled, ended, redeemed, wrong>>
    BY <1>3 DEF ClientCredentials, tokens, others, history
  <2>. HIDE DEF x
  <2>6. l \in Local /\ l.pc = "grant" /\ l.flow = f /\ l.scopes = s /\ l.succ = NoId /\ ~l.dead
    BY <2>1, <2>2, <2>3 DEF Local, PCs
  <2>7. row \in AskRow /\ row.st = "spent" /\ row.scopes = s
    BY <2>1, OAuthGrantsAssumption DEF AskRow
  <2>. HIDE DEF l, row
  <2>. QED  BY <2>4, <2>5, <2>6, <2>7, MakerKeeps
<1>. QED  BY <1>2, <1>3

\* CreateOAuthGrant inserts a row that did not exist: no token refers to it yet.
LEMMA GrantKeeps == ASSUME Inv, NEW q \in Requests, CreateGrant(q) PROVE Inv'
<1>. DEFINE f == req[q].flow
            pc == IF req[q].op = "credentials" THEN "mint" ELSE "code"
            m == [req[q] EXCEPT !.pc = pc]
            row == [st |-> "live", client |-> req[q].client, user |-> req[q].user, scopes |-> ask[f].scopes]
<1>1. TypeOK /\ req[q] \in Local /\ pc \in PCs
  BY DEF Inv, TypeOK, PCs
<1>2. f \in Flows /\ req[q].pc = "grant" /\ Ordered(req[q]) /\ Late(req[q])
  BY DEF CreateGrant, Inv, Ordered, Active
<1>3. /\ ask[f].st = "spent" /\ code[f] = "none" /\ grant[f].st = "none"
      /\ \A p \in Requests : Makes(req[p]) /\ req[p].flow = f => p = q
      /\ req[q].op = "credentials" => req[q].scopes = ask[f].scopes
  BY <1>2 DEF Inv, OneMaker, Makes
<1>4. f \notin access /\ f \notin ended
  BY <1>2, <1>3 DEF Inv, FlowOrder
<1>5. row \in GrantRow
  <2>1. ask[f].scopes \in SUBSET Scopes
    BY <1>1, <1>2 DEF TypeOK, AskRow
  <2>. QED  BY <1>1, <2>1 DEF GrantRow, Local
<1>6. m \in Local
  BY <1>1 DEF Local
<1>7. /\ m.pc = pc /\ m.op = req[q].op /\ m.flow = f /\ m.scopes = req[q].scopes
      /\ m.succ = NoId /\ m.dead = req[q].dead
  BY <1>1, <1>2 DEF Local, Ordered
<1>8. req' = [req EXCEPT ![q] = m] /\ grant' = [grant EXCEPT ![f] = row]
  BY DEF CreateGrant, Goto, InsertGrant
<1>9. UNCHANGED <<ask, code, access, refresh, consent, client, disabled, ended, redeemed, wrong>>
  BY DEF CreateGrant, tokens, others, history
<1>10. row.st = "live" /\ row.scopes = ask[f].scopes
  OBVIOUS
<1>. HIDE DEF m, row
<1>11. /\ \A p \in Requests : IF p = q THEN req'[p] = m ELSE req'[p] = req[p]
       /\ \A g \in Flows : IF g = f THEN grant'[g] = row ELSE grant'[g] = grant[g]
  BY <1>1, <1>8 DEF TypeOK
<1>12. TypeOK'
  BY <1>1, <1>5, <1>6, <1>8, <1>9 DEF TypeOK
<1>13. FlowOrder' /\ ExpiredHasRow' /\ ~wrong'
  BY <1>3, <1>4, <1>9, <1>10, <1>11 DEF Inv, FlowOrder, ExpiredHasRow
<1>14. RowChain'
  BY <1>3, <1>9, <1>11 DEF Inv, RowChain, Continues
<1>15. \A p \in Requests : Ordered(req[p])' /\ Backed(req[p])' /\ Presents(req[p])' /\ Late(req[p])'
  <2>. TAKE p \in Requests
  <2>1. CASE p = q
    <3>1. /\ req'[p].pc = pc /\ req'[p].op = req[q].op /\ req'[p].flow = f /\ req'[p].scopes = req[q].scopes
          /\ req'[p].succ = NoId /\ req'[p].dead = req[q].dead
      BY <1>7, <1>11, <2>1
    <3>2. Ordered(req[p])' /\ Presents(req[p])' /\ Late(req[p])'
      BY <1>2, <3>1 DEF Ordered, Presents, Late, Active
    <3>3. Backed(req[p])'
      BY <1>2, <1>3, <1>10, <1>11, <3>1 DEF Backed
    <3>. QED  BY <3>2, <3>3
  <2>2. CASE p # q
    <3>1. Ordered(req[p]) /\ Backed(req[p]) /\ Presents(req[p]) /\ Late(req[p])
      BY DEF Inv
    <3>2. req[p].pc \in {"check", "replay", "rotate", "mint", "refresh", "owner"} => req[p].flow \in Flows /\ req[p].flow # f
      BY <1>3, <3>1 DEF Backed, Ordered, Active
    <3>3. Backed(req[p])' /\ Ordered(req[p])' /\ Presents(req[p])'
      BY <1>9, <1>11, <2>2, <3>1, <3>2 DEF Backed, Ordered, Presents
    <3>4. Late(req[p])'
      BY <1>9, <1>11, <2>2, <3>1, <3>2 DEF Late, Barred
    <3>. QED  BY <3>3, <3>4
  <2>. QED  BY <2>1, <2>2
<1>16. OneMaker'
  <2>. SUFFICES ASSUME NEW p \in Requests PROVE OneMaker!(p)'
    BY DEF OneMaker
  <2>1. CASE p = q
    BY <1>3, <1>7, <1>9, <1>10, <1>11, <1>2, <2>1 DEF Makes
  <2>2. CASE p # q
    <3>1. OneMaker!(p) /\ (Makes(req[p]) => req[p].flow \in Flows /\ req[p].flow # f)
      BY <1>3, <2>2 DEF Inv, OneMaker, Ordered, Makes, Active
    <3>. QED  BY <1>7, <1>9, <1>11, <2>2, <3>1 DEF Makes
  <2>. QED  BY <2>1, <2>2
<1>17. Reserved'
  BY <1>7, <1>9, <1>11 DEF Inv, Reserved
<1>18. OneTip'
  <2>1. ~Holds(m)
    BY <1>7 DEF Holds
  <2>. QED  BY <1>9, <1>11, <2>1 DEF Inv, OneTip, Tip
<1>. QED  BY <1>12, <1>13, <1>14, <1>15, <1>16, <1>17, <1>18 DEF Inv

\* A code is inserted once for a flow, and by the one request that made the grant.
LEMMA CodeKeeps == ASSUME Inv, NEW q \in Requests, CreateCode(q) PROVE Inv'
<1>. DEFINE f == req[q].flow
<1>1. TypeOK
  BY DEF Inv
<1>2. f \in Flows /\ req[q].pc = "code"
  BY DEF CreateCode, Inv, Ordered, Active
<1>3. /\ ask[f].st = "spent" /\ code[f] = "none" /\ grant[f].st # "none"
      /\ \A p \in Requests : Makes(req[p]) /\ req[p].flow = f => p = q
  BY <1>2 DEF Inv, OneMaker, Makes
<1>4. /\ \A p \in Requests : IF p = q THEN req'[p] = Idle ELSE req'[p] = req[p]
      /\ \A g \in Flows : IF g = f THEN code'[g] = "live" ELSE code'[g] = code[g]
  BY <1>1, <1>2 DEF CreateCode, Return, InsertCode, TypeOK
<1>5. UNCHANGED <<ask, grant, access, refresh, consent, client, disabled, ended, redeemed, wrong>>
  BY DEF CreateCode, tokens, others, history
<1>6. TypeOK'
  BY <1>1, <1>5, IdleCall DEF CreateCode, Return, InsertCode, TypeOK
<1>7. Ordered(Idle) /\ Backed(Idle)' /\ Presents(Idle)' /\ Late(Idle)' /\ ~Makes(Idle) /\ ~Holds(Idle)
  BY IdleCall DEF Backed, Presents, Late, Makes, Holds
<1>8. FlowOrder' /\ ExpiredHasRow' /\ RowChain' /\ ~wrong'
  BY <1>3, <1>4, <1>5 DEF Inv, FlowOrder, ExpiredHasRow, RowChain, Continues
<1>9. \A p \in Requests : Ordered(req[p])' /\ Backed(req[p])' /\ Presents(req[p])' /\ Late(req[p])'
  <2>. TAKE p \in Requests
  <2>1. CASE p = q
    BY <1>4, <1>7, <2>1 DEF Ordered, Backed, Presents, Late, Barred
  <2>2. CASE p # q
    BY <1>4, <1>5, <2>2, StayKeeps
  <2>. QED  BY <2>1, <2>2
<1>10. OneMaker'
  <2>. SUFFICES ASSUME NEW p \in Requests PROVE OneMaker!(p)'
    BY DEF OneMaker
  <2>1. CASE p = q
    BY <1>4, <1>7, <2>1, IdleCall DEF Makes
  <2>2. CASE p # q
    <3>1. OneMaker!(p) /\ (Makes(req[p]) => req[p].flow \in Flows /\ req[p].flow # f)
      BY <1>3, <2>2 DEF Inv, OneMaker, Ordered, Makes, Active
    <3>. QED  BY <1>4, <1>5, <1>7, <2>2, <3>1 DEF Makes
  <2>. QED  BY <2>1, <2>2
<1>11. Reserved'
  BY <1>4, <1>5, IdleCall DEF Inv, Reserved
<1>12. OneTip'
  <2>1. redeemed[f] = 0 /\ \A r \in Refresh : Tip(r) => refresh[r].grant # f /\ refresh[r].grant \in Flows
    BY <1>2, <1>3 DEF Inv, OneTip, RowChain, Tip
  <2>2. \A p \in Requests : Holds(req[p]) => req[p].flow # f /\ req[p].flow \in Flows
    BY <1>3 DEF Inv, OneTip, Ordered, Holds, Active
  <2>. QED  BY <1>2, <1>4, <1>5, <1>7, <2>1, <2>2 DEF Inv, OneTip, Tip
<1>. QED  BY <1>6, <1>8, <1>9, <1>10, <1>11, <1>12 DEF Inv

-----------------------------------------------------------------------------
(* Calls on a grant.                                                       *)

\* A request goes on, and the tables stay.
LEMMA MoveKeeps ==
    ASSUME Inv, NEW q \in Requests, NEW l \in Local, req' = [req EXCEPT ![q] = l],
           UNCHANGED <<ask, grant, code, access, refresh, consent, client, disabled, ended, redeemed, wrong>>,
           Ordered(l), Backed(l), Presents(l), Late(l), l.succ = NoId, ~Makes(l),
           Holds(l) => Holds(req[q]) /\ req[q].pc = "check" /\ req[q].flow = l.flow /\ req[q].op = l.op
    PROVE  Inv'
<1>1. \A p \in Requests : IF p = q THEN req'[p] = l ELSE req'[p] = req[p]
  BY DEF Inv, TypeOK
<1>2. TypeOK'
  BY DEF Inv, TypeOK
<1>3. FlowOrder' /\ RowChain' /\ ExpiredHasRow' /\ ~wrong'
  BY DEF Inv, FlowOrder, RowChain, ExpiredHasRow, Continues
<1>4. \A p \in Requests : Ordered(req[p])' /\ Backed(req[p])' /\ Presents(req[p])' /\ Late(req[p])'
  <2>. TAKE p \in Requests
  <2>1. CASE p = q
    <3>1. req'[p] = l
      BY <1>1, <2>1
    <3>2. Ordered(req[p])' /\ Backed(req[p])'
      BY <3>1 DEF Ordered, Backed
    <3>3. Presents(req[p])'
      BY <3>1 DEF Presents
    <3>4. Late(req[p])'
      BY <3>1 DEF Late, Barred
    <3>. QED  BY <3>2, <3>3, <3>4
  <2>2. CASE p # q
    BY <1>1, <2>2, StayKeeps
  <2>. QED  BY <2>1, <2>2
<1>5. OneMaker'
  BY <1>1 DEF Inv, OneMaker, Makes
<1>6. Reserved'
  BY <1>1 DEF Inv, Reserved
<1>7. OneTip'
  <2>1. Holds(l) /\ l.op = "code" /\ l.pc # "refresh" => req[q].op = "code" /\ req[q].pc # "refresh"
    OBVIOUS
  <2>2. \A p \in Requests : Holds(req'[p]) => Holds(req[p]) /\ req'[p].flow = req[p].flow
    BY <1>1
  <2>3. \A p \in Requests : Holds(req'[p]) /\ req'[p].op = "code" /\ req'[p].pc # "refresh" =>
          req[p].op = "code" /\ req[p].pc # "refresh"
    BY <1>1, <2>1
  <2>. QED  BY <2>2, <2>3 DEF Inv, OneTip, Tip
<1>. QED  BY <1>2, <1>3, <1>4, <1>5, <1>6, <1>7 DEF Inv

\* ConsumeOAuthCode: the code is spent, and the call that spent it holds the end
\* of the chain, unless something is wrong with it.
LEMMA SpendKeeps ==
    ASSUME Inv, NEW q \in Requests, NEW f \in Flows, NEW l \in Local, req' = [req EXCEPT ![q] = l],
           code[f] = "live", code' = [code EXCEPT ![f] = "spent"],
           UNCHANGED <<ask, grant, access, refresh, consent, client, disabled, ended, redeemed, wrong>>,
           Ordered(l), l.succ = NoId,
           \/ Inert(l)
           \/ /\ l.pc = "check" /\ l.op = "code" /\ l.flow = f /\ l.scopes = grant[f].scopes
              /\ l.dead => f \in ended
    PROVE  Inv'
<1>1. TypeOK
  BY DEF Inv
<1>2. /\ \A p \in Requests : IF p = q THEN req'[p] = l ELSE req'[p] = req[p]
      /\ \A g \in Flows : IF g = f THEN code'[g] = "spent" ELSE code'[g] = code[g]
  BY <1>1 DEF TypeOK
<1>3. TypeOK'
  BY <1>1 DEF TypeOK
<1>4. ask[f].st = "spent" /\ grant[f].st # "none" /\ redeemed[f] = 0
  BY DEF Inv, FlowOrder, OneTip
<1>5. FlowOrder' /\ RowChain' /\ ExpiredHasRow' /\ ~wrong'
  BY <1>2, <1>4 DEF Inv, FlowOrder, RowChain, ExpiredHasRow, Continues
<1>6. Backed(l) /\ Presents(l) /\ Late(l) /\ ~Makes(l)
  BY <1>4 DEF Backed, Presents, Late, Makes, Inert, Active
<1>7. \A p \in Requests : Ordered(req[p])' /\ Backed(req[p])' /\ Presents(req[p])' /\ Late(req[p])'
  <2>. TAKE p \in Requests
  <2>1. CASE p = q
    BY <1>2, <1>6, <2>1 DEF Ordered, Backed, Presents, Late, Barred
  <2>2. CASE p # q
    BY <1>2, <2>2, StayKeeps
  <2>. QED  BY <2>1, <2>2
<1>8. OneMaker'
  <2>1. \A p \in Requests : Makes(req[p]) => req[p].flow \in Flows /\ req[p].flow # f
    BY DEF Inv, OneMaker, Ordered, Makes, Active
  <2>. QED  BY <1>2, <1>6, <2>1 DEF Inv, OneMaker, Makes
<1>9. Reserved'
  BY <1>2 DEF Inv, Reserved
<1>10. OneTip'
  <2>1. \A g \in Flows : redeemed[g] <= 1 /\ (code'[g] # "spent" => redeemed[g] = 0)
    BY <1>2 DEF Inv, OneTip
  <2>2. \A r \in Refresh : Tip(r) => refresh[r].grant \in Flows /\ refresh[r].grant # f
    BY DEF Inv, OneTip, RowChain, Tip
  <2>3. \A p \in Requests : Holds(req[p]) => req[p].flow \in Flows /\ req[p].flow # f
    BY DEF Inv, OneTip, Ordered, Holds, Active
  <2>4. Holds(l) => l.flow = f
    BY DEF Holds, Inert, Active
  <2>5. /\ UNCHANGED <<refresh, redeemed>>
        /\ \A r \in Refresh : Tip(r)' <=> Tip(r)
    BY DEF Tip
  <2>6. \A r \in Refresh : Tip(r)' =>
          /\ code'[refresh[r].grant] = "spent"
          /\ \A s \in Refresh : Tip(s)' /\ refresh[s].grant = refresh[r].grant => r = s
    BY <1>2, <2>2, <2>5 DEF Inv, OneTip
  <2>7. ASSUME NEW p \in Requests, Holds(req'[p])
        PROVE  /\ code'[req'[p].flow] = "spent"
               /\ \A o \in Requests : Holds(req'[o]) /\ req'[o].flow = req'[p].flow => o = p
               /\ \A r \in Refresh : Tip(r)' => refresh[r].grant # req'[p].flow
               /\ req'[p].op = "code" /\ req'[p].pc # "refresh" => redeemed[req'[p].flow] = 0
    <3>1. CASE p = q
      BY <1>2, <1>4, <2>2, <2>3, <2>4, <2>5, <2>7, <3>1
    <3>2. CASE p # q
      BY <1>2, <2>3, <2>4, <2>5, <2>7, <3>2 DEF Inv, OneTip
    <3>. QED  BY <3>1, <3>2
  <2>. QED  BY <2>1, <2>5, <2>6, <2>7 DEF OneTip
<1>. QED  BY <1>3, <1>5, <1>7, <1>8, <1>9, <1>10 DEF Inv

\* tokenFromCode, with its three outcomes.
LEMMA TokenFromCodeKeeps ==
    ASSUME Inv, NEW q \in Requests, NEW f \in Flows, NEW c \in Presenters, NEW k \in Proofs, NEW ok \in BOOLEAN,
           TokenFromCode(q, f, c, k, ok)
    PROVE  Inv'
<1>. DEFINE x == Calling("code", c, f)
            m == [x EXCEPT !.pc = "check", !.jkt = k, !.scopes = grant[f].scopes]
            r == [x EXCEPT !.pc = "revoke1"]
<1>1. TypeOK /\ c \in Clients /\ k \in Keys /\ Known(c) /\ grant[f].scopes \in SUBSET Scopes
  <2>1. TypeOK /\ c \in Clients /\ k \in Keys /\ Known(c)
    BY OAuthGrantsAssumption DEF Inv, Proofs, TokenFromCode, Authenticated
  <2>. QED  BY <2>1 DEF TypeOK, GrantRow
<1>2. x \in Local /\ x.succ = NoId /\ x.flow = f /\ x.op = "code" /\ (x.dead => f \in ended)
  BY <1>1, CallFields DEF AllOps
<1>3. /\ code[f] = "live" /\ code' = [code EXCEPT ![f] = "spent"]
      /\ UNCHANGED <<ask, grant, access, refresh, consent, client, disabled, ended, redeemed, wrong>>
  BY DEF TokenFromCode, ConsumeCode, tokens, others, history
<1>4. \/ req' = [req EXCEPT ![q] = r] \/ req' = [req EXCEPT ![q] = Idle] \/ req' = [req EXCEPT ![q] = m]
  BY DEF TokenFromCode
<1>. HIDE DEF x
<1>5. r \in Local /\ Inert(r) /\ Ordered(r)
  BY <1>2, InertCall DEF PCs, Active
<1>6. /\ m \in Local /\ m.pc = "check" /\ m.op = "code" /\ m.flow = f /\ m.succ = NoId
      /\ m.scopes = grant[f].scopes /\ m.dead = x.dead
  <2>1. "check" \in PCs
    BY DEF PCs
  <2>. QED  BY <1>1, <1>2, <2>1 DEF Local
<1>. HIDE DEF m, r
<1>7. Ordered(m)
  BY <1>6 DEF Ordered
<1>8. CASE req' = [req EXCEPT ![q] = r]
  BY <1>3, <1>5, <1>8, SpendKeeps DEF Inert
<1>9. CASE req' = [req EXCEPT ![q] = Idle]
  BY <1>3, <1>9, IdleCall, SpendKeeps
<1>10. CASE req' = [req EXCEPT ![q] = m]
  BY <1>1, <1>2, <1>3, <1>6, <1>7, <1>10, SpendKeeps
<1>. QED  BY <1>4, <1>8, <1>9, <1>10

\* tokenFromRefresh, with its four outcomes.
LEMMA TokenFromRefreshKeeps ==
    ASSUME Inv, NEW q \in Requests, NEW r \in Refresh, NEW c \in Presenters, NEW k \in Proofs, NEW s \in Wanted,
           TokenFromRefresh(q, r, c, k, s)
    PROVE  Inv'
<1>. DEFINE f == refresh[r].grant
            x == Calling("refresh", c, f)
            call == [x EXCEPT !.ref = r, !.jkt = k]
            m1 == [call EXCEPT !.pc = "revoke1"]
            m2 == [call EXCEPT !.op = "stolen", !.pc = "revoke1"]
            m3 == [call EXCEPT !.op = "replay", !.pc = "replay"]
            m4 == [call EXCEPT !.pc = "check", !.scopes = s]
<1>1. c \in Clients /\ k \in Keys /\ Known(c) /\ s \in SUBSET Scopes
  BY OAuthGrantsAssumption DEF Proofs, Wanted, TokenFromRefresh, Authenticated
<1>2. refresh[r].st # "none" /\ f \in Flows /\ grant[f].st # "none" /\ refresh[r].scopes \subseteq grant[f].scopes
  BY DEF TokenFromRefresh, Inv, RowChain
<1>3. x \in Local /\ x.succ = NoId /\ x.flow = f /\ x.op = "refresh" /\ (x.dead => f \in ended)
  BY <1>1, <1>2, CallFields DEF AllOps
<1>4. UNCHANGED <<ask, grant, code, access, refresh, consent, client, disabled, ended, redeemed, wrong>>
  BY DEF TokenFromRefresh, flow, tokens, others, history
<1>5. \/ req' = [req EXCEPT ![q] = m1]
      \/ req' = [req EXCEPT ![q] = m2]
      \/ req' = [req EXCEPT ![q] = m3]
      \/ req' = [req EXCEPT ![q] = m4] /\ s \subseteq refresh[r].scopes /\ refresh[r].jkt \in {NoKey, k}
  BY DEF TokenFromRefresh
<1>. HIDE DEF x
<1>6. /\ call \in Local /\ call.succ = NoId /\ call.flow = f /\ call.op = "refresh" /\ call.ref = r /\ call.jkt = k
      /\ call.dead => f \in ended
  BY <1>1, <1>3 DEF Local
<1>. HIDE DEF call
<1>7. "revoke1" \in PCs /\ "check" \in PCs /\ "replay" \in PCs /\ "revoke1" \notin Active
  BY DEF PCs, Active
<1>8. m1 \in Local /\ m1.pc = "revoke1" /\ m1.succ = NoId
  BY <1>6, <1>7 DEF Local
<1>9. m2 \in Local /\ m2.pc = "revoke1" /\ m2.succ = NoId
  BY <1>6, <1>7 DEF Local
<1>10. /\ m3 \in Local /\ m3.pc = "replay" /\ m3.succ = NoId /\ m3.op = "replay" /\ m3.flow = f /\ m3.ref = r
       /\ m3.dead => f \in ended
  BY <1>6, <1>7 DEF Local
<1>11. /\ m4 \in Local /\ m4.pc = "check" /\ m4.succ = NoId /\ m4.op = "refresh" /\ m4.flow = f /\ m4.ref = r
       /\ m4.jkt = k /\ m4.scopes = s
       /\ m4.dead => f \in ended
  BY <1>1, <1>6, <1>7 DEF Local
<1>. HIDE DEF m1, m2, m3, m4
<1>12. CASE req' = [req EXCEPT ![q] = m1] \/ req' = [req EXCEPT ![q] = m2]
  <2>1. Settles(q)
    BY <1>7, <1>8, <1>9, <1>12 DEF Settles, Inert, Ordered, Active
  <2>. QED  BY <1>4, <2>1, QuietKeeps DEF Inv, TypeOK
<1>13. CASE req' = [req EXCEPT ![q] = m3]
  <2>1. Ordered(m3) /\ Backed(m3) /\ Presents(m3) /\ Late(m3) /\ ~Makes(m3) /\ ~Holds(m3)
    BY <1>2, <1>10 DEF Ordered, Backed, Presents, Late, Makes, Holds, Active
  <2>. QED  BY <1>4, <1>10, <1>13, <2>1, MoveKeeps
<1>14. CASE req' = [req EXCEPT ![q] = m4] /\ s \subseteq refresh[r].scopes /\ refresh[r].jkt \in {NoKey, k}
  <2>1. Ordered(m4) /\ Backed(m4) /\ Presents(m4) /\ Late(m4) /\ ~Makes(m4) /\ ~Holds(m4)
    BY <1>2, <1>11, <1>14 DEF Ordered, Backed, Presents, Late, Makes, Holds, Active
  <2>. QED  BY <1>4, <1>11, <1>14, <2>1, MoveKeeps
<1>. QED  BY <1>5, <1>12, <1>13, <1>14

\* A token is presented: to the host API, to the userinfo endpoint, for
\* revocation or for introspection.
LEMMA PresentKeeps ==
    ASSUME Inv, NEW q \in Requests, NEW f \in Flows,
           \/ \E op \in {"resource", "userinfo", "revokeacc"} : VerifyAccessToken(q, f, op)
           \/ \E c \in Presenters : Introspect(q, f, c)
    PROVE  Inv'
<1>1. f \in access /\ grant[f].st # "none" /\ grant[f].client \in Clients \cup {None}
  <2>1. f \in access
    BY DEF VerifyAccessToken, Introspect
  <2>. QED  BY <2>1 DEF Inv, FlowOrder, TypeOK, GrantRow
<1>2. UNCHANGED <<ask, grant, code, access, refresh, consent, client, disabled, ended, redeemed, wrong>>
  BY DEF VerifyAccessToken, Introspect, flow, tokens, others, history
<1>3. ASSUME NEW m \in Local, req' = [req EXCEPT ![q] = m], m.pc = "check", m.succ = NoId, m.flow = f,
             m.op \in {"resource", "userinfo", "revokeacc", "introspect"},
             m.dead => f \in ended \/ Barred(m.op, f)
      PROVE  Inv'
  <2>1. Ordered(m) /\ Backed(m) /\ Presents(m) /\ Late(m) /\ ~Makes(m) /\ ~Holds(m)
    BY <1>1, <1>3 DEF Ordered, Backed, Presents, Late, Makes, Holds, Active
  <2>. QED  BY <1>2, <1>3, <2>1, MoveKeeps
<1>4. "check" \in PCs
  BY DEF PCs
<1>5. ASSUME NEW op \in {"resource", "userinfo", "revokeacc"}, VerifyAccessToken(q, f, op) PROVE Inv'
  <2>. DEFINE x == Calling(op, grant[f].client, f)
              d == f \in ended \/ Barred(op, f)
              m == [x EXCEPT !.pc = "check", !.dead = d]
  <2>1. x \in Local /\ x.succ = NoId /\ x.flow = f /\ x.op = op
    <3>1. op \in AllOps
      BY DEF AllOps
    <3>. QED  BY <1>1, <3>1, CallFields
  <2>2. d \in BOOLEAN
    OBVIOUS
  <2>3. req' = [req EXCEPT ![q] = m]
    BY <1>5 DEF VerifyAccessToken
  <2>. HIDE DEF x, d
  <2>4. m \in Local /\ m.pc = "check" /\ m.succ = NoId /\ m.flow = f /\ m.op = op /\ m.dead = d
    BY <1>4, <2>1, <2>2 DEF Local
  <2>. HIDE DEF m
  <2>5. m.dead => f \in ended \/ Barred(m.op, f)
    BY <2>4 DEF d
  <2>. QED  BY <1>3, <2>3, <2>4, <2>5
<1>6. ASSUME NEW c \in Presenters, Introspect(q, f, c) PROVE Inv'
  <2>. DEFINE x == Calling("introspect", c, f)
              m == [x EXCEPT !.pc = "check"]
  <2>1. c \in Clients /\ Known(c)
    BY <1>6, OAuthGrantsAssumption DEF Introspect, Authenticated
  <2>2. x \in Local /\ x.succ = NoId /\ x.flow = f /\ x.op = "introspect" /\ (x.dead => f \in ended)
    BY <2>1, CallFields DEF AllOps
  <2>3. req' = [req EXCEPT ![q] = m]
    BY <1>6 DEF Introspect
  <2>. HIDE DEF x
  <2>4. m \in Local /\ m.pc = "check" /\ m.succ = NoId /\ m.flow = f /\ m.op = "introspect" /\ (m.dead => f \in ended)
    BY <1>4, <2>1, <2>2 DEF Local
  <2>. HIDE DEF m
  <2>. QED  BY <1>3, <2>3, <2>4
<1>. QED  BY <1>5, <1>6

\* replayRotation answers with the scopes of the successor row.
LEMMA ReplayKeeps == ASSUME Inv, NEW q \in Requests, ReplayRotation(q) PROVE Inv'
<1>. DEFINE l == req[q]
            f == l.flow
            next == refresh[l.ref].succ
            m == [l EXCEPT !.pc = "check", !.scopes = refresh[next].scopes]
<1>1. UNCHANGED <<ask, grant, code, access, refresh, consent, client, disabled, ended, redeemed, wrong>>
  BY DEF ReplayRotation, flow, tokens, others, history
<1>2. l.pc = "replay" /\ l \in Local /\ Ordered(l) /\ Backed(l) /\ Presents(l) /\ Late(l)
  BY DEF ReplayRotation, Inv, TypeOK
<1>3. l.ref \in Refresh /\ refresh[l.ref].grant = f /\ grant[f].st # "none" /\ f \in Flows /\ l.succ = NoId
  BY <1>2 DEF Presents, Backed, Ordered, Active
<1>4. CASE Return(q)
  BY <1>1, <1>4, ReturnSettles, QuietKeeps DEF Inv, TypeOK
<1>5. CASE next # NoId /\ refresh[next].st = "live" /\ req' = [req EXCEPT ![q].pc = "check", ![q].scopes = refresh[next].scopes]
  <2>1. next \in Refresh
    BY <1>3, <1>5 DEF Inv, TypeOK, RefreshRow
  <2>2. refresh[next].grant = f /\ refresh[next].scopes \subseteq grant[f].scopes
    <3>1. Continues(refresh[l.ref], refresh[next])
      BY <1>3, <1>5, <2>1 DEF Inv, RowChain
    <3>2. refresh[next].scopes \subseteq grant[refresh[next].grant].scopes
      BY <1>5, <2>1 DEF Inv, RowChain
    <3>. QED  BY <1>3, <3>1, <3>2 DEF Continues
  <2>3. refresh[next].scopes \in SUBSET Scopes
    BY <2>1 DEF Inv, TypeOK, RefreshRow
  <2>4. req' = [req EXCEPT ![q] = m]
    BY <1>5
  <2>5. /\ m \in Local /\ m.pc = "check" /\ m.succ = NoId /\ m.flow = f /\ m.op = l.op
        /\ m.scopes = refresh[next].scopes /\ m.dead = l.dead
    <3>1. "check" \in PCs
      BY DEF PCs
    <3>. QED  BY <1>2, <1>3, <2>3, <3>1 DEF Local
  <2>. HIDE DEF m
  <2>6. m.op = "replay"
    BY <1>2, <2>5 DEF Ordered
  <2>7. Ordered(m) /\ Backed(m) /\ Presents(m) /\ Late(m) /\ ~Makes(m) /\ ~Holds(m)
    BY <1>2, <1>3, <2>2, <2>5, <2>6 DEF Ordered, Backed, Presents, Late, Makes, Holds, Active
  <2>. QED  BY <1>1, <2>4, <2>5, <2>7, MoveKeeps
<1>. QED  BY <1>4, <1>5 DEF ReplayRotation

\* OAuthGrantByID: a call that began too late is refused here.
LEMMA CheckKeeps == ASSUME Inv, NEW q \in Requests, CheckGrant(q) PROVE Inv'
<1>. DEFINE l == req[q]
            f == l.flow
<1>1. UNCHANGED <<ask, grant, code, access, refresh, consent, client, disabled, ended, redeemed>>
  BY DEF CheckGrant, flow, tokens, others
<1>2. l.pc = "check" /\ l \in Local /\ Ordered(l) /\ Backed(l) /\ Presents(l) /\ Late(l)
  BY DEF CheckGrant, Inv, TypeOK
<1>3. f \in Flows /\ l.succ = NoId /\ grant[f].st # "none"
  BY <1>2 DEF Ordered, Backed, Active
<1>4. grant[f].st = "live" => f \notin ended
  BY <1>3 DEF Inv, FlowOrder
<1>5. CASE Return(q) /\ UNCHANGED wrong
  BY <1>1, <1>5, ReturnSettles, QuietKeeps DEF Inv, TypeOK
<1>6. CASE grant[f].st = "live" /\ l.op = "introspect" /\ Return(q) /\ Answer(l)
  <2>1. ~l.dead
    BY <1>2, <1>4, <1>6 DEF Late, Barred
  <2>2. UNCHANGED wrong
    BY <1>6, <2>1 DEF Answer, Inv, TypeOK
  <2>. QED  BY <1>5, <1>6, <2>2
<1>7. CASE Goto(q, "racc") /\ UNCHANGED wrong
  <2>1. "racc" \in PCs \ Active
    BY DEF PCs, Active
  <2>2. Settles(q)
    BY <1>2, <1>7, <2>1, GotoSettles
  <2>. QED  BY <1>1, <1>7, <2>2, QuietKeeps DEF Inv, TypeOK
<1>8. ASSUME NEW pc \in {"rotate", "mint", "owner"}, Goto(q, pc), UNCHANGED wrong, grant[f].st = "live",
             \/ pc = "rotate" /\ l.op = "refresh"
             \/ pc = "mint" /\ l.op \in {"code", "replay"}
             \/ pc = "owner" /\ l.op \in {"resource", "userinfo"}
      PROVE  Inv'
  <2>. DEFINE m == [l EXCEPT !.pc = pc]
  <2>1. req' = [req EXCEPT ![q] = m]
    BY <1>8 DEF Goto
  <2>2. /\ m \in Local /\ m.pc = pc /\ m.succ = NoId /\ m.op = l.op /\ m.flow = f /\ m.scopes = l.scopes
        /\ m.ref = l.ref /\ m.jkt = l.jkt /\ m.dead = l.dead
    <3>1. pc \in PCs
      BY DEF PCs
    <3>. QED  BY <1>2, <1>3, <3>1 DEF Local
  <2>. HIDE DEF m
  <2>3. Ordered(m) /\ ~Makes(m)
    BY <1>3, <1>8, <2>2 DEF Ordered, Makes, Active
  <2>4. Backed(m) /\ Presents(m)
    BY <1>2, <1>3, <1>8, <2>2 DEF Backed, Presents
  <2>5. Late(m)
    BY <1>2, <1>4, <1>8, <2>2 DEF Late, Barred
  <2>6. Holds(m) => Holds(l)
    BY <1>2, <1>8, <2>2 DEF Holds
  <2>. QED  BY <1>1, <1>2, <1>8, <2>1, <2>2, <2>3, <2>4, <2>5, <2>6, MoveKeeps
<1>9. CASE grant[f].st # "live"
  BY <1>5, <1>9 DEF CheckGrant
<1>10. CASE grant[f].st = "live"
  <2>1. CASE l.op = "refresh"
    <3>1. Goto(q, "rotate") /\ UNCHANGED wrong
      BY <1>10, <2>1 DEF CheckGrant
    <3>. QED  BY <1>8, <1>10, <2>1, <3>1
  <2>2. CASE l.op \in {"code", "replay"}
    <3>1. Goto(q, "mint") /\ UNCHANGED wrong
      BY <1>10, <2>2 DEF CheckGrant
    <3>. QED  BY <1>8, <1>10, <2>2, <3>1
  <2>3. CASE l.op = "revokeacc"
    <3>1. Goto(q, "racc") /\ UNCHANGED wrong
      BY <1>10, <2>3 DEF CheckGrant
    <3>. QED  BY <1>7, <3>1
  <2>4. CASE l.op \in {"resource", "userinfo"}
    <3>1. Goto(q, "owner") /\ UNCHANGED wrong
      BY <1>10, <2>4 DEF CheckGrant
    <3>. QED  BY <1>8, <1>10, <2>4, <3>1
  <2>5. CASE l.op = "introspect"
    <3>1. Return(q) /\ Answer(l)
      BY <1>10, <2>5 DEF CheckGrant
    <3>. QED  BY <1>6, <1>10, <2>5, <3>1
  <2>. QED  BY <1>2, <2>1, <2>2, <2>3, <2>4, <2>5 DEF Ordered
<1>. QED  BY <1>9, <1>10

\* Users().ByID: the host API refuses the user who was disabled before the call.
LEMMA OwnerKeeps == ASSUME Inv, NEW q \in Requests, ReadOwner(q) PROVE Inv'
<1>1. UNCHANGED <<ask, grant, code, access, refresh, consent, client, disabled, ended, redeemed>>
  BY DEF ReadOwner, flow, tokens, others
<1>2. req[q].dead => Barred(req[q].op, req[q].flow)
  BY DEF ReadOwner, Inv, Late
<1>3. UNCHANGED wrong
  BY <1>2 DEF ReadOwner, Answer, Inv, TypeOK
<1>. QED  BY <1>1, <1>3, ReturnSettles, QuietKeeps DEF ReadOwner, Inv, TypeOK

-----------------------------------------------------------------------------
(* The chain of refresh tokens.                                            *)

\* The identifier that a statement takes is one of those that are left.
LEMMA SmallestIsOne == ASSUME NEW S \in SUBSET Refresh, S # {} PROVE Min(S) \in S
<1>. DEFINE R == {ss \in Nat \X Nat : ss[1] < ss[2]}
<1>1. S \in SUBSET Nat
  BY OAuthGrantsAssumption
<1>2. IsWellFoundedOn(R, Nat)
  BY NatLessThanWellFounded DEF OpToRel
<1>. HIDE DEF R
<1>3. PICK x \in S : \A y \in S : ~(<<y, x>> \in R)
  BY <1>1, <1>2, WFMin
<1>4. \A y \in S : ~(y < x)
  BY <1>1, <1>3 DEF R
<1>5. \A y \in S : x <= y
  BY <1>1, <1>4
<1>. QED  BY <1>5 DEF Min

\* What a fresh identifier is.
LEMMA FreshOne ==
    ASSUME Inv, NEW n \in Fresh
    PROVE  /\ n \in Refresh /\ n # NoId /\ refresh[n].st = "none" /\ refresh[n].succ = NoId
           /\ \A s \in Refresh : refresh[s].succ # n
           /\ \A p \in Requests : req[p].succ # n
  BY OAuthGrantsAssumption DEF Fresh, Inv, RowChain

\* RotateOAuthRefreshToken: the end of the chain moves from the row to the call.
LEMMA RotateKeeps == ASSUME Inv, NEW q \in Requests, RotateRefreshToken(q) PROVE Inv'
<1>. DEFINE l == req[q]
            f == l.flow
            a == l.ref
            n == Min(Fresh)
            m == [l EXCEPT !.pc = "mint", !.succ = n]
            row == [refresh[a] EXCEPT !.rotated = "grace", !.succ = n]
<1>1. UNCHANGED <<ask, grant, code, access, consent, client, disabled, ended, redeemed, wrong>>
  BY DEF RotateRefreshToken, flow, others, history
<1>2. CASE Return(q) /\ UNCHANGED refresh
  BY <1>1, <1>2, ReturnSettles, QuietKeeps DEF Inv, TypeOK
<1>3. CASE refresh[a].st = "live" /\ refresh[a].rotated = "no"
  <2>1. l.pc = "rotate" /\ l \in Local /\ Ordered(l) /\ Backed(l) /\ Presents(l) /\ Late(l) /\ TypeOK
    BY DEF RotateRefreshToken, Inv, TypeOK
  <2>2. /\ f \in Flows /\ l.op = "refresh" /\ grant[f].st # "none" /\ ~l.dead
        /\ a \in Refresh /\ refresh[a].grant = f
        /\ l.scopes \subseteq refresh[a].scopes /\ refresh[a].jkt \in {NoKey, l.jkt}
    BY <2>1 DEF Ordered, Backed, Presents, Late, Active
  <2>3. n \in Fresh
    BY SmallestIsOne DEF RotateRefreshToken, Fresh
  <2>. HIDE DEF n
  <2>4. /\ n \in Refresh /\ n # NoId /\ n # a /\ refresh[n].st = "none" /\ refresh[n].succ = NoId
        /\ \A s \in Refresh : refresh[s].succ # n
        /\ \A p \in Requests : req[p].succ # n
    BY <1>3, <2>3, FreshOne
  <2>5. refresh' = [refresh EXCEPT ![a] = row] /\ req' = [req EXCEPT ![q] = m]
    BY <1>3 DEF RotateRefreshToken, n
  <2>6. /\ row \in RefreshRow /\ row.st = "live" /\ row.rotated = "grace" /\ row.succ = n /\ row.grant = f
        /\ row.scopes = refresh[a].scopes /\ row.jkt = refresh[a].jkt
    <3>1. refresh[a] \in RefreshRow
      BY <2>1, <2>2 DEF TypeOK
    <3>. QED  BY <1>3, <2>2, <2>4, <3>1 DEF RefreshRow
  <2>7. /\ m \in Local /\ m.pc = "mint" /\ m.op = "refresh" /\ m.succ = n /\ m.flow = f /\ m.scopes = l.scopes
        /\ m.jkt = l.jkt /\ m.dead = l.dead
    <3>1. "mint" \in PCs
      BY DEF PCs
    <3>. QED  BY <2>1, <2>2, <2>4, <3>1 DEF Local
  <2>. HIDE DEF m, row
  <2>8. /\ \A p \in Requests : IF p = q THEN req'[p] = m ELSE req'[p] = req[p]
        /\ \A r \in Refresh : IF r = a THEN refresh'[r] = row ELSE refresh'[r] = refresh[r]
    BY <2>1, <2>5 DEF TypeOK
  <2>9. TypeOK'
    BY <1>1, <2>1, <2>5, <2>6, <2>7 DEF TypeOK
  <2>10. FlowOrder' /\ ExpiredHasRow' /\ ~wrong'
    BY <1>1, <2>6, <2>8 DEF Inv, FlowOrder, ExpiredHasRow
  <2>11. \A r \in Refresh : /\ refresh'[r].st = refresh[r].st /\ refresh'[r].grant = refresh[r].grant
                            /\ refresh'[r].scopes = refresh[r].scopes /\ refresh'[r].jkt = refresh[r].jkt
                            /\ r # a => refresh'[r].succ = refresh[r].succ
    BY <1>3, <2>2, <2>6, <2>8
  <2>12. RowChain'
    <3>. SUFFICES ASSUME NEW r \in Refresh PROVE RowChain!(r)'
      BY DEF RowChain
    <3>1. RowChain!(r)
      BY DEF Inv, RowChain
    <3>2. refresh[r].succ \in Refresh \cup {NoId}
      BY <2>1 DEF TypeOK, RefreshRow
    <3>3. CASE r = a
      <4>1. refresh'[r].succ = n /\ refresh'[n].st = "none" /\ refresh'[r].st # "none"
        BY <1>3, <2>4, <2>6, <2>8, <3>3
      <4>. QED  BY <1>1, <2>11, <3>1, <4>1
    <3>4. CASE r # a
      BY <1>1, <2>11, <3>1, <3>2, <3>4 DEF Continues
    <3>. QED  BY <3>3, <3>4
  <2>13. \A p \in Requests : Ordered(req[p])' /\ Backed(req[p])' /\ Presents(req[p])' /\ Late(req[p])'
    <3>. TAKE p \in Requests
    <3>1. CASE p = q
      <4>1. l.scopes \subseteq grant[f].scopes
        BY <1>3, <2>2 DEF Inv, RowChain
      <4>2. Ordered(m) /\ Backed(m) /\ Late(m)
        BY <2>2, <2>7, <4>1 DEF Ordered, Backed, Late, Active
      <4>. QED  BY <1>1, <2>7, <2>8, <3>1, <4>2 DEF Ordered, Backed, Presents, Late, Barred
    <3>2. CASE p # q
      <4>1. Ordered(req[p]) /\ Backed(req[p]) /\ Presents(req[p]) /\ Late(req[p])
        BY DEF Inv
      <4>2. Ordered(req[p])' /\ Backed(req[p])' /\ Presents(req[p])'
        BY <1>1, <2>8, <2>11, <3>2, <4>1 DEF Ordered, Backed, Presents
      <4>3. Late(req[p])'
        BY <1>1, <2>8, <3>2, <4>1 DEF Late, Barred
      <4>. QED  BY <4>2, <4>3
    <3>. QED  BY <3>1, <3>2
  <2>14. OneMaker'
    BY <1>1, <2>7, <2>8 DEF Inv, OneMaker, Makes
  <2>15. Reserved'
    <3>. SUFFICES ASSUME NEW p \in Requests, req'[p].succ # NoId PROVE Reserved!(p)'
      BY DEF Reserved
    <3>1. CASE p = q
      BY <2>2, <2>4, <2>6, <2>7, <2>8, <2>11, <3>1
    <3>2. CASE p # q
      <4>1. Reserved!(p) /\ req[p].succ \in Refresh /\ req[p].succ # n /\ req'[p] = req[p]
        BY <2>4, <2>8, <3>2 DEF Inv, Reserved, TypeOK, Local
      <4>. QED  BY <1>3, <2>6, <2>7, <2>8, <2>11, <3>2, <4>1
    <3>. QED  BY <3>1, <3>2
  <2>16. OneTip'
    <3>1. Tip(a) /\ code[f] = "spent"
      BY <1>3, <2>2 DEF Inv, OneTip, Tip
    <3>2. \A r \in Refresh : Tip(r)' => Tip(r) /\ refresh'[r].grant = refresh[r].grant /\ refresh[r].grant # f
      <4>1. \A r \in Refresh : Tip(r)' => Tip(r) /\ r # a /\ refresh'[r].grant = refresh[r].grant
        BY <2>6, <2>8, <2>11 DEF Tip
      <4>. QED  BY <2>2, <3>1, <4>1 DEF Inv, OneTip
    <3>3. \A p \in Requests : Holds(req[p]) => req[p].flow # f
      BY <2>2, <3>1 DEF Inv, OneTip
    <3>4. \A g \in Flows : redeemed'[g] <= 1 /\ (code'[g] # "spent" => redeemed'[g] = 0)
      BY <1>1 DEF Inv, OneTip
    <3>5. ASSUME NEW p \in Requests, Holds(req'[p])
          PROVE  /\ code'[req'[p].flow] = "spent"
                 /\ \A o \in Requests : Holds(req'[o]) /\ req'[o].flow = req'[p].flow => o = p
                 /\ \A r \in Refresh : Tip(r)' => refresh'[r].grant # req'[p].flow
                 /\ req'[p].op = "code" /\ req'[p].pc # "refresh" => redeemed'[req'[p].flow] = 0
      <4>1. CASE p = q
        BY <1>1, <2>7, <2>8, <3>1, <3>2, <3>3, <3>5, <4>1
      <4>2. CASE p # q
        BY <1>1, <2>7, <2>8, <3>2, <3>3, <3>5, <4>2 DEF Inv, OneTip
      <4>. QED  BY <4>1, <4>2
    <3>6. \A r \in Refresh : Tip(r)' =>
            /\ code'[refresh'[r].grant] = "spent"
            /\ \A s \in Refresh : Tip(s)' /\ refresh'[s].grant = refresh'[r].grant => r = s
      BY <1>1, <3>2 DEF Inv, OneTip
    <3>. QED  BY <3>4, <3>5, <3>6 DEF OneTip
  <2>. QED  BY <2>9, <2>10, <2>12, <2>13, <2>14, <2>15, <2>16 DEF Inv
<1>. QED  BY <1>2, <1>3 DEF RotateRefreshToken

\* mintAccessToken: a code gives its one set of tokens, and the call goes on to
\* the refresh token or is answered.
LEMMA MintKeeps == ASSUME Inv, NEW q \in Requests, MintAccessToken(q) PROVE Inv'
<1>. DEFINE l == req[q]
            f == l.flow
            more == Offline \in l.scopes /\ l.op \in {"code", "refresh"}
            m == [l EXCEPT !.pc = "refresh"]
<1>1. UNCHANGED <<ask, grant, code, refresh, consent, client, disabled, ended>>
  BY DEF MintAccessToken, flow, others
<1>2. l.pc = "mint" /\ l \in Local /\ Ordered(l) /\ Backed(l) /\ Late(l) /\ TypeOK
  BY DEF MintAccessToken, Inv, TypeOK
<1>3. f \in Flows /\ grant[f].st # "none" /\ l.scopes \subseteq grant[f].scopes /\ ~l.dead
  BY <1>2 DEF Ordered, Backed, Late, Active
<1>4. UNCHANGED wrong
  BY <1>3 DEF MintAccessToken, Answer, Inv, TypeOK
<1>5. access' = access \cup {f} /\ redeemed' = IF l.op = "code" THEN [redeemed EXCEPT ![f] = redeemed[f] + 1] ELSE redeemed
  BY DEF MintAccessToken, InsertAccessToken
<1>6. redeemed' \in [Flows -> Nat] /\ access' \subseteq Flows
  BY <1>2, <1>3, <1>5 DEF TypeOK
<1>7. /\ m \in Local /\ m.pc = "refresh" /\ m.op = l.op /\ m.succ = l.succ /\ m.flow = f /\ m.scopes = l.scopes
      /\ m.jkt = l.jkt /\ m.dead = l.dead
  <2>1. "refresh" \in PCs
    BY DEF PCs
  <2>. QED  BY <1>2, <2>1 DEF Local
<1>8. (more /\ req' = [req EXCEPT ![q] = m]) \/ (~more /\ req' = [req EXCEPT ![q] = Idle])
  BY DEF MintAccessToken, Goto, Return
<1>. HIDE DEF m
<1>9. PICK o \in Local :
        /\ req' = [req EXCEPT ![q] = o]
        /\ Ordered(o) /\ Backed(o) /\ Late(o) /\ ~Makes(o) /\ o.pc \in {"idle", "refresh"}
        /\ Holds(o) => o.op = l.op /\ o.flow = f /\ o.op \in {"code", "refresh"}
        /\ o.succ # NoId => o.succ = l.succ /\ o.flow = f /\ o.scopes = l.scopes /\ o.jkt = l.jkt
  <2>1. CASE more /\ req' = [req EXCEPT ![q] = m]
    <3>1. Ordered(m) /\ Backed(m) /\ Late(m) /\ ~Makes(m)
      BY <1>2, <1>3, <1>7, <2>1 DEF Ordered, Backed, Late, Makes, Active
    <3>. QED  BY <1>7, <2>1, <3>1
  <2>2. CASE ~more /\ req' = [req EXCEPT ![q] = Idle]
    <3>1. Ordered(Idle) /\ Backed(Idle) /\ Late(Idle) /\ ~Makes(Idle) /\ ~Holds(Idle)
      BY IdleCall DEF Backed, Late, Makes, Holds
    <3>. QED  BY <2>2, <3>1, IdleCall
  <2>. QED  BY <1>8, <2>1, <2>2
<1>10. \A p \in Requests : IF p = q THEN req'[p] = o ELSE req'[p] = req[p]
  BY <1>2, <1>9 DEF TypeOK
<1>11. TypeOK'
  BY <1>1, <1>2, <1>4, <1>6, <1>9 DEF TypeOK
<1>12. FlowOrder' /\ RowChain' /\ ExpiredHasRow' /\ ~wrong'
  BY <1>1, <1>3, <1>4, <1>5 DEF Inv, FlowOrder, RowChain, ExpiredHasRow, Continues
<1>13. \A p \in Requests : Ordered(req[p])' /\ Backed(req[p])' /\ Presents(req[p])' /\ Late(req[p])'
  <2>. TAKE p \in Requests
  <2>1. CASE p = q
    BY <1>1, <1>9, <1>10, <2>1 DEF Ordered, Backed, Presents, Late, Barred
  <2>2. CASE p # q
    BY <1>1, <1>10, <2>2, StayKeeps
  <2>. QED  BY <2>1, <2>2
<1>14. OneMaker'
  BY <1>1, <1>9, <1>10 DEF Inv, OneMaker, Makes
<1>15. Reserved'
  BY <1>1, <1>9, <1>10 DEF Inv, Reserved
<1>16. OneTip'
  <2>1. l.op = "code" => Holds(l) /\ redeemed[f] = 0 /\ code[f] = "spent"
    BY <1>2 DEF Inv, OneTip, Holds
  <2>2. \A g \in Flows : redeemed'[g] = IF l.op = "code" /\ g = f THEN 1 ELSE redeemed[g]
    BY <1>2, <1>3, <1>5, <2>1 DEF TypeOK
  <2>3. \A g \in Flows : redeemed'[g] <= 1 /\ (code'[g] # "spent" => redeemed'[g] = 0)
    BY <1>1, <2>1, <2>2 DEF Inv, OneTip
  <2>4. ASSUME NEW p \in Requests, Holds(req'[p]) PROVE Holds(req[p]) /\ req'[p].flow = req[p].flow
    BY <1>2, <1>9, <1>10, <2>4 DEF Holds
  <2>5. ASSUME NEW p \in Requests, Holds(req'[p]), req'[p].op = "code", req'[p].pc # "refresh"
        PROVE  redeemed'[req'[p].flow] = 0
    <3>1. p # q /\ req'[p] = req[p] /\ Holds(req[p]) /\ req[p].flow \in Flows /\ redeemed[req[p].flow] = 0
      <4>1. p # q /\ req'[p] = req[p]
        BY <1>9, <1>10, <2>5 DEF Holds
      <4>. QED  BY <2>5, <4>1 DEF Inv, OneTip, Ordered, Holds, Active
    <3>2. l.op = "code" => req[p].flow # f
      BY <2>1, <3>1 DEF Inv, OneTip
    <3>. QED  BY <2>2, <3>1, <3>2
  <2>6. \A r \in Refresh : (Tip(r)' <=> Tip(r)) /\ refresh'[r].grant = refresh[r].grant
    BY <1>1 DEF Tip
  <2>. QED  BY <1>1, <2>3, <2>4, <2>5, <2>6 DEF Inv, OneTip
<1>. QED  BY <1>11, <1>12, <1>13, <1>14, <1>15, <1>16 DEF Inv

\* CreateOAuthRefreshToken: the end of the chain moves from the call to a row,
\* which continues every row that names it as its successor.
LEMMA InsertKeeps == ASSUME Inv, NEW q \in Requests, CreateRefreshToken(q) PROVE Inv'
<1>. DEFINE l == req[q]
            f == l.flow
            id == IF l.succ # NoId THEN {l.succ} ELSE Fresh
            n == Min(id)
            row == [st |-> "live", rotated |-> "no", expired |-> FALSE, grant |-> f, scopes |-> l.scopes,
                    jkt |-> l.jkt, succ |-> NoId]
<1>1. UNCHANGED <<ask, grant, code, access, consent, client, disabled, ended, redeemed>>
  BY DEF CreateRefreshToken, flow, others
<1>2. l.pc = "refresh" /\ l \in Local /\ Ordered(l) /\ Backed(l) /\ Late(l) /\ TypeOK
  BY DEF CreateRefreshToken, Inv, TypeOK
<1>3. f \in Flows /\ grant[f].st # "none" /\ l.scopes \subseteq grant[f].scopes /\ ~l.dead /\ Holds(l)
  BY <1>2 DEF Ordered, Backed, Late, Active, Holds
<1>4. UNCHANGED wrong
  BY <1>3 DEF CreateRefreshToken, Answer, Inv, TypeOK
<1>5. id \in SUBSET Refresh /\ id # {}
  BY <1>2 DEF CreateRefreshToken, Fresh, Local
<1>6. n \in id
  BY <1>5, SmallestIsOne
<1>7. /\ refresh' = [refresh EXCEPT ![n] = row] /\ req' = [req EXCEPT ![q] = Idle]
      /\ row.st = "live" /\ row.rotated = "no" /\ row.grant = f /\ row.scopes = l.scopes /\ row.jkt = l.jkt
      /\ row.succ = NoId /\ ~row.expired
  BY DEF CreateRefreshToken, InsertRefreshToken, Return
<1>8. row \in RefreshRow
  BY <1>2 DEF RefreshRow, Local
<1>. HIDE DEF n, row
<1>9. /\ n \in Refresh /\ n # NoId /\ refresh[n].st = "none" /\ refresh[n].succ = NoId
      /\ \A p \in Requests : req[p].succ = n => p = q
      /\ \A s \in Refresh : refresh[s].succ = n => Continues(refresh[s], row)
  <2>1. CASE l.succ # NoId
    <3>1. n = l.succ /\ n \in Refresh
      BY <1>5, <1>6, <2>1
    <3>2. Reserved!(q)
      BY DEF Inv, Reserved
    <3>3. refresh[n].succ = NoId
      BY <2>1, <3>1, <3>2 DEF Inv, RowChain
    <3>. QED  BY <1>7, <2>1, <3>1, <3>2, <3>3 DEF Continues
  <2>2. CASE l.succ = NoId
    <3>1. n \in Fresh
      BY <1>6, <2>2
    <3>. QED  BY <3>1, FreshOne
  <2>. QED  BY <2>1, <2>2
<1>10. /\ \A p \in Requests : IF p = q THEN req'[p] = Idle ELSE req'[p] = req[p]
       /\ \A r \in Refresh : IF r = n THEN refresh'[r] = row ELSE refresh'[r] = refresh[r]
  BY <1>2, <1>7 DEF TypeOK
<1>11. TypeOK'
  BY <1>1, <1>2, <1>4, <1>7, <1>8, IdleCall DEF TypeOK
<1>12. FlowOrder' /\ ExpiredHasRow' /\ ~wrong'
  BY <1>1, <1>4, <1>7, <1>10 DEF Inv, FlowOrder, ExpiredHasRow
<1>13. RowChain'
  <2>. SUFFICES ASSUME NEW r \in Refresh PROVE RowChain!(r)'
    BY DEF RowChain
  <2>1. RowChain!(r)
    BY DEF Inv, RowChain
  <2>2. refresh[r].succ \in Refresh \cup {NoId}
    BY <1>2 DEF TypeOK, RefreshRow
  <2>3. CASE r = n
    BY <1>1, <1>3, <1>7, <1>10, <2>3
  <2>4. CASE r # n
    <3>1. refresh'[r] = refresh[r]
      BY <1>10, <2>4
    <3>2. CASE refresh[r].succ = n
      BY <1>1, <1>9, <1>10, <2>1, <3>1, <3>2
    <3>3. CASE refresh[r].succ # n
      BY <1>1, <1>10, <2>1, <2>2, <3>1, <3>3
    <3>. QED  BY <3>2, <3>3
  <2>. QED  BY <2>3, <2>4
<1>14. \A p \in Requests : Ordered(req[p])' /\ Backed(req[p])' /\ Presents(req[p])' /\ Late(req[p])'
  <2>. TAKE p \in Requests
  <2>1. CASE p = q
    <3>1. req'[p].pc = "idle" /\ Ordered(req'[p])
      BY <1>10, <2>1, IdleCall
    <3>. QED  BY <3>1 DEF Ordered, Backed, Presents, Late
  <2>2. CASE p # q
    <3>1. Ordered(req[p]) /\ Backed(req[p]) /\ Presents(req[p]) /\ Late(req[p])
      BY DEF Inv
    <3>2. req'[p] = req[p] /\ \A r \in Refresh : refresh[r].st # "none" => refresh'[r] = refresh[r]
      BY <1>9, <1>10, <2>2
    <3>3. Ordered(req[p])' /\ Backed(req[p])' /\ Presents(req[p])'
      BY <1>1, <3>1, <3>2 DEF Ordered, Backed, Presents
    <3>4. Late(req[p])'
      BY <1>1, <3>1, <3>2 DEF Late, Barred
    <3>. QED  BY <3>3, <3>4
  <2>. QED  BY <2>1, <2>2
<1>15. OneMaker'
  BY <1>1, <1>10, IdleCall DEF Inv, OneMaker, Makes
<1>16. Reserved'
  <2>. SUFFICES ASSUME NEW p \in Requests, req'[p].succ # NoId PROVE Reserved!(p)'
    BY DEF Reserved
  <2>1. p # q /\ req'[p] = req[p] /\ req[p].succ \in Refresh /\ req[p].succ # n
    <3>1. p # q /\ req'[p] = req[p]
      BY <1>10, IdleCall
    <3>. QED  BY <1>2, <1>9, <3>1 DEF TypeOK, Local
  <2>2. Reserved!(p)
    BY DEF Inv, Reserved
  <2>. QED  BY <1>7, <1>10, <2>1, <2>2, IdleCall
<1>17. OneTip'
  <2>1. /\ code[f] = "spent"
        /\ \A p \in Requests : Holds(req[p]) /\ req[p].flow = f => p = q
        /\ \A r \in Refresh : Tip(r) => refresh[r].grant # f
    BY <1>3 DEF Inv, OneTip
  <2>2. \A r \in Refresh : IF r = n THEN Tip(r)' /\ refresh'[r].grant = f
                           ELSE (Tip(r)' <=> Tip(r)) /\ refresh'[r].grant = refresh[r].grant
    BY <1>7, <1>10 DEF Tip
  <2>3. \A p \in Requests : Holds(req'[p]) => p # q /\ req'[p] = req[p] /\ req[p].flow # f
    BY <1>10, <2>1, IdleCall DEF Holds
  <2>4. \A g \in Flows : redeemed'[g] <= 1 /\ (code'[g] # "spent" => redeemed'[g] = 0)
    BY <1>1 DEF Inv, OneTip
  <2>5. \A r \in Refresh : Tip(r)' =>
          /\ code'[refresh'[r].grant] = "spent"
          /\ \A s \in Refresh : Tip(s)' /\ refresh'[s].grant = refresh'[r].grant => r = s
    BY <1>1, <2>1, <2>2 DEF Inv, OneTip
  <2>6. ASSUME NEW p \in Requests, Holds(req'[p])
        PROVE  /\ code'[req'[p].flow] = "spent"
               /\ \A o \in Requests : Holds(req'[o]) /\ req'[o].flow = req'[p].flow => o = p
               /\ \A r \in Refresh : Tip(r)' => refresh'[r].grant # req'[p].flow
               /\ req'[p].op = "code" /\ req'[p].pc # "refresh" => redeemed'[req'[p].flow] = 0
    BY <1>1, <2>2, <2>3, <2>6 DEF Inv, OneTip
  <2>. QED  BY <2>4, <2>5, <2>6 DEF OneTip
<1>. QED  BY <1>11, <1>12, <1>13, <1>14, <1>15, <1>16, <1>17 DEF Inv

-----------------------------------------------------------------------------
(* The theorems.                                                           *)

LEMMA InitInv == Init => Inv
<1>. SUFFICES ASSUME Init PROVE Inv
  OBVIOUS
<1>1. /\ \A q \in Requests : req[q] = Idle
      /\ \A r \in Refresh : refresh[r] = NoRefresh
      /\ access = {} /\ ended = {} /\ ~wrong /\ redeemed = [f \in Flows |-> 0]
  BY DEF Init
<1>2. NoRefresh \in RefreshRow /\ NoRefresh.st = "none" /\ NoRefresh.succ = NoId /\ ~NoRefresh.expired
  BY OAuthGrantsAssumption DEF NoRefresh, RefreshRow
<1>3. /\ ask \in [Flows -> AskRow] /\ grant \in [Flows -> GrantRow] /\ code \in [Flows -> {"none", "live", "spent"}]
      /\ consent \in [Users -> [Clients -> SUBSET Scopes]]
      /\ FlowOrder
  <2>1. CASE NothingYet
    <3>1. NoAsk \in AskRow /\ NoAsk.st = "unborn" /\ NoGrant \in GrantRow /\ NoGrant.st = "none"
      BY OAuthGrantsAssumption DEF NoAsk, AskRow, NoGrant, GrantRow
    <3>2. consent \in [Users -> [Clients -> SUBSET Scopes]]
      <4>1. {{}} \cup Asked \subseteq SUBSET Scopes
        BY OAuthGrantsAssumption
      <4>. QED  BY <2>1, <4>1 DEF NothingYet
    <3>. QED  BY <1>1, <2>1, <3>1, <3>2 DEF NothingYet, FlowOrder
  <2>2. ASSUME NEW c \in Apps, NEW u \in Users, NEW s \in Wanted, NEW k \in Proofs, Issued(c, u, s, k)
        PROVE <1>3
    <3>1. c \in Clients /\ s \in SUBSET Scopes /\ k \in Keys
      BY OAuthGrantsAssumption DEF Wanted, Proofs
    <3>2. /\ [st |-> "spent", client |-> c, scopes |-> s, jkt |-> k] \in AskRow
          /\ [st |-> "live", client |-> c, user |-> u, scopes |-> s] \in GrantRow
      BY <3>1 DEF AskRow, GrantRow
    <3>3. consent \in [Users -> [Clients -> SUBSET Scopes]]
      BY <2>2, <3>1 DEF Issued
    <3>. QED  BY <1>1, <2>2, <3>2, <3>3 DEF Issued, FlowOrder
  <2>. QED  BY <2>1, <2>2 DEF Init
<1>4. client \in [Clients -> ClientRow] /\ disabled \in [Users -> BOOLEAN]
  <2>1. /\ [st |-> "unborn", public |-> FALSE, secret |-> FALSE] \in ClientRow
        /\ [st |-> "live", public |-> FALSE, secret |-> TRUE] \in ClientRow
    BY DEF ClientRow
  <2>. QED  BY <2>1 DEF Init
<1>5. TypeOK
  <2>1. refresh \in [Refresh -> RefreshRow] /\ req \in [Requests -> Local]
    <3>1. refresh = [r \in Refresh |-> NoRefresh] /\ req = [q \in Requests |-> Idle]
      BY DEF Init
    <3>. QED  BY <1>2, <3>1, IdleCall
  <2>2. access \subseteq Flows /\ ended \subseteq Flows /\ redeemed \in [Flows -> Nat] /\ wrong \in BOOLEAN
    <3>1. wrong = FALSE
      BY DEF Init
    <3>2. 0 \in Nat
      OBVIOUS
    <3>. QED  BY <1>1, <3>1, <3>2
  <2>. QED  BY <1>3, <1>4, <2>1, <2>2 DEF TypeOK
<1>6. Ordered(Idle) /\ Backed(Idle) /\ Presents(Idle) /\ Late(Idle) /\ ~Makes(Idle) /\ ~Holds(Idle)
  BY IdleCall DEF Backed, Presents, Late, Makes, Holds
<1>7. RowChain /\ ExpiredHasRow /\ Reserved
  BY <1>1, <1>2, IdleCall DEF RowChain, ExpiredHasRow, Reserved
<1>8. OneMaker
  BY <1>1, <1>6, IdleCall DEF OneMaker
<1>9. OneTip
  BY <1>1, <1>2, <1>6 DEF OneTip, Tip
<1>. QED  BY <1>1, <1>3, <1>5, <1>6, <1>7, <1>8, <1>9 DEF Inv

LEMMA InvStep == Inv /\ [Next]_vars => Inv'
<1>1. ASSUME Inv, UNCHANGED vars PROVE Inv'
  <2>1. UNCHANGED <<ask, grant, code, access, refresh, consent, client, disabled, req, ended, redeemed, wrong>>
    BY <1>1 DEF vars
  <2>2. \A r \in Refresh : RowAges(refresh[r], refresh'[r])
    BY <2>1 DEF RowAges
  <2>. QED  BY <1>1, <2>1, <2>2, TimeKeeps DEF Inv, TypeOK
<1>2. ASSUME Inv, NEW q \in Requests, Call(q) PROVE Inv'
  <2>1. CASE \E f \in Flows, u \in Users, c \in Clients, s \in Wanted, k \in Proofs : Authorize(q, f, u, c, s, k)
    BY <1>2, <2>1, AuthorizeKeeps
  <2>2. CASE \E f \in Flows, u \in Users, ok \in BOOLEAN : Decide(q, f, u, ok)
    BY <1>2, <2>2, DecideKeeps
  <2>3. CASE \E f \in Flows, c \in Presenters, k \in Proofs, ok \in BOOLEAN : TokenFromCode(q, f, c, k, ok)
    BY <1>2, <2>3, TokenFromCodeKeeps
  <2>4. CASE \E r \in Refresh, c \in Presenters, k \in Proofs, s \in Wanted : TokenFromRefresh(q, r, c, k, s)
    BY <1>2, <2>4, TokenFromRefreshKeeps
  <2>5. CASE \E f \in Flows, c \in Presenters, s \in Asked : ClientCredentials(q, f, c, s)
    BY <1>2, <2>5, ConsumeKeeps
  <2>6. CASE \/ \E r \in Refresh, c \in Presenters : RevokeToken(q, r, c)
             \/ \E u \in Users, c \in Clients : WithdrawConsent(q, u, c)
             \/ \E u \in Users : DisableUser(q, u)
    BY <1>2, <2>6, RevocationStarts
  <2>7. CASE \/ \E f \in Flows, op \in {"resource", "userinfo", "revokeacc"} : VerifyAccessToken(q, f, op)
             \/ \E f \in Flows, c \in Presenters : Introspect(q, f, c)
    BY <1>2, <2>7, PresentKeeps
  <2>8. CASE \E c \in Clients, op \in {"updateclient", "deleteclient"}, s \in {{}, Scopes} : ReadClient(q, c, op, s)
    BY <1>2, <2>8, ClientKeeps
  <2>. QED  BY <1>2, <2>1, <2>2, <2>3, <2>4, <2>5, <2>6, <2>7, <2>8 DEF Call
<1>3. ASSUME Inv, NEW q \in Requests, Step(q) PROVE Inv'
  BY <1>3, ConsentKeeps, ConsumeKeeps, GrantKeeps, CodeKeeps, ReplayKeeps, CheckKeeps, RotateKeeps, MintKeeps,
     InsertKeeps, RevocationKeeps, OwnerKeeps, ClientKeeps DEF Step
<1>. QED  BY <1>1, <1>2, <1>3, ClientKeeps, TimePasses DEF Next

\* The rows, and the requests that hold a place in a flow, agree in every state.
THEOREM ChainInvariant == Spec => []Inv
  BY InitInv, InvStep, PTL DEF Spec

\* ConsumeOAuthCode and RotateOAuthRefreshToken are conditional updates: a code
\* gives one set of tokens, and one refresh token of a grant can be rotated.
THEOREM OneChainPerGrant == Spec => []SingleChain
<1>1. Inv => SingleChain
  <2>. SUFFICES ASSUME Inv, NEW f \in Flows
                PROVE  /\ redeemed[f] <= 1
                       /\ Cardinality({r \in Refresh : refresh[r].st = "live" /\ refresh[r].rotated = "no" /\ refresh[r].grant = f}) <= 1
    BY DEF SingleChain
  <2>. DEFINE S == {r \in Refresh : refresh[r].st = "live" /\ refresh[r].rotated = "no" /\ refresh[r].grant = f}
  <2>1. \A r, s \in S : r = s
    BY DEF Inv, OneTip, Tip
  <2>2. CASE S = {}
    BY <2>2, FS_EmptySet DEF Inv, OneTip
  <2>3. CASE S # {}
    <3>1. PICK r \in S : S = {r}
      BY <2>1, <2>3
    <3>2. Cardinality(S) = 1
      BY <3>1, FS_Singleton
    <3>. QED  BY <3>2 DEF Inv, OneTip
  <2>. QED  BY <2>2, <2>3
<1>. QED  BY <1>1, ChainInvariant, PTL

\* No scope and no key widens from the consent page along the chain.
THEOREM ScopesNarrow == Spec => []Narrowing
<1>1. Inv => Narrowing
  BY DEF Inv, Narrowing, Backed, RowChain, Continues
<1>. QED  BY <1>1, ChainInvariant, PTL

\* Whatever begins after the revocation of its grant is complete is refused, also
\* with the rows that requests under way insert later; the host API refuses a
\* disabled user before.
THEOREM NothingAfterTheEnd == Spec => []EndedIsEnded
<1>1. Inv => EndedIsEnded
  BY DEF Inv, EndedIsEnded
<1>. QED  BY <1>1, ChainInvariant, PTL
=============================================================================
