---------------------------- MODULE OAuthGrants ----------------------------
(***************************************************************************)
(* plugins/oauthprovider: from the authorization request to the code, the  *)
(* grant, the access tokens and the chain of refresh tokens, and whatever  *)
(* ends them: a replay, RFC 7009, a withdrawn consent, a disabled user, a   *)
(* deleted client.                                                          *)
(*                                                                         *)
(* No operation of the plugin opens a transaction, so every statement is a  *)
(* step, and a request may end after any of them (Abort).  One flow is one  *)
(* authorization request with the one grant and the one code it can make.   *)
(* Time is left out: rows expire, and the rotation grace ends, at any        *)
(* moment.                                                                  *)
(***************************************************************************)
EXTENDS Integers, FiniteSets, FiniteSetsExt

CONSTANTS
    Flows, Users, Clients, Requests,
    Static,         \* the clients that the host declares
    Apps,           \* the clients that the codes at the start belong to
    Presenters,     \* the clients that call the token endpoint
    Refresh,        \* identifiers of refresh token rows: 1 .. n
    Scopes, Asked,  \* Asked: the scope sets that requests and refreshes name
    Keys,           \* thumbprints of proof keys; NoKey is a call without a proof
    Mixes           \* the operations that happen together in a behaviour

NoKey == "nokey"
None == "none"
NoId == 0
Offline == "offline_access"

AllOps == {"authorize", "decide", "code", "refresh", "credentials", "withdraw", "disable", "revoke",
           "resource", "userinfo", "introspect", "revokeacc", "updateclient", "deleteclient",
           "register", "expire", "abort", "narrow", "bind"}

ASSUME OAuthGrantsAssumption ==
    /\ Static \subseteq Clients /\ Apps \subseteq Clients /\ Presenters \subseteq Clients
    /\ Refresh \subseteq Nat \ {NoId}
    /\ Asked \subseteq (SUBSET Scopes) \ {{}}
    /\ Mixes \subseteq SUBSET AllOps
    /\ NoKey \in Keys
    /\ None \notin Flows \cup Users \cup Clients

VARIABLES
    mix,        \* the operations of this behaviour
    ask,        \* ask[f]: the row of oauth_requests
    grant,      \* grant[f]: the row of oauth_grants
    code,       \* code[f]: the row of oauth_codes
    access,     \* the grants with a valid row in oauth_access_tokens
    refresh,    \* refresh[r]: the row of oauth_refresh_tokens
    consent,    \* consent[u][c]: the scopes of the row of oauth_consents, {} is no row
    client,     \* client[c]: the row of oauth_clients
    disabled,   \* disabled[u]: users.disabled_at
    req,        \* req[q]: the local state of a request
    ended,      \* history: the grants whose revocation is complete
    redeemed,   \* history: the token sets that each code gave
    wrong       \* history: something that began after the end of its grant succeeded

vars == <<mix, ask, grant, code, access, refresh, consent, client, disabled, req, ended, redeemed, wrong>>
tokens == <<access, refresh>>
flow == <<ask, grant, code>>
others == <<mix, consent, client, disabled>>
history == <<ended, redeemed, wrong>>

-----------------------------------------------------------------------------
AskRow == [st : {"unborn", "open", "spent"}, client : Clients \cup {None},
           scopes : SUBSET Scopes, jkt : Keys]
GrantRow == [st : {"none", "live", "revoked"}, client : Clients \cup {None},
             user : Users \cup {None}, scopes : SUBSET Scopes]
\* rotated: no, inside the grace window, past it.
RefreshRow == [st : {"none", "live", "revoked", "gone"}, rotated : {"no", "grace", "past"},
               expired : BOOLEAN, grant : Flows \cup {None}, scopes : SUBSET Scopes,
               jkt : Keys, succ : Refresh \cup {NoId}]
\* secret: the row has a secret_hash.
ClientRow == [st : {"unborn", "live", "gone"}, public : BOOLEAN, secret : BOOLEAN]

NoAsk == [st |-> "unborn", client |-> None, scopes |-> {}, jkt |-> NoKey]
NoGrant == [st |-> "none", client |-> None, user |-> None, scopes |-> {}]
NoRefresh == [st |-> "none", rotated |-> "no", expired |-> FALSE, grant |-> None, scopes |-> {},
              jkt |-> NoKey, succ |-> NoId]

PCs == {"idle", "continue", "deny", "upsert", "insert", "consume", "grant", "code", "check", "replay",
        "rotate", "mint", "refresh", "revoke1", "revoke2", "revoke3", "racc", "owner", "client"}

\* succ: the identifier of the refresh row to insert; ref: the presented
\* token; dead: the grant had ended, or the host API was to refuse its user, when
\* the call began.
Local == [op : AllOps \cup {"none", "stolen", "replay"}, pc : PCs, flow : Flows \cup {None}, client : Clients \cup {None},
          user : Users \cup {None}, jkt : Keys, scopes : SUBSET Scopes,
          ref : Refresh \cup {NoId}, succ : Refresh \cup {NoId}, dead : BOOLEAN]

Idle == [op |-> "none", pc |-> "idle", flow |-> None, client |-> None, user |-> None, jkt |-> NoKey,
         scopes |-> {}, ref |-> NoId, succ |-> NoId, dead |-> FALSE]

Free(q, op) == op \in mix /\ req[q].pc = "idle"
Return(q) == req' = [req EXCEPT ![q] = Idle]
Goto(q, pc) == req' = [req EXCEPT ![q].pc = pc]

\* lookupClient: a static client needs no row.
Known(c) == c \in Static \/ client[c].st = "live"

\* authenticateClient: a public client, or one whose secret matches.
Authenticated(c) == Known(c) /\ (c \in Static \/ client[c].public \/ client[c].secret)

\* The call of a client on a grant begins.
Calling(op, c, f) == [Idle EXCEPT !.op = op, !.client = c, !.flow = f,
                        !.dead = f \in ended]

\* What calls name: all scopes and no proof, or also less and a key.
Wanted == IF "narrow" \in mix THEN Asked ELSE {Scopes}
Proofs == IF "bind" \in mix THEN Keys ELSE {NoKey}

\* The identifiers that no row and no request has.
Fresh == {r \in Refresh : /\ refresh[r].st = "none"
                          /\ \A s \in Refresh : refresh[s].succ # r
                          /\ \A p \in Requests : req[p].succ # r}

\* A behaviour without the authorization endpoint begins with a code, for every
\* client, set of scopes and key that it may have been issued to.
Issued(c, u, scopes, jkt) ==
    /\ ask = [f \in Flows |-> [st |-> "spent", client |-> c, scopes |-> scopes, jkt |-> jkt]]
    /\ grant = [f \in Flows |-> [st |-> "live", client |-> c, user |-> u, scopes |-> scopes]]
    /\ code = [f \in Flows |-> "live"]
    /\ consent = [v \in Users |-> [d \in Clients |-> IF v = u /\ d = c /\ d \notin Static THEN scopes ELSE {}]]

NothingYet ==
    /\ ask = [f \in Flows |-> NoAsk]
    /\ grant = [f \in Flows |-> NoGrant]
    /\ code = [f \in Flows |-> "none"]
    /\ consent \in [Users -> [Clients -> {{}} \cup Asked]]
    /\ \A u \in Users, c \in Static : consent[u][c] = {}

Init ==
    /\ mix \in Mixes
    /\ IF "authorize" \in mix THEN NothingYet
       ELSE \E c \in Apps, u \in Users, s \in Wanted, k \in Proofs : Issued(c, u, s, k)
    /\ access = {}
    /\ refresh = [r \in Refresh |-> NoRefresh]
    /\ client = [c \in Clients |->
                   IF c \in Static \/ "register" \in mix THEN [st |-> "unborn", public |-> FALSE, secret |-> FALSE]
                   ELSE [st |-> "live", public |-> FALSE, secret |-> TRUE]]
    /\ disabled = [u \in Users |-> FALSE]
    /\ req = [q \in Requests |-> Idle]
    /\ ended = {} /\ redeemed = [f \in Flows |-> 0] /\ wrong = FALSE

-----------------------------------------------------------------------------
(* The statements of sqlstore/oauthprovider.go that insert and change rows. *)

InsertRequest(f, row) == ask' = [ask EXCEPT ![f] = row]
InsertGrant(f, row) == grant' = [grant EXCEPT ![f] = row]
InsertCode(f) == code' = [code EXCEPT ![f] = "live"]
ConsumeCode(f) == code' = [code EXCEPT ![f] = "spent"]
InsertAccessToken(f) == access' = access \cup {f}
InsertRefreshToken(r, row) == refresh' = [refresh EXCEPT ![r] = row]
InsertClient(c, row) == client' = [client EXCEPT ![c] = row]
DeleteOAuthClient(c) == client' = [client EXCEPT ![c].st = "gone"]
DeleteConsent(u, c) == consent' = [consent EXCEPT ![u][c] = {}]
WriteConsent(u, c, scopes) == consent' = [consent EXCEPT ![u][c] = scopes]

-----------------------------------------------------------------------------
(* The authorization request and the consent page.                         *)

\* handleAuthorize: the row is inserted, then the session is read.
Authorize(q, f, u, c, scopes, jkt) ==
    /\ Free(q, "authorize") /\ ask[f].st = "unborn" /\ grant[f].st = "none" /\ Known(c) /\ ~disabled[u]
    /\ InsertRequest(f, [st |-> "open", client |-> c, scopes |-> scopes, jkt |-> jkt])
    /\ req' = [req EXCEPT ![q] = [Calling("authorize", c, f) EXCEPT !.pc = "continue", !.user = u]]
    /\ UNCHANGED <<grant, code, tokens, others, history>>

\* consentMissing: a static client needs no consent.
ConsentMissing(f, u, c) == c \notin Static /\ ~(ask[f].scopes \subseteq consent[u][c])

\* continueRequest: to a page of the host, or on with the standing consent.
ContinueRequest(q) ==
    LET l == req[q] IN
    /\ l.pc = "continue"
    /\ \/ Return(q)
       \/ ~ConsentMissing(l.flow, l.user, l.client) /\ Goto(q, "consume")
    /\ UNCHANGED <<flow, tokens, others, history>>

\* handleDecide of the consent page.
Decide(q, f, u, approve) ==
    LET c == ask[f].client IN
    /\ Free(q, "decide") /\ ask[f].st = "open" /\ ~disabled[u] /\ Known(c)
    /\ req' = [req EXCEPT ![q] = [Calling("decide", c, f) EXCEPT !.user = u, !.pc =
                 CASE ~approve -> "deny" [] approve /\ c \in Static -> "consume" [] OTHER -> "upsert"]]
    /\ UNCHANGED <<flow, tokens, others, history>>

\* UpsertOAuthConsent: an UPDATE, then an INSERT when no row matched.
UpsertConsent(q) ==
    LET l == req[q] IN
    /\ l.pc = "upsert"
    /\ IF consent[l.user][l.client] = {} THEN Goto(q, "insert") /\ UNCHANGED consent
       ELSE Goto(q, "consume") /\ WriteConsent(l.user, l.client, ask[l.flow].scopes)
    /\ UNCHANGED <<mix, flow, tokens, client, disabled, history>>

\* The INSERT conflicts when another approval was faster.
InsertConsent(q) ==
    LET l == req[q] IN
    /\ l.pc = "insert"
    /\ IF consent[l.user][l.client] # {} THEN Return(q) /\ UNCHANGED consent
       ELSE Goto(q, "consume") /\ WriteConsent(l.user, l.client, ask[l.flow].scopes)
    /\ UNCHANGED <<mix, flow, tokens, client, disabled, history>>

\* ConsumeOAuthRequest of finishRequest and of a denial.
ConsumeRequest(q) ==
    LET l == req[q] IN
    /\ l.pc \in {"consume", "deny"}
    /\ IF ask[l.flow].st = "open" /\ l.pc = "consume" THEN Goto(q, "grant") ELSE Return(q)
    /\ ask' = [ask EXCEPT ![l.flow].st = "spent"]
    /\ UNCHANGED <<grant, code, tokens, others, history>>

\* CreateOAuthGrant of finishRequest and of the client credentials grant.
CreateGrant(q) ==
    LET l == req[q] IN
    /\ l.pc = "grant"
    /\ InsertGrant(l.flow, [st |-> "live", client |-> l.client, user |-> l.user,
                            scopes |-> ask[l.flow].scopes])
    /\ Goto(q, IF l.op = "credentials" THEN "mint" ELSE "code")
    /\ UNCHANGED <<ask, code, tokens, others, history>>

CreateCode(q) ==
    /\ req[q].pc = "code"
    /\ InsertCode(req[q].flow)
    /\ Return(q)
    /\ UNCHANGED <<ask, grant, tokens, others, history>>

-----------------------------------------------------------------------------
(* The token endpoint.                                                     *)

\* tokenFromCode: the conditional UPDATE of ConsumeOAuthCode spends the code,
\* whatever is wrong with the call: another client, the redirect URI or the
\* verifier (good), the proof key.
TokenFromCode(q, f, c, jkt, good) ==
    /\ Free(q, "code") /\ Authenticated(c) /\ code[f] = "live"
    /\ ConsumeCode(f)
    /\ req' = [req EXCEPT ![q] =
         IF c # grant[f].client THEN [Calling("code", c, f) EXCEPT !.pc = "revoke1"]
         ELSE IF ~good \/ ask[f].jkt \notin {NoKey, jkt} THEN Idle
         ELSE [Calling("code", c, f) EXCEPT !.pc = "check", !.jkt = jkt, !.scopes = grant[f].scopes]]
    /\ UNCHANGED <<ask, grant, tokens, others, history>>

\* Mutant: the scopes of the form are not compared with the row.
RefreshAnyScope(q, r, c, jkt, scopes) ==
    LET row == refresh[r]
        call == [Calling("refresh", c, row.grant) EXCEPT !.ref = r, !.jkt = jkt]
    IN
    /\ Free(q, "refresh") /\ Authenticated(c) /\ row.st = "live" /\ ~row.expired /\ row.jkt \in {NoKey, jkt}
    /\ c = grant[row.grant].client /\ row.rotated = "no"
    /\ req' = [req EXCEPT ![q] = [call EXCEPT !.pc = "check", !.scopes = scopes]]
    /\ UNCHANGED <<flow, tokens, others, history>>

\* tokenFromRefresh, the row: a token of another client, or one that was rotated
\* longer ago than the grace, takes its grant with it.
TokenFromRefresh(q, r, c, jkt, scopes) ==
    LET row == refresh[r]
        call == [Calling("refresh", c, row.grant) EXCEPT !.ref = r, !.jkt = jkt]
    IN
    /\ Free(q, "refresh") /\ Authenticated(c) /\ row.st \in {"live", "revoked"}
    /\ \/ /\ c # grant[row.grant].client
          /\ req' = [req EXCEPT ![q] = [call EXCEPT !.pc = "revoke1"]]
       \/ /\ c = grant[row.grant].client /\ row.st = "live" /\ ~row.expired /\ row.jkt \in {NoKey, jkt}
          /\ \/ /\ row.rotated = "past"
                /\ req' = [req EXCEPT ![q] = [call EXCEPT !.op = "stolen", !.pc = "revoke1"]]
             \/ /\ row.rotated = "grace"
                /\ req' = [req EXCEPT ![q] = [call EXCEPT !.op = "replay", !.pc = "replay"]]
             \/ /\ row.rotated = "no" /\ scopes \subseteq row.scopes
                /\ req' = [req EXCEPT ![q] = [call EXCEPT !.pc = "check", !.scopes = scopes]]
    /\ UNCHANGED <<flow, tokens, others, history>>

\* replayRotation: the successor row answers, if it is there.
ReplayRotation(q) ==
    LET l == req[q]
        next == refresh[l.ref].succ
    IN
    /\ l.pc = "replay"
    /\ IF next # NoId /\ refresh[next].st = "live"
         THEN req' = [req EXCEPT ![q].pc = "check", ![q].scopes = refresh[next].scopes]
         ELSE Return(q)
    /\ UNCHANGED <<flow, tokens, others, history>>

\* The call is answered with success.
Answer(l) == wrong' = (wrong \/ l.dead)

\* Mutant: the row of the token is enough.
CheckNothing(q) ==
    LET l == req[q] IN
    /\ l.pc = "check"
    /\ CASE l.op = "refresh" -> Goto(q, "rotate") /\ UNCHANGED wrong
         [] l.op \in {"code", "replay"} -> Goto(q, "mint") /\ UNCHANGED wrong
         [] l.op = "revokeacc" -> Goto(q, "racc") /\ UNCHANGED wrong
         [] l.op \in {"resource", "userinfo"} -> Goto(q, "owner") /\ UNCHANGED wrong
         [] l.op = "introspect" -> Return(q) /\ Answer(l)
    /\ UNCHANGED <<flow, tokens, others, ended, redeemed>>

\* OAuthGrantByID: tokenFromCode, tokenFromRefresh, replayRotation and
\* verifyAccessToken refuse a revoked grant.
CheckGrant(q) ==
    LET l == req[q] IN
    /\ l.pc = "check"
    /\ IF grant[l.flow].st # "live" THEN Return(q) /\ UNCHANGED wrong
       ELSE CASE l.op = "refresh" -> Goto(q, "rotate") /\ UNCHANGED wrong
              [] l.op \in {"code", "replay"} -> Goto(q, "mint") /\ UNCHANGED wrong
              [] l.op = "revokeacc" -> Goto(q, "racc") /\ UNCHANGED wrong
              [] l.op \in {"resource", "userinfo"} -> Goto(q, "owner") /\ UNCHANGED wrong
              [] l.op = "introspect" -> Return(q) /\ Answer(l)
    /\ UNCHANGED <<flow, tokens, others, ended, redeemed>>

\* Mutant: the UPDATE does not ask whether the row was rotated.
RotateAgain(q) ==
    LET l == req[q] IN
    /\ l.pc = "rotate" /\ Fresh # {}
    /\ IF refresh[l.ref].st = "live"
         THEN /\ refresh' = [refresh EXCEPT ![l.ref].rotated = "grace", ![l.ref].succ = Min(Fresh)]
              /\ req' = [req EXCEPT ![q].pc = "mint", ![q].succ = Min(Fresh)]
         ELSE Return(q) /\ UNCHANGED refresh
    /\ UNCHANGED <<flow, access, others, history>>

\* RotateOAuthRefreshToken: UPDATE ... WHERE rotated_at IS NULL AND revoked_at
\* IS NULL.  The successor has an identifier and no row yet.
RotateRefreshToken(q) ==
    LET l == req[q] IN
    /\ l.pc = "rotate" /\ Fresh # {}
    /\ IF refresh[l.ref].st = "live" /\ refresh[l.ref].rotated = "no"
         THEN /\ refresh' = [refresh EXCEPT ![l.ref].rotated = "grace", ![l.ref].succ = Min(Fresh)]
              /\ req' = [req EXCEPT ![q].pc = "mint", ![q].succ = Min(Fresh)]
         ELSE Return(q) /\ UNCHANGED refresh
    /\ UNCHANGED <<flow, access, others, history>>

\* mintAccessToken.  A refresh token follows for offline_access, a retry inside
\* the grace gets none.
MintAccessToken(q) ==
    LET l == req[q]
        more == Offline \in l.scopes /\ l.op \in {"code", "refresh"}
    IN
    /\ l.pc = "mint"
    /\ InsertAccessToken(l.flow)
    /\ redeemed' = IF l.op = "code" THEN [redeemed EXCEPT ![l.flow] = @ + 1] ELSE redeemed
    /\ IF more THEN Goto(q, "refresh") /\ UNCHANGED wrong ELSE Return(q) /\ Answer(l)
    /\ UNCHANGED <<flow, refresh, others, ended>>

\* CreateOAuthRefreshToken of issueTokensWithID, and the answer.
CreateRefreshToken(q) ==
    LET l == req[q]
        id == IF l.succ # NoId THEN {l.succ} ELSE Fresh
    IN
    /\ l.pc = "refresh" /\ id # {}
    /\ InsertRefreshToken(Min(id),
         [st |-> "live", rotated |-> "no", expired |-> FALSE, grant |-> l.flow, scopes |-> l.scopes,
          jkt |-> l.jkt, succ |-> NoId])
    /\ Return(q) /\ Answer(l)
    /\ UNCHANGED <<flow, access, others, ended, redeemed>>

\* tokenFromClientCredentials, of a client with a secret (a static one is taken to
\* have one): a grant without a user; no offline_access.  There is no
\* authorization request: ask[f] only keeps the scopes of the flow.
ClientCredentials(q, f, c, scopes) ==
    /\ Free(q, "credentials") /\ ask[f].st = "unborn" /\ grant[f].st = "none"
    /\ Authenticated(c) /\ (c \in Static \/ ~client[c].public) /\ Offline \notin scopes
    /\ ask' = [ask EXCEPT ![f] = [st |-> "spent", client |-> c, scopes |-> scopes, jkt |-> NoKey]]
    /\ req' = [req EXCEPT ![q] = [Calling("credentials", c, f) EXCEPT !.pc = "grant", !.scopes = scopes]]
    /\ UNCHANGED <<grant, code, tokens, others, history>>

-----------------------------------------------------------------------------
(* What ends a grant.                                                      *)

\* The condition of revokeGrantRows: by identifier, user, or user and client.
Selected(l) ==
    {f \in Flows : /\ grant[f].st # "none"
                   /\ CASE l.op = "disable" -> grant[f].user = l.user
                        [] l.op = "withdraw" -> grant[f].user = l.user /\ grant[f].client = l.client
                        [] OTHER -> f = l.flow}

\* revokeGrantRows: the access tokens, the refresh tokens, the grants, in three
\* statements.  The condition is evaluated by each.
RevokeAccessTokens(q) ==
    /\ req[q].pc = "revoke1"
    /\ access' = access \ Selected(req[q])
    /\ Goto(q, "revoke2")
    /\ UNCHANGED <<flow, refresh, others, history>>

RevokeRefreshTokens(q) ==
    /\ req[q].pc = "revoke2"
    /\ refresh' = [r \in Refresh |-> IF refresh[r].st = "live" /\ refresh[r].grant \in Selected(req[q])
                                       THEN [refresh[r] EXCEPT !.st = "revoked"] ELSE refresh[r]]
    /\ Goto(q, "revoke3")
    /\ UNCHANGED <<flow, access, others, history>>

RevokeGrants(q) ==
    /\ req[q].pc = "revoke3"
    /\ grant' = [f \in Flows |-> IF f \in Selected(req[q]) THEN [grant[f] EXCEPT !.st = "revoked"] ELSE grant[f]]
    /\ ended' = ended \cup Selected(req[q])
    /\ Return(q)
    /\ UNCHANGED <<ask, code, tokens, others, redeemed, wrong>>

\* handleRevoke with a refresh token of the client.
RevokeToken(q, r, c) ==
    /\ Free(q, "revoke") /\ Authenticated(c) /\ refresh[r].st \in {"live", "revoked"}
    /\ grant[refresh[r].grant].client = c
    /\ req' = [req EXCEPT ![q] = [Calling("revoke", c, refresh[r].grant) EXCEPT !.pc = "revoke1"]]
    /\ UNCHANGED <<flow, tokens, others, history>>

\* handleWithdrawConsent: DeleteOAuthConsent, then the grants.
WithdrawConsent(q, u, c) ==
    /\ Free(q, "withdraw") /\ ~disabled[u]
    /\ DeleteConsent(u, c)
    /\ req' = [req EXCEPT ![q] = [Idle EXCEPT !.op = "withdraw", !.pc = "revoke1", !.user = u, !.client = c]]
    /\ UNCHANGED <<mix, flow, tokens, client, disabled, history>>

\* Disable of plugins/admin commits, then the hook of registerHooks runs.
DisableUser(q, u) ==
    /\ Free(q, "disable")
    /\ disabled' = [disabled EXCEPT ![u] = TRUE]
    /\ req' = [req EXCEPT ![q] = [Idle EXCEPT !.op = "disable", !.pc = "revoke1", !.user = u]]
    /\ UNCHANGED <<mix, flow, tokens, consent, client, history>>

-----------------------------------------------------------------------------
(* Resource requests, and clients.                                         *)

\* Resolve and ResolveRequest refuse a disabled user, handleUserInfo does not.
Barred(op, f) == op = "resource" /\ grant[f].user # None /\ disabled[grant[f].user]

\* verifyAccessToken, the row: a request to the host API, one to the userinfo
\* endpoint, or handleRevoke with an access token of the client.  The client is
\* not looked up at a resource: a token outlives its client.
VerifyAccessToken(q, f, op) ==
    /\ op \in {"resource", "userinfo", "revokeacc"} /\ Free(q, op) /\ f \in access
    /\ op = "revokeacc" => Authenticated(grant[f].client)
    /\ req' = [req EXCEPT ![q] = [Calling(op, grant[f].client, f) EXCEPT
                  !.pc = "check", !.dead = f \in ended \/ Barred(op, f)]]
    /\ UNCHANGED <<flow, tokens, others, history>>

\* handleIntrospect: a client with a secret asks about a token of its own.
Introspect(q, f, c) ==
    /\ Free(q, "introspect") /\ f \in access
    /\ Authenticated(c) /\ (c \in Static \/ ~client[c].public) /\ grant[f].client = c
    /\ req' = [req EXCEPT ![q] = [Calling("introspect", c, f) EXCEPT !.pc = "check"]]
    /\ UNCHANGED <<flow, tokens, others, history>>

\* Mutant: Resolve does not ask whether the user is disabled.
ReadOwnerOnly(q) ==
    LET l == req[q] IN
    /\ l.pc = "owner"
    /\ Return(q)
    /\ IF grant[l.flow].user = None THEN UNCHANGED wrong ELSE Answer(l)
    /\ UNCHANGED <<flow, tokens, others, ended, redeemed>>

\* Users().ByID of Resolve, ResolveRequest and handleUserInfo.  A token without
\* a user, for another audience, without the openid scope or with a proof of
\* another key is refused.
ReadOwner(q) ==
    LET l == req[q] IN
    /\ l.pc = "owner"
    /\ Return(q)
    /\ \/ UNCHANGED wrong
       \/ grant[l.flow].user # None /\ ~Barred(l.op, l.flow) /\ Answer(l)
    /\ UNCHANGED <<flow, tokens, others, ended, redeemed>>

\* Another token of the grant may stay.
RevokeAccessToken(q) ==
    /\ req[q].pc = "racc"
    /\ access' \in {access, access \ {req[q].flow}}
    /\ Return(q)
    /\ UNCHANGED <<flow, refresh, others, history>>

\* buildClient and CreateOAuthClient of handleRegister and
\* handleCreateManagedClient: a public client has no secret.
RegisterClient(c, public) ==
    /\ "register" \in mix /\ c \notin Static /\ client[c].st = "unborn"
    /\ InsertClient(c, [st |-> "live", public |-> public, secret |-> ~public])
    /\ UNCHANGED <<mix, flow, tokens, consent, disabled, req, history>>

\* handleUpdateClient, handleDeleteClient and handleDeleteManagedClient read the
\* row first.  An update that names scopes is one to a method with a secret.
ReadClient(q, c, op, scopes) ==
    /\ op \in {"updateclient", "deleteclient"} /\ Free(q, op) /\ c \notin Static /\ client[c].st = "live"
    /\ req' = [req EXCEPT ![q] = [Idle EXCEPT !.op = op, !.pc = "client", !.client = c, !.scopes = scopes]]
    /\ UNCHANGED <<flow, tokens, others, history>>

\* UpdateOAuthClient: the method is replaced, the secret hash survives.
UpdateClient(q) ==
    LET l == req[q] IN
    /\ l.pc = "client" /\ l.op = "updateclient"
    /\ client' = IF client[l.client].st # "live" THEN client
                 ELSE [client EXCEPT ![l.client].public = (l.scopes = {})]
    /\ Return(q)
    /\ UNCHANGED <<mix, flow, tokens, consent, disabled, history>>

\* handleDeleteClient and handleDeleteManagedClient: no grant is revoked.
DeleteClient(q) ==
    LET l == req[q] IN
    /\ l.pc = "client" /\ l.op = "deleteclient"
    /\ DeleteOAuthClient(l.client)
    /\ Return(q)
    /\ UNCHANGED <<mix, flow, tokens, consent, disabled, history>>

-----------------------------------------------------------------------------
(* Time, cleanup, and requests that end early.                             *)

Expire ==
    /\ "expire" \in mix
    /\ \/ \E f \in Flows : /\ ask[f].st = "open"
                           /\ ask' = [ask EXCEPT ![f].st = "spent"] /\ UNCHANGED <<code, tokens>>
       \/ \E f \in Flows : /\ code[f] = "live"
                           /\ code' = [code EXCEPT ![f] = "spent"] /\ UNCHANGED <<ask, tokens>>
       \/ \E f \in access : access' = access \ {f} /\ UNCHANGED <<ask, code, refresh>>
       \/ \E r \in Refresh : /\ refresh[r].st = "live" /\ ~refresh[r].expired
                             /\ refresh' = [refresh EXCEPT ![r].expired = TRUE] /\ UNCHANGED <<ask, code, access>>
    /\ UNCHANGED <<grant, others, req, history>>

\* RotationGrace has passed since rotated_at.
GraceEnds(r) ==
    /\ refresh[r].rotated = "grace"
    /\ refresh' = [refresh EXCEPT ![r].rotated = "past"]
    /\ UNCHANGED <<flow, access, others, req, history>>

\* Cleanup, DeleteExpiredOAuthRows: rows that expired an hour ago.
Cleanup(r) ==
    /\ "expire" \in mix /\ refresh[r].expired /\ refresh[r].st # "gone"
    /\ refresh' = [refresh EXCEPT ![r].st = "gone"]
    /\ UNCHANGED <<flow, access, others, req, history>>

Abort(q) ==
    /\ "abort" \in mix /\ req[q].pc # "idle"
    /\ Return(q)
    /\ UNCHANGED <<flow, tokens, others, history>>

-----------------------------------------------------------------------------
\* The steps of a request that is under way.
Step(q) ==
    \/ ContinueRequest(q) \/ UpsertConsent(q) \/ InsertConsent(q) \/ ConsumeRequest(q)
    \/ CreateGrant(q) \/ CreateCode(q) \/ ReplayRotation(q) \/ CheckGrant(q)
    \/ RotateRefreshToken(q) \/ MintAccessToken(q) \/ CreateRefreshToken(q)
    \/ RevokeAccessTokens(q) \/ RevokeRefreshTokens(q) \/ RevokeGrants(q)
    \/ RevokeAccessToken(q) \/ ReadOwner(q) \/ UpdateClient(q) \/ DeleteClient(q)

Call(q) ==
    \/ \E f \in Flows, u \in Users, c \in Clients, s \in Wanted, k \in Proofs : Authorize(q, f, u, c, s, k)
    \/ \E f \in Flows, u \in Users, ok \in BOOLEAN : Decide(q, f, u, ok)
    \/ \E f \in Flows, c \in Presenters, k \in Proofs, ok \in BOOLEAN : TokenFromCode(q, f, c, k, ok)
    \/ \E r \in Refresh, c \in Presenters, k \in Proofs, s \in Wanted : TokenFromRefresh(q, r, c, k, s)
    \/ \E f \in Flows, c \in Presenters, s \in Asked : ClientCredentials(q, f, c, s)
    \/ \E r \in Refresh, c \in Presenters : RevokeToken(q, r, c)
    \/ \E u \in Users, c \in Clients : WithdrawConsent(q, u, c)
    \/ \E u \in Users : DisableUser(q, u)
    \/ \E f \in Flows, op \in {"resource", "userinfo", "revokeacc"} : VerifyAccessToken(q, f, op)
    \/ \E f \in Flows, c \in Presenters : Introspect(q, f, c)
    \/ \E c \in Clients, op \in {"updateclient", "deleteclient"}, s \in {{}, Scopes} : ReadClient(q, c, op, s)

Next ==
    \/ \E q \in Requests : Call(q) \/ Step(q) \/ Abort(q)
    \/ \E r \in Refresh : GraceEnds(r) \/ Cleanup(r)
    \/ \E c \in Clients, public \in BOOLEAN : RegisterClient(c, public)
    \/ Expire

Spec == Init /\ [][Next]_vars

-----------------------------------------------------------------------------
(* Properties.                                                             *)

TypeOK ==
    /\ ask \in [Flows -> AskRow] /\ grant \in [Flows -> GrantRow]
    /\ code \in [Flows -> {"none", "live", "spent"}]
    /\ access \subseteq Flows /\ refresh \in [Refresh -> RefreshRow]
    /\ consent \in [Users -> [Clients -> SUBSET Scopes]] /\ client \in [Clients -> ClientRow]
    /\ disabled \in [Users -> BOOLEAN] /\ req \in [Requests -> Local]
    /\ ended \subseteq Flows /\ redeemed \in [Flows -> Nat] /\ wrong \in BOOLEAN

\* A code gives at most one set of tokens, and a grant has at most one refresh
\* token that was not rotated, however many requests present the same code or
\* the same refresh token at the same time.
SingleChain ==
    \A f \in Flows :
        /\ redeemed[f] <= 1
        /\ Cardinality({r \in Refresh : refresh[r].st = "live" /\ refresh[r].rotated = "no" /\ refresh[r].grant = f}) <= 1

\* Nothing that begins after a grant was revoked is answered with a token or
\* accepted at a resource, although requests that were under way insert live rows
\* after the rows were revoked.  The host API also refuses the user whose Disable
\* committed and whose grants the hook has not reached.
EndedIsEnded == ~wrong

\* No token is minted with a scope that the user did not approve; along the chain
\* no scope comes back, and a key that a token is bound to stays.
Narrowing ==
    /\ TypeOK
    /\ \A q \in Requests : req[q].pc = "mint" => req[q].scopes \subseteq grant[req[q].flow].scopes
    /\ \A r \in Refresh : LET next == refresh[r].succ IN
          next # NoId /\ refresh[next].st # "none" =>
              /\ refresh[next].scopes \subseteq refresh[r].scopes
              /\ refresh[r].jkt \in {NoKey, refresh[next].jkt}
=============================================================================
