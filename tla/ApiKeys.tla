------------------------------ MODULE ApiKeys ------------------------------
(***************************************************************************)
(* plugins/apikeys: the keys of one user, plain ones and those of one       *)
(* organization, from Create to Revoke, and the requests that present them  *)
(* to several instances, each with its principal cache.                     *)
(*                                                                         *)
(* Resolve is a sequence of statements: the key with its owner, then the    *)
(* organization, the membership, and the two roles (KeyCredential).  The    *)
(* role of the owner, its membership and the custom role change at any      *)
(* moment in between.  Time is relative: what is still to run is counted    *)
(* down, what has passed is counted up to the bound.  The scopes of a key   *)
(* are fixed at its creation and are left out.                              *)
(***************************************************************************)
EXTENDS Integers, FiniteSets, Permissions

CONSTANTS
    Keys, Instances, Requests,
    Parts,          \* "plain": keys of a user and what happens to the user;
                    \* "organization": keys of the organization and what happens to it
    Busy,           \* the number of requests at one time, for each part
    TopRank,        \* the ranks of roles.Hierarchy are 0 .. TopRank
    BuiltIn,        \* the statements of each declared organization role
    Declarable,     \* the sets of statements of the custom role
    RankOf,         \* the rank of an organization role's name in the hierarchy, or -1
    CacheTTL,       \* the time of an entry of the principal cache
    MaxDelay        \* a request takes at most this long

Custom == "custom"
NoRole == "none"
OrgRoles == DOMAIN BuiltIn \cup {Custom}
Ranks == 0 .. TopRank
Bound == CacheTTL + MaxDelay

ASSUME ApiKeysAssumption ==
    /\ TopRank \in Nat /\ CacheTTL \in Nat /\ MaxDelay \in Nat
    /\ Custom \notin DOMAIN BuiltIn /\ NoRole \notin OrgRoles
    /\ \A r \in DOMAIN BuiltIn : BuiltIn[r] \subseteq Statements
    /\ Declarable \subseteq (SUBSET Statements) \ {{}}
    /\ RankOf \in [OrgRoles \cup {NoRole} -> Ranks \cup {-1}]
    /\ "none" \notin Keys \cup Instances

VARIABLES
    owner,      \* the row of the user: its state and the rank of its role
    key,        \* key[k]: the row of api_keys
    org,        \* the organization is there
    member,     \* the role of the owner's active membership, or NoRole
    custom,     \* the statements of the custom role, {} is no row
    cache,      \* cache[i][k]: the entry of the principal cache of an instance
    req,        \* req[q]: the local state of a request
    part,       \* the part of Parts that this behaviour is about
    watch,      \* history: the claim that is watched, any of them
    lost,       \* history: how long the rows have not supported it
    late,       \* history: keys inserted after their organization was gone
    wrong       \* history: a request was accepted with a claim lost before the bound

vars == <<owner, key, org, member, custom, cache, req, part, watch, lost, late, wrong>>
tables == <<owner, key, org, member, custom>>

-----------------------------------------------------------------------------
\* What a principal carries: a valid key, a role at least r, an active membership
\* for a key of the organization, a permission.
Membership == <<"member", "active">>
Claims == {<<"key", k>> : k \in Keys} \cup {<<"role", r>> : r \in Ranks}
            \cup {Membership} \cup {<<"perm", c>> : c \in Concrete}

NoKey == [st |-> "none", org |-> FALSE, rank |-> 0, role |-> NoRole]
KeyRow == [st : {"none", "live", "expired", "revoked", "gone"}, org : BOOLEAN, rank : Ranks \cup {-1},
           role : OrgRoles \cup {NoRole}]
Entry == [left : 0 .. CacheTTL, claims : SUBSET Claims, torn : BOOLEAN]
NoEntry == [left |-> 0, claims |-> {}, torn |-> FALSE]

\* torn: the custom role changed between the reads of KeyCredential.
Local == [pc : {"idle", "key", "org", "member", "live", "granted", "touch", "put", "insert", "revoke"},
          inst : Instances \cup {"none"}, key : Keys \cup {"none"}, age : 0 .. MaxDelay,
          row : KeyRow, role : OrgRoles \cup {NoRole}, live : SUBSET Statements,
          claims : SUBSET Claims, torn : BOOLEAN]
Idle == [pc |-> "idle", inst |-> "none", key |-> "none", age |-> 0, row |-> NoKey, role |-> NoRole,
         live |-> {}, claims |-> {}, torn |-> FALSE]

Return(q) == req' = [req EXCEPT ![q] = Idle]
Smaller(a, b) == IF a < b THEN a ELSE b

\* knownRole: a role that the organization does not hold has no statements.
PermissionsOf(role) ==
    IF role \in DOMAIN BuiltIn THEN BuiltIn[role] ELSE IF role = Custom THEN custom ELSE {}
KnownRole(role) == role \in DOMAIN BuiltIn \/ (role = Custom /\ custom # {})

\* What the rows support at this moment.
Valid(k) == key[k].st = "live" /\ owner.st = "enabled"
Supported(c) ==
    \/ c[1] = "key" /\ Valid(c[2])
    \/ c[1] = "role" /\ c[2] <= owner.rank
    \/ c = Membership /\ org /\ member # NoRole
    \/ c[1] = "perm" /\ org /\ member # NoRole /\ c[2] \in Reach(PermissionsOf(member))

Never == -1
History ==
    /\ UNCHANGED <<part, watch>>
    /\ lost' = IF Supported(watch)' THEN Never ELSE IF lost = Never THEN 0 ELSE lost

Init ==
    /\ owner = [st |-> "enabled", rank |-> TopRank]
    /\ key = [k \in Keys |-> NoKey]
    /\ part \in Parts
    /\ org = TRUE /\ custom \in Declarable
    /\ member \in IF part = "plain" THEN {NoRole} ELSE OrgRoles
    /\ cache = [i \in Instances |-> [k \in Keys |-> NoEntry]]
    /\ req = [q \in Requests |-> Idle]
    \* the rank of the user changes in the plain part only
    /\ watch \in {c \in Claims : IF part = "plain" THEN c[1] \in {"key", "role"} ELSE c[1] # "role"}
    /\ lost = IF Supported(watch) THEN Never ELSE 0
    /\ late = {} /\ wrong = FALSE

-----------------------------------------------------------------------------
(* Create and Revoke.                                                      *)

\* Create of a plain key.  The role is compared with the owner of the principal,
\* which the cache may have kept from before a demotion: any rank is possible.
CreateKey(q, rank) ==
    /\ req[q].pc = "idle"
    /\ req' = [req EXCEPT ![q] = [Idle EXCEPT !.pc = "insert", !.row =
                 [NoKey EXCEPT !.st = "live", !.rank = rank]]]
    /\ UNCHANGED <<tables, cache, late, wrong>>

\* Create of a key of the organization: KeyCredential and, where a role is named,
\* KnownRole.
CreateOrgKey(q, role) ==
    /\ req[q].pc = "idle" /\ org /\ member # NoRole /\ (role # NoRole => KnownRole(role))
    /\ req' = [req EXCEPT ![q] = [Idle EXCEPT !.pc = "insert", !.row =
                 [NoKey EXCEPT !.st = "live", !.org = TRUE, !.rank = RankOf[role], !.role = role]]]
    /\ UNCHANGED <<tables, cache, late, wrong>>

\* CreateAPIKey: a foreign key asks for the user, none for the organization.
InsertKey(q) ==
    LET row == req[q].row IN
    /\ req[q].pc = "insert"
    /\ \/ \E k \in Keys :
             /\ key[k].st = "none" /\ owner.st # "gone"
             /\ key' = [key EXCEPT ![k] = row]
             /\ late' = IF row.org /\ ~org THEN late \cup {k} ELSE late
       \/ owner.st = "gone" /\ UNCHANGED <<key, late>>
    /\ Return(q)
    /\ UNCHANGED <<owner, org, member, custom, cache, wrong>>

\* Revoke, APIKeyByID: the owner, or an administrator.
Revoke(q, k) ==
    /\ req[q].pc = "idle" /\ key[k].st \in {"live", "expired", "revoked"}
    /\ req' = [req EXCEPT ![q] = [Idle EXCEPT !.pc = "revoke", !.key = k]]
    /\ UNCHANGED <<tables, cache, late, wrong>>

\* RevokeAPIKey: UPDATE ... WHERE revoked_at IS NULL.
RevokeKey(q) ==
    LET k == req[q].key IN
    /\ req[q].pc = "revoke"
    /\ key' = IF key[k].st \in {"live", "expired"} THEN [key EXCEPT ![k].st = "revoked"] ELSE key
    /\ Return(q)
    /\ UNCHANGED <<owner, org, member, custom, cache, late, wrong>>

-----------------------------------------------------------------------------
(* A request with a key.                                                   *)

\* The request is accepted with the claims.
Accept(claims, torn) == wrong' = (wrong \/ (~torn /\ lost > Bound /\ watch \in claims))

\* resolvePrincipal: an entry of the cache answers.
CacheHit(q, i, k) ==
    LET e == cache[i][k] IN
    /\ req[q].pc = "idle" /\ e.left > 0
    /\ Accept(e.claims, e.torn)
    /\ UNCHANGED <<tables, cache, req, late>>

Begin(q, i, k) ==
    /\ req[q].pc = "idle" /\ cache[i][k].left = 0 /\ key[k].st # "none"
    /\ req' = [req EXCEPT ![q] = [Idle EXCEPT !.pc = "key", !.inst = i, !.key = k]]
    /\ UNCHANGED <<tables, cache, late, wrong>>

\* APIKeyByHash joins the key and its owner; the role is the lower of the two.
ReadKey(q) ==
    LET k == req[q].key IN
    /\ req[q].pc = "key"
    /\ IF Valid(k)
         THEN req' = [req EXCEPT ![q].row = key[k], ![q].pc = IF key[k].org THEN "org" ELSE "touch",
                        ![q].claims = {<<"key", k>>} \cup
                            {<<"role", r>> : r \in 0 .. Smaller(key[k].rank, owner.rank)}]
         ELSE Return(q)
    /\ UNCHANGED <<tables, cache, late, wrong>>

\* KeyCredential, OrganizationByID.
ReadOrganization(q) ==
    /\ req[q].pc = "org"
    /\ IF org THEN req' = [req EXCEPT ![q].pc = "member"] ELSE Return(q)
    /\ UNCHANGED <<tables, cache, late, wrong>>

\* Mutant: the membership is not asked for, and the key keeps its own role.
ReadNoMembership(q) ==
    /\ req[q].pc = "member"
    /\ req' = [req EXCEPT ![q].pc = "live", ![q].claims = @ \cup {Membership},
                          ![q].role = IF member # NoRole THEN member ELSE req[q].row.role]
    /\ UNCHANGED <<tables, cache, late, wrong>>

\* KeyCredential, membershipOf: an active membership.
ReadMembership(q) ==
    /\ req[q].pc = "member"
    /\ IF member # NoRole
         THEN req' = [req EXCEPT ![q].pc = "live", ![q].role = member, ![q].claims = @ \cup {Membership}]
         ELSE Return(q)
    /\ UNCHANGED <<tables, cache, late, wrong>>

\* permissionsOfMembership of the owner.
ReadLive(q) ==
    /\ req[q].pc = "live"
    /\ req' = [req EXCEPT ![q].pc = "granted", ![q].live = PermissionsOf(req[q].role)]
    /\ UNCHANGED <<tables, cache, late, wrong>>

\* What activePermissions makes of the membership that Resolve returns: the
\* declared role of the owner and the intersection.
KeyPermissions(role, live, granted) ==
    (IF role \in DOMAIN BuiltIn THEN BuiltIn[role] ELSE {}) \cup Intersect(granted, live)

\* knownRole of the role of the key.
ReadGranted(q) ==
    LET l == req[q] IN
    /\ l.pc = "granted"
    /\ req' = [req EXCEPT ![q].pc = "touch", ![q].claims = @ \cup
                 {<<"perm", c>> : c \in Reach(KeyPermissions(l.role, l.live, PermissionsOf(l.row.role)))}]
    /\ UNCHANGED <<tables, cache, late, wrong>>

\* touch, TouchAPIKey: one column is written, the time of use, which is left out.
Touch(q) ==
    /\ req[q].pc = "touch"
    /\ req' = [req EXCEPT ![q].pc = "put"]
    /\ UNCHANGED <<tables, cache, late, wrong>>

\* principalCache.put, and the request goes on with the principal.
CachePut(q) ==
    LET l == req[q] IN
    /\ l.pc = "put"
    /\ cache' = [cache EXCEPT ![l.inst][l.key] =
                   IF CacheTTL = 0 THEN NoEntry ELSE [left |-> CacheTTL, claims |-> l.claims, torn |-> l.torn]]
    /\ Accept(l.claims, l.torn)
    /\ Return(q)
    /\ UNCHANGED <<tables, late>>

-----------------------------------------------------------------------------
(* What others do to the owner, the membership and the organization.       *)

SetUser(st, rank) ==
    /\ owner.st # "gone" /\ owner # [st |-> st, rank |-> rank]
    /\ owner' = [st |-> st, rank |-> rank]
    /\ UNCHANGED <<key, org, member, custom, cache, req, late, wrong>>

\* The user is deleted: the foreign key takes the keys with it.
DeleteUser ==
    /\ owner.st # "gone"
    /\ owner' = [owner EXCEPT !.st = "gone"] /\ member' = NoRole
    /\ key' = [k \in Keys |-> IF key[k].st # "none" THEN [key[k] EXCEPT !.st = "gone"] ELSE key[k]]
    /\ UNCHANGED <<org, custom, cache, req, late, wrong>>

\* SetRole, Suspend, Restore, Remove and AcceptInvitation of Organizations.
SetMembership(role) ==
    /\ org /\ owner.st # "gone" /\ role # member /\ (role # NoRole => KnownRole(role))
    /\ member' = role
    /\ UNCHANGED <<owner, key, org, custom, cache, req, late, wrong>>

\* CreateRole and DeleteRole.  A request between the reads of KeyCredential sees
\* the membership from before and the role from after.
SetCustomRole(statements) ==
    /\ org /\ (custom = {}) # (statements = {})
    /\ custom' = statements
    /\ req' = [q \in Requests |-> IF req[q].pc \in {"live", "granted"} THEN [req[q] EXCEPT !.torn = TRUE] ELSE req[q]]
    /\ UNCHANGED <<owner, key, org, member, cache, late, wrong>>

\* Mutant: the keys of the organization stay.
DeleteKeepsKeys ==
    /\ org /\ org' = FALSE /\ member' = NoRole /\ custom' = {}
    /\ UNCHANGED <<owner, key, cache, req, late, wrong>>

\* Delete of Organizations with the hook of registerOrganizationCleanup, in one
\* transaction.
DeleteOrganization ==
    /\ org /\ org' = FALSE /\ member' = NoRole /\ custom' = {}
    /\ key' = [k \in Keys |-> IF key[k].org /\ key[k].st # "none" THEN [key[k] EXCEPT !.st = "gone"] ELSE key[k]]
    /\ UNCHANGED <<owner, cache, req, late, wrong>>

\* The expiry of a key passes.
Expire(k) ==
    /\ key[k].st = "live"
    /\ key' = [key EXCEPT ![k].st = "expired"]
    /\ UNCHANGED <<owner, org, member, custom, cache, req, late, wrong>>

Reading == {q \in Requests : req[q].inst # "none"}

Tick ==
    /\ \A q \in Reading : req[q].age < MaxDelay
    /\ req' = [q \in Requests |-> IF q \in Reading THEN [req[q] EXCEPT !.age = @ + 1] ELSE req[q]]
    /\ cache' = [i \in Instances |-> [k \in Keys |->
                   IF cache[i][k].left <= 1 THEN NoEntry ELSE [cache[i][k] EXCEPT !.left = @ - 1]]]
    /\ lost' = IF lost \in {Never, Bound + 1} THEN lost ELSE lost + 1
    /\ UNCHANGED <<tables, part, watch, late, wrong>>

-----------------------------------------------------------------------------
Step(q) ==
    \/ ReadKey(q) \/ ReadOrganization(q) \/ ReadMembership(q) \/ ReadLive(q) \/ ReadGranted(q)
    \/ Touch(q) \/ CachePut(q) \/ InsertKey(q) \/ RevokeKey(q)

Call(q) ==
    /\ Cardinality({p \in Requests : req[p].pc # "idle"}) < Busy[part]
    /\ \/ part = "plain" /\ \E r \in Ranks : CreateKey(q, r)
       \/ part = "organization" /\ \E role \in OrgRoles \cup {NoRole} : CreateOrgKey(q, role)
       \/ \E k \in Keys : Revoke(q, k)
       \/ \E i \in Instances, k \in Keys : CacheHit(q, i, k) \/ Begin(q, i, k)

Others ==
    \/ /\ part = "plain"
       /\ \/ \E st \in {"enabled", "disabled"}, r \in Ranks : SetUser(st, r)
          \/ \E k \in Keys : Expire(k)
    \/ /\ part = "organization"
       /\ \/ \E role \in OrgRoles \cup {NoRole} : SetMembership(role)
          \/ \E s \in Declarable \cup {{}} : SetCustomRole(s)
          \/ DeleteOrganization
    \/ DeleteUser

Next ==
    \/ /\ Others \/ \E q \in Requests : Call(q) \/ Step(q)
       /\ History
    \/ Tick

Spec == Init /\ [][Next]_vars

-----------------------------------------------------------------------------
(* Properties.                                                             *)

TypeOK ==
    /\ owner \in [st : {"enabled", "disabled", "gone"}, rank : Ranks]
    /\ key \in [Keys -> KeyRow] /\ org \in BOOLEAN /\ member \in OrgRoles \cup {NoRole}
    /\ custom \subseteq Statements /\ cache \in [Instances -> [Keys -> Entry]]
    /\ req \in [Requests -> Local] /\ watch \in Claims /\ lost \in Never .. Bound + 1
    /\ late \subseteq Keys /\ wrong \in BOOLEAN

\* SI-03 and ORG SI-08: no request is accepted with a key, a role, a membership or
\* a permission that the rows stopped supporting more than the consistency bound
\* before: a demoted owner, a lost membership, a revoked or expired key, although
\* they are read one after the other and kept in the caches.  Requests that saw
\* the custom role change between the reads are the exception.
AuthorityEndsInBound == ~wrong

\* ORG SI-10: a deleted organization leaves no key behind, but for those that
\* were authorized before and inserted after it, and those authenticate nothing.
KeysGoWithOrganization ==
    /\ TypeOK
    /\ \A k \in Keys : key[k].org /\ key[k].st # "gone" /\ ~org => k \in late
=============================================================================
