--------------------------- MODULE Organizations ---------------------------
(***************************************************************************)
(* plugins/organizations: memberships and the owner guard, invitations,    *)
(* custom roles, teams, the active organization of a session, the paged    *)
(* list, and the deletion of organizations and accounts.                   *)
(*                                                                         *)
(* Every operation authorizes its actor first, outside the transaction     *)
(* that writes, so between the two anything may happen.  Inside, a plain   *)
(* SELECT holds nothing (READ COMMITTED of Postgres), SELECT ... FOR UPDATE *)
(* holds its rows until the commit.  A request that is refused before it   *)
(* writes leaves no trace and is no step of the model.                     *)
(***************************************************************************)
EXTENDS Integers, FiniteSets, FiniteSetsExt, Permissions

CONSTANTS
    Users,          \* the identifiers of the users, in their order: \subseteq Nat
    Orgs, Invites, Teams, Requests,
    BuiltIn,        \* Roles(...): the statements of each declared role
    Owner,          \* OwnerRole
    Mixes,          \* the operations that happen together in a behaviour
    Signed,         \* the users with a session that may switch the organization
    Actors,         \* who acts: users, and NoUser for the host (actor == nil)
    MaxMembers,     \* MaxMembers, 0 is no limit
    PageSize,       \* rows of a page of ListMembers
    Grantable,      \* the roles that calls name
    Declarable,     \* the sets of statements a custom role may be created with
    Seats           \* the memberships there may be in one organization at the start

NoUser == 0
Custom == "custom"

AllOps == {"setrole", "suspend", "restore", "remove", "invite", "accept", "revokeinv",
           "create", "delete", "createrole", "deleterole", "team", "deleteteam", "join",
           "leave", "activate", "list", "account"}

ASSUME OrganizationsAssumption ==
    /\ Users \subseteq Nat \ {NoUser} /\ Actors \subseteq Users \cup {NoUser} /\ Signed \subseteq Users
    /\ Owner \in DOMAIN BuiltIn /\ DOMAIN BuiltIn \cap {Custom, "none"} = {}
    /\ \A r \in DOMAIN BuiltIn : BuiltIn[r] \subseteq Statements
    /\ Grantable \subseteq DOMAIN BuiltIn \cup {Custom}
    /\ Declarable \subseteq (SUBSET Statements) \ {{}}
    /\ Mixes \subseteq SUBSET AllOps
    /\ MaxMembers \in Nat /\ PageSize \in Nat \ {0}
    /\ "none" \notin Orgs \cup Invites \cup Teams
    /\ \A seats \in Seats :      \* an organization that is there has an active owner
          /\ DOMAIN seats \subseteq Users
          /\ \A u \in DOMAIN seats : seats[u] \in [role : DOMAIN BuiltIn, status : {"active", "suspended"}]
          /\ DOMAIN seats # {} =>
                \E u \in DOMAIN seats : seats[u] = [role |-> Owner, status |-> "active"]

VARIABLES
    mix,        \* the member of Mixes, fixed
    org,        \* org[o]: unborn, live or gone
    member,     \* member[o][u]: the row of org_members
    inv,        \* inv[i]: the row of org_invitations
    custom,     \* custom[o]: the statements of the custom role, {} is no row
    team,       \* team[t]: the row of org_teams and its org_team_members
    active,     \* active[u]: sessions.active_org_id of u's session
    req,        \* req[q]: the local state of a request
    unguarded,  \* history: organizations that lost an owner past the guard
    founder,    \* history: who created the organization
    wielded,    \* history: what its actors held and gave, as concrete checks
    joined,     \* history: the memberships that came from an invitation
    late,       \* history: users whose session was switched after they had left
    missed      \* history: a list skipped a member that was there throughout

vars == <<mix, org, member, inv, custom, team, active, req,
          unguarded, founder, wielded, joined, late, missed>>
rows == <<org, member, inv, custom, team, active>>
history == <<unguarded, founder, wielded, joined, late, missed>>

-----------------------------------------------------------------------------
RoleNames == DOMAIN BuiltIn \cup {Custom}
MemberRow == [role : RoleNames \cup {"none"}, status : {"none", "active", "suspended"}]
NoRow == [role |-> "none", status |-> "none"]
InvRow == [st : {"unborn", "pending", "accepted", "revoked", "expired", "gone"},
           org : Orgs \cup {"none"}, user : Users \cup {NoUser}, role : RoleNames \cup {"none"}]
TeamRow == [st : {"unborn", "live", "gone"}, org : Orgs \cup {"none"},
            role : RoleNames \cup {"none"}, users : SUBSET Users]

\* granted: the statements of the role that is granted, as they were read.
\* row: the membership that was read.
\* there, seen: the members that were there since the list began, and the listed.
\* held, remade (history): the checks that the actor of a grant held when its
\* membership was read; the custom role it read was deleted and created again.
Local == [op : AllOps \cup {"none"},
          pc : {"idle", "auth", "permit", "member", "read", "guard", "count", "write", "page"},
          held : SUBSET Concrete, remade : BOOLEAN,
          actor : Users \cup {NoUser}, org : Orgs \cup {"none"}, user : Users \cup {NoUser},
          role : RoleNames \cup {"none"}, id : Invites \cup Teams \cup {"none"},
          granted : SUBSET Statements, row : MemberRow,
          locks : SUBSET Users, there : SUBSET Users, seen : SUBSET Users]

Idle == [op |-> "none", pc |-> "idle", actor |-> NoUser, org |-> "none", user |-> NoUser,
         role |-> "none", id |-> "none", granted |-> {}, row |-> NoRow,
         held |-> {}, remade |-> FALSE, locks |-> {}, there |-> {}, seen |-> {}]

Call(op, pc, o) == [Idle EXCEPT !.op = op, !.pc = pc, !.org = o]

Free(q, op) == op \in mix /\ req[q].pc = "idle"
At(q, op, pc) == req[q].op = op /\ req[q].pc = pc
Return(q) == req' = [req EXCEPT ![q] = Idle]

Members(o) == {u \in Users : member[o][u] # NoRow}
ActiveOwners(o) == {u \in Users : member[o][u] = [role |-> Owner, status |-> "active"]}
InvitationsOf(o) == {i \in Invites : inv[i].org = o}

\* knownRole: a declared role wins, then the custom role of the organization.
PermissionsOf(o, role) ==
    IF role \in DOMAIN BuiltIn THEN BuiltIn[role]
    ELSE IF role = Custom THEN custom[o] ELSE {}

KnownRole(o, role) == role \in DOMAIN BuiltIn \/ (role = Custom /\ custom[o] # {})

\* permissionsOfMembership, as authorize uses it: MembershipOf reads no teams.
Held(o, u) ==
    IF member[o][u].status = "active" THEN PermissionsOf(o, member[o][u].role) ELSE {}

\* The host (actor == nil) is not asked.
HeldBy(o, actor) == IF actor = NoUser THEN {All} ELSE Held(o, actor)

\* The role of the member and of its teams, as SessionWithUserAndMembership
\* joins them.
TeamsOf(o, u) == {t \in Teams : team[t].st = "live" /\ team[t].org = o /\ u \in team[t].users}
JoinedRoles(o, u) == {member[o][u].role} \cup {team[t].role : t \in TeamsOf(o, u)}

\* activePermissions.
Effective(o, u) ==
    IF member[o][u].status # "active" THEN {}
    ELSE UNION {PermissionsOf(o, role) : role \in JoinedRoles(o, u)}

-----------------------------------------------------------------------------
\* One organization may be there already; the others are created.
Init ==
    LET first == CHOOSE o \in Orgs : TRUE IN
    \E seats \in Seats :
        /\ mix \in Mixes
        /\ org = [o \in Orgs |-> IF o = first /\ DOMAIN seats # {} THEN "live" ELSE "unborn"]
        /\ member = [o \in Orgs |-> [u \in Users |->
                       IF o = first /\ u \in DOMAIN seats THEN seats[u] ELSE NoRow]]
        /\ inv = [i \in Invites |-> [st |-> "unborn", org |-> "none", user |-> NoUser, role |-> "none"]]
        /\ custom = [o \in Orgs |-> {}]
        /\ team = [t \in Teams |-> [st |-> "unborn", org |-> "none", role |-> "none", users |-> {}]]
        /\ active = [u \in Users |-> "none"]
        /\ req = [q \in Requests |-> Idle]
        /\ unguarded = {} /\ late = {} /\ missed = FALSE
        /\ founder = [o \in Orgs |-> IF o = first THEN {u \in DOMAIN seats : seats[u].role = Owner} ELSE {}]
        /\ wielded = [o \in Orgs |-> IF o # first THEN {}
                       ELSE UNION {Reach(BuiltIn[seats[u].role]) :
                                     u \in {u \in DOMAIN seats : seats[u].role # Owner}}]
        /\ joined = [i \in Invites |-> 0]

-----------------------------------------------------------------------------
(* authorize (permissions.go), as every operation asks it.                 *)

\* The operations that give statements, which the actor has to hold.
GivingOps == {"setrole", "invite", "team", "createrole"}

Need(op) ==
    CASE op \in {"setrole", "suspend", "restore", "remove"}   -> Stmt("member", "write")
      [] op \in {"invite", "revokeinv"}                       -> Stmt("member", "invite")
      [] op \in {"team", "deleteteam", "join", "leave"}       -> Stmt("team", "write")
      [] op \in {"createrole", "deleterole"}                  -> Stmt("role", "write")
      [] op = "delete"                                        -> Stmt("organization", "delete")
      [] op = "list"                                          -> Stmt("member", "read")

\* The statement after the authorization.
AfterAuth(op) ==
    CASE op \in {"setrole", "suspend", "restore", "remove"} -> "read"
      [] op = "invite" -> "count"
      [] op = "list"   -> "page"
      [] op \in {"team", "deleteteam", "join", "leave", "createrole", "deleterole", "revokeinv", "delete"} -> "write"

\* What the operation reads next: AddTeamMember the membership, RevokeInvitation
\* the invitation of the organization.
Found(l) ==
    /\ l.op = "join" => member[l.org][l.user] # NoRow
    /\ l.op = "revokeinv" => inv[l.id].org = l.org

\* Mutant: what is given is not compared.
AllowedOnly(set, l) == Covers(set, Need(l.op))

\* set.Allows of authorize, and held.CoversSet(granted) of SetRole, Invite,
\* CreateTeam and CreateRole.
Allowed(set, l) == Covers(set, Need(l.op)) /\ CoversSet(set, l.granted)

Passed(l) ==
    [l EXCEPT !.pc = AfterAuth(l.op), !.actor = NoUser,
              !.granted = IF l.op = "createrole" THEN @ ELSE {},
              !.held = IF l.op \in GivingOps THEN @ ELSE {},
              !.there = IF l.op = "list" THEN Members(l.org) ELSE {}]

\* What an authorized actor gives, it wields as far as it held it.
Decide(q, l, set) ==
    IF Allowed(set, l) /\ Found(l)
      THEN /\ req' = [req EXCEPT ![q] = Passed(l)]
           /\ wielded' = [wielded EXCEPT ![l.org] = @ \cup (Reach(l.granted) \cap l.held)]
      ELSE Return(q) /\ UNCHANGED wielded

\* authorize, first statement: the membership of the actor.  A declared role
\* decides, a custom one is read next.
Ask(q, l) ==
    LET asked == [l EXCEPT !.held = Reach(HeldBy(l.org, l.actor))] IN
    /\ IF l.actor # NoUser /\ member[l.org][l.actor] = [role |-> Custom, status |-> "active"]
         THEN req' = [req EXCEPT ![q] = [asked EXCEPT !.pc = "permit"]] /\ UNCHANGED wielded
         ELSE Decide(q, asked, HeldBy(l.org, l.actor))
    /\ UNCHANGED <<rows, unguarded, founder, joined, late, missed>>

\* authorize, second statement: CustomRoleByName of knownRole.
Permit(q) ==
    /\ req[q].pc = "permit" /\ Decide(q, req[q], custom[req[q].org])
    /\ UNCHANGED <<rows, unguarded, founder, joined, late, missed>>

\* A call that grants a role: knownRole reads a custom role before authorize.
Grant(q, l) ==
    LET known == [l EXCEPT !.granted = PermissionsOf(l.org, l.role)] IN
    IF l.role = Custom
      THEN /\ req' = [req EXCEPT ![q] = known]
           /\ UNCHANGED <<rows, history>>
      ELSE Ask(q, known)

Authorize(q) == req[q].pc = "auth" /\ Ask(q, req[q])

-----------------------------------------------------------------------------
(* SetRole, Suspend, Restore and Remove (members.go).                      *)

SetRole(q, actor, o, u, role) ==
    /\ Free(q, "setrole") /\ KnownRole(o, role)
    /\ Grant(q, [Call("setrole", "auth", o) EXCEPT !.actor = actor, !.user = u, !.role = role])

\* SetStatus (Suspend, Restore) and Remove.  A member removes itself without
\* being asked.
SetStatus(q, op, actor, o, u) ==
    /\ op \in {"suspend", "restore", "remove"} /\ Free(q, op)
    /\ Ask(q, [Call(op, "auth", o) EXCEPT !.user = u,
                  !.actor = IF op = "remove" /\ actor = u THEN NoUser ELSE actor])

\* The row that the operation writes.
Target(l) ==
    CASE l.op = "setrole" -> [l.row EXCEPT !.role = l.role]
      [] l.op = "suspend" -> [l.row EXCEPT !.status = "suspended"]
      [] l.op = "restore" -> [l.row EXCEPT !.status = "active"]
      [] l.op = "remove"  -> NoRow

OwnerRow == [role |-> Owner, status |-> "active"]

\* The transaction begins: OrganizationByID and MembershipOf.  A change that
\* changes nothing returns; the guard is for a row that was read as an owner.
MembershipOf(q) ==
    LET l == req[q]
        row == member[l.org][l.user]
        read == [l EXCEPT !.row = row]
    IN
    /\ l.pc = "read"
    /\ IF org[l.org] # "live" \/ row = NoRow \/ Target(read) = row THEN Return(q)
       ELSE req' = [req EXCEPT ![q] = [read EXCEPT !.pc =
                      IF row = OwnerRow /\ Target(read) # OwnerRow THEN "guard" ELSE "write"]]
    /\ UNCHANGED <<rows, history>>

LockedByOther(q, o, u) == \E p \in Requests \ {q} : req[p].org = o /\ u \in req[p].locks

\* Mutant: the member itself counts as the remaining owner.
GuardCountsAll(q) ==
    LET l == req[q] IN
    /\ l.pc = "guard"
    /\ \A u \in ActiveOwners(l.org) : ~LockedByOther(q, l.org, u)
    /\ IF ActiveOwners(l.org) = {} THEN Return(q)
       ELSE req' = [req EXCEPT ![q].pc = "write", ![q].locks = ActiveOwners(l.org)]
    /\ UNCHANGED <<rows, history>>

\* guardOwner: the lock waits for the rows, then the others are counted.
GuardOwner(q) ==
    LET l == req[q] IN
    /\ l.pc = "guard"
    /\ \A u \in ActiveOwners(l.org) : ~LockedByOther(q, l.org, u)
    /\ IF ActiveOwners(l.org) \ {l.user} = {} THEN Return(q)
       ELSE req' = [req EXCEPT ![q].pc = "write", ![q].locks = ActiveOwners(l.org)]
    /\ UNCHANGED <<rows, history>>

\* An owner row changes although the guard was not asked.
PastGuard(o, u, l, next) ==
    member[o][u] = OwnerRow /\ next # OwnerRow /\ l.locks = {}

\* UpdateMembership writes the role and the status of the row that was read,
\* where a row still is; then the commit.
UpdateMembership(q) ==
    LET l == req[q]
        there == member[l.org][l.user] # NoRow
    IN
    /\ l.op \in {"setrole", "suspend", "restore"} /\ l.pc = "write"
    /\ ~LockedByOther(q, l.org, l.user)
    /\ member' = IF there THEN [member EXCEPT ![l.org][l.user] = Target(l)] ELSE member
    /\ unguarded' = IF PastGuard(l.org, l.user, l, Target(l)) THEN unguarded \cup {l.org} ELSE unguarded
    /\ Return(q)
    /\ UNCHANGED <<org, inv, custom, team, active, founder, wielded, joined, late, missed>>

\* The members U of o are gone: no list has to return them.
Unlisted(r, o, U) ==
    [q \in Requests |-> IF r[q].org = o THEN [r[q] EXCEPT !.there = @ \ U] ELSE r[q]]

\* Mutant: the sessions keep the organization.
DeleteKeepsActive(q) ==
    LET l == req[q] IN
    /\ At(q, "remove", "write") /\ ~LockedByOther(q, l.org, l.user)
    /\ member' = [member EXCEPT ![l.org][l.user] = NoRow]
    /\ unguarded' = IF PastGuard(l.org, l.user, l, NoRow) THEN unguarded \cup {l.org} ELSE unguarded
    /\ req' = Unlisted([req EXCEPT ![q] = Idle], l.org, {l.user})
    /\ UNCHANGED <<org, inv, custom, team, active, founder, wielded, joined, late, missed>>

\* DeleteMembership and ClearActiveOrganization, and the commit.
DeleteMembership(q) ==
    LET l == req[q] IN
    /\ At(q, "remove", "write") /\ ~LockedByOther(q, l.org, l.user)
    /\ IF member[l.org][l.user] = NoRow THEN UNCHANGED <<member, active>>
       ELSE /\ member' = [member EXCEPT ![l.org][l.user] = NoRow]
            /\ active' = [active EXCEPT ![l.user] = IF @ = l.org THEN "none" ELSE @]
    /\ unguarded' = IF PastGuard(l.org, l.user, l, NoRow) THEN unguarded \cup {l.org} ELSE unguarded
    /\ req' = Unlisted([req EXCEPT ![q] = Idle], l.org, {l.user})
    /\ UNCHANGED <<org, inv, custom, team, founder, wielded, joined, late, missed>>

-----------------------------------------------------------------------------
(* Invitations (invitations.go).                                           *)

Invite(q, actor, o, u, role) ==
    /\ Free(q, "invite") /\ KnownRole(o, role)
    /\ Grant(q, [Call("invite", "auth", o) EXCEPT !.actor = actor, !.user = u, !.role = role])

\* guardMemberLimit counts the active members and the pending invitations.
GuardMemberLimit(q) ==
    LET l == req[q]
        actives == {u \in Users : member[l.org][u].status = "active"}
        pending == {i \in InvitationsOf(l.org) : inv[i].st = "pending"}
    IN
    /\ At(q, "invite", "count")
    /\ IF /\ org[l.org] = "live" /\ member[l.org][l.user] = NoRow
          /\ MaxMembers = 0 \/ Cardinality(actives) + Cardinality(pending) < MaxMembers
         THEN req' = [req EXCEPT ![q].pc = "write"]
         ELSE Return(q)
    /\ UNCHANGED <<rows, history>>

\* CreateInvitation: the foreign key refuses a deleted organization.
CreateInvitation(q) ==
    LET l == req[q] IN
    /\ At(q, "invite", "write")
    /\ \/ /\ org[l.org] = "live"
          /\ \E i \in Invites :
                /\ inv[i].st = "unborn"
                /\ inv' = [inv EXCEPT ![i] = [st |-> "pending", org |-> l.org,
                                              user |-> l.user, role |-> l.role]]
       \/ org[l.org] # "live" /\ UNCHANGED inv
    /\ Return(q)
    /\ UNCHANGED <<org, member, custom, team, active, history>>

ExpireInvitation(i) ==
    /\ "accept" \in mix /\ inv[i].st = "pending"
    /\ inv' = [inv EXCEPT ![i].st = "expired"]
    /\ UNCHANGED <<org, member, custom, team, active, req, history>>

\* AcceptInvitation: InvitationByTokenHash, and the address is the user's.
AcceptInvitation(q, i) ==
    /\ Free(q, "accept") /\ inv[i].st \notin {"unborn", "gone"}
    /\ req' = [req EXCEPT ![q] = [Call("accept", "write", inv[i].org) EXCEPT
                                    !.user = inv[i].user, !.id = i]]
    /\ UNCHANGED <<rows, history>>

\* Mutant: the UPDATE does not ask for a pending invitation.
ConsumeAny(q) ==
    LET l == req[q]
        i == l.id
    IN
    /\ At(q, "accept", "write")
    /\ IF inv[i].st # "gone" /\ member[l.org][l.user] = NoRow
         THEN /\ inv' = [inv EXCEPT ![i].st = "accepted"]
              /\ member' = [member EXCEPT ![l.org][l.user] =
                              [role |-> inv[i].role, status |-> "active"]]
              /\ joined' = [joined EXCEPT ![i] = @ + 1]
         ELSE UNCHANGED <<inv, member, joined>>
    /\ Return(q)
    /\ UNCHANGED <<org, custom, team, active, unguarded, founder, wielded, late, missed>>

\* ConsumeInvitation matches a pending row once; CreateMembership conflicts with
\* a membership that came another way, and all of it rolls back.
ConsumeInvitation(q) ==
    LET l == req[q]
        i == l.id
    IN
    /\ At(q, "accept", "write")
    /\ IF inv[i].st = "pending" /\ member[l.org][l.user] = NoRow
         THEN /\ inv' = [inv EXCEPT ![i].st = "accepted"]
              /\ member' = [member EXCEPT ![l.org][l.user] =
                              [role |-> inv[i].role, status |-> "active"]]
              /\ joined' = [joined EXCEPT ![i] = @ + 1]
         ELSE UNCHANGED <<inv, member, joined>>
    /\ Return(q)
    /\ UNCHANGED <<org, custom, team, active, unguarded, founder, wielded, late, missed>>

RevokeInvitation(q, actor, o, i) ==
    /\ Free(q, "revokeinv")
    /\ Ask(q, [Call("revokeinv", "auth", o) EXCEPT !.actor = actor, !.id = i])

SetInvitationStatus(q) ==
    LET i == req[q].id IN
    /\ At(q, "revokeinv", "write")
    /\ inv' = IF inv[i].st = "pending" THEN [inv EXCEPT ![i].st = "revoked"] ELSE inv
    /\ Return(q)
    /\ UNCHANGED <<org, member, custom, team, active, history>>

-----------------------------------------------------------------------------
(* Organizations and accounts (operations.go, personal.go).                *)

\* Create: the row and the membership of the owner, in one transaction.
CreateOrganization(u, o) ==
    /\ "create" \in mix /\ org[o] = "unborn"
    /\ org' = [org EXCEPT ![o] = "live"]
    /\ member' = [member EXCEPT ![o][u] = OwnerRow]
    /\ founder' = [founder EXCEPT ![o] = {u}]
    /\ UNCHANGED <<inv, custom, team, active, req, unguarded, wielded, joined, late, missed>>

\* handleDelete: authorize.  AdminDelete (actor NoUser) does not ask.
Delete(q, actor, o) ==
    /\ Free(q, "delete") /\ Ask(q, [Call("delete", "auth", o) EXCEPT !.actor = actor])

\* Mutant: the invitations stay where no foreign key removes them.
DeleteKeepsInvitations(q) ==
    LET o == req[q].org IN
    /\ At(q, "delete", "write")
    /\ org' = [org EXCEPT ![o] = IF @ = "live" THEN "gone" ELSE @]
    /\ member' = [member EXCEPT ![o] = [u \in Users |-> NoRow]]
    /\ custom' = [custom EXCEPT ![o] = {}]
    /\ team' = [t \in Teams |-> IF team[t].org = o
                  THEN [st |-> "gone", org |-> "none", role |-> "none", users |-> {}] ELSE team[t]]
    /\ req' = Unlisted([req EXCEPT ![q] = Idle], o, Users)
    /\ UNCHANGED <<inv, active, history>>

\* DeleteOrganization: team members, teams, invitations, roles, members and the
\* row, in one transaction.  sessions.active_org_id stays.
DeleteOrganization(q) ==
    LET o == req[q].org IN
    /\ At(q, "delete", "write")
    /\ org' = [org EXCEPT ![o] = IF @ = "live" THEN "gone" ELSE @]
    /\ member' = [member EXCEPT ![o] = [u \in Users |-> NoRow]]
    /\ inv' = [i \in Invites |-> IF inv[i].org = o
                 THEN [st |-> "gone", org |-> "none", user |-> NoUser, role |-> "none"] ELSE inv[i]]
    /\ custom' = [custom EXCEPT ![o] = {}]
    /\ team' = [t \in Teams |-> IF team[t].org = o
                  THEN [st |-> "gone", org |-> "none", role |-> "none", users |-> {}] ELSE team[t]]
    /\ req' = Unlisted([req EXCEPT ![q] = Idle], o, Users)
    /\ UNCHANGED <<active, history>>

\* A user deletes its account: the foreign keys remove its memberships, team
\* rows and sessions, and no guard of this plugin is asked.
DeleteAccount(u) ==
    LET left == {o \in Orgs : member[o][u] = OwnerRow}
        forget(r) == [q \in Requests |-> [r[q] EXCEPT !.there = @ \ {u}]]
    IN
    /\ "account" \in mix
    /\ \A q \in Requests : u \notin req[q].locks
    /\ \E o \in Orgs : member[o][u] # NoRow
    /\ member' = [o \in Orgs |-> [member[o] EXCEPT ![u] = NoRow]]
    /\ team' = [t \in Teams |-> [team[t] EXCEPT !.users = @ \ {u}]]
    /\ active' = [active EXCEPT ![u] = "none"]
    /\ unguarded' = unguarded \cup left
    /\ req' = forget(req)
    /\ UNCHANGED <<org, inv, custom, founder, wielded, joined, late, missed>>

-----------------------------------------------------------------------------
(* Custom roles and teams (customroles.go, teams.go): no transactions.     *)

CreateRole(q, actor, o, statements) ==
    /\ Free(q, "createrole") /\ statements # {}
    /\ Ask(q, [Call("createrole", "auth", o) EXCEPT !.actor = actor, !.granted = statements])

\* The requests that read the custom role of o before it was made anew.
Stale(r, o) ==
    [p \in Requests |-> IF r[p].org = o /\ r[p].op \in GivingOps /\ (r[p].role = Custom \/ r[p].pc = "permit")
                        THEN [r[p] EXCEPT !.remade = TRUE] ELSE r[p]]

\* CreateCustomRole: OrganizationByID and an INSERT; the name is unique.
CreateCustomRole(q) ==
    LET l == req[q]
        fits == org[l.org] = "live" /\ custom[l.org] = {}
    IN
    /\ At(q, "createrole", "write")
    /\ custom' = IF fits THEN [custom EXCEPT ![l.org] = l.granted] ELSE custom
    /\ req' = IF fits THEN Stale([req EXCEPT ![q] = Idle], l.org) ELSE [req EXCEPT ![q] = Idle]
    /\ UNCHANGED <<org, member, inv, team, active, history>>

\* DeleteRole does not ask who has the role.
DeleteRole(q, actor, o) ==
    /\ Free(q, "deleterole") /\ Ask(q, [Call("deleterole", "auth", o) EXCEPT !.actor = actor])

DeleteCustomRole(q) ==
    /\ At(q, "deleterole", "write")
    /\ custom' = [custom EXCEPT ![req[q].org] = {}]
    /\ Return(q)
    /\ UNCHANGED <<org, member, inv, team, active, history>>

\* CreateTeam with a role; without one, no role is granted.
CreateTeam(q, actor, o, role) ==
    /\ Free(q, "team") /\ (role = "none" \/ KnownRole(o, role))
    /\ Grant(q, [Call("team", "auth", o) EXCEPT !.actor = actor, !.role = role])

\* Mutant: no foreign key asks for the organization.
InsertTeamUnowned(q) ==
    LET l == req[q] IN
    /\ At(q, "team", "write")
    /\ \E t \in Teams :
          /\ team[t].st = "unborn"
          /\ team' = [team EXCEPT ![t] = [st |-> "live", org |-> l.org, role |-> l.role, users |-> {}]]
    /\ Return(q)
    /\ UNCHANGED <<org, member, inv, custom, active, history>>

\* CreateTeam: OrganizationByID and an INSERT with a foreign key.
InsertTeam(q) ==
    LET l == req[q] IN
    /\ At(q, "team", "write")
    /\ \/ /\ org[l.org] = "live"
          /\ \E t \in Teams :
                /\ team[t].st = "unborn"
                /\ team' = [team EXCEPT ![t] = [st |-> "live", org |-> l.org, role |-> l.role, users |-> {}]]
       \/ org[l.org] # "live" /\ UNCHANGED team
    /\ Return(q)
    /\ UNCHANGED <<org, member, inv, custom, active, history>>

\* DeleteTeam, AddTeamMember and RemoveTeamMember: teamOf, authorize and, to
\* add, membershipOf.  The permissions of the team role are not compared.
TeamCall(q, op, actor, t, u) ==
    /\ op \in {"deleteteam", "join", "leave"} /\ Free(q, op) /\ team[t].st = "live"
    /\ Ask(q, [Call(op, "auth", team[t].org) EXCEPT !.actor = actor, !.user = u, !.id = t])

DeleteTeam(q) ==
    LET t == req[q].id IN
    /\ At(q, "deleteteam", "write")
    /\ team' = [team EXCEPT ![t] = [st |-> "gone", org |-> "none", role |-> "none", users |-> {}]]
    /\ Return(q)
    /\ UNCHANGED <<org, member, inv, custom, active, history>>

\* The rows of the team; the foreign key asks for the team, not for a membership.
ChangeTeamMembers(q) ==
    LET l == req[q]
        t == l.id
    IN
    /\ l.op \in {"join", "leave"} /\ l.pc = "write"
    /\ team' = IF team[t].st # "live" THEN team
               ELSE [team EXCEPT ![t].users = IF l.op = "join" THEN @ \cup {l.user} ELSE @ \ {l.user}]
    /\ Return(q)
    /\ UNCHANGED <<org, member, inv, custom, active, history>>

-----------------------------------------------------------------------------
(* The active organization (active.go) and the list (members.go).          *)

\* setActiveSession: OrganizationByID, the membership, then the UPDATE.
SetActiveSession(q, u, o) ==
    /\ Free(q, "activate") /\ org[o] = "live"
    /\ req' = [req EXCEPT ![q] = [Call("activate", "member", o) EXCEPT !.user = u]]
    /\ UNCHANGED <<rows, history>>

ActiveMembership(q) ==
    LET l == req[q] IN
    /\ At(q, "activate", "member")
    /\ IF member[l.org][l.user].status = "active" THEN req' = [req EXCEPT ![q].pc = "write"] ELSE Return(q)
    /\ UNCHANGED <<rows, history>>

SetActiveOrganization(q) ==
    /\ At(q, "activate", "write")
    /\ active' = [active EXCEPT ![req[q].user] = req[q].org]
    /\ late' = IF member[req[q].org][req[q].user] = NoRow THEN late \cup {req[q].user} ELSE late
    /\ Return(q)
    /\ UNCHANGED <<org, member, inv, custom, team, unguarded, founder, wielded, joined, missed>>

ClearActive(u) ==
    /\ "activate" \in mix /\ active[u] # "none"
    /\ active' = [active EXCEPT ![u] = "none"]
    /\ UNCHANGED <<org, member, inv, custom, team, req, history>>

\* A client reads the member list page by page; user is the cursor.
ListMembers(q, actor, o) ==
    /\ Free(q, "list") /\ Ask(q, [Call("list", "auth", o) EXCEPT !.actor = actor])

\* The rows behind the cursor in the order of the identifier, LIMIT PageSize + 1.
After(o, cursor) == {u \in Members(o) : u > cursor}
FirstOf(S, n) == {u \in S : Cardinality({v \in S : v <= u}) <= n}

\* Mutant: the cursor is the row that the page left out.
PageSkips(q) ==
    LET l == req[q]
        behind == After(l.org, l.user)
        page == FirstOf(behind, PageSize)
    IN
    /\ At(q, "list", "page")
    /\ IF page = behind
         THEN Return(q) /\ missed' = (missed \/ ~(l.there \subseteq l.seen \cup page))
         ELSE /\ req' = [req EXCEPT ![q].seen = @ \cup page, ![q].user = Max(FirstOf(behind, PageSize + 1))]
              /\ missed' = missed
    /\ UNCHANGED <<rows, unguarded, founder, wielded, joined, late>>

\* One page: the cursor of the next is the last row of this one.
ListPage(q) ==
    LET l == req[q]
        behind == After(l.org, l.user)
        page == FirstOf(behind, PageSize)
    IN
    /\ At(q, "list", "page")
    /\ IF page = behind
         THEN Return(q) /\ missed' = (missed \/ ~(l.there \subseteq l.seen \cup page))
         ELSE /\ req' = [req EXCEPT ![q].seen = @ \cup page, ![q].user = Max(page)]
              /\ missed' = missed
    /\ UNCHANGED <<rows, unguarded, founder, wielded, joined, late>>

-----------------------------------------------------------------------------
(* The handlers: the actor is the principal of the request, or nil for the  *)
(* host, and the inputs are those of the request.                           *)

MemberCalls(q, actor, o) ==
    \/ \E u \in Users, role \in Grantable : SetRole(q, actor, o, u, role)
    \/ \E u \in Users, op \in {"suspend", "restore", "remove"} : SetStatus(q, op, actor, o, u)
    \/ ListMembers(q, actor, o)

InvitationCalls(q, actor, o) ==
    \/ \E u \in Users, role \in Grantable : Invite(q, actor, o, u, role)
    \/ \E i \in Invites : RevokeInvitation(q, actor, o, i) \/ AcceptInvitation(q, i)

RoleCalls(q, actor, o) == DeleteRole(q, actor, o) \/ \E s \in Declarable : CreateRole(q, actor, o, s)

TeamCalls(q, actor, o) ==
    \/ \E role \in Grantable \cup {"none"} : CreateTeam(q, actor, o, role)
    \/ \E op \in {"deleteteam", "join", "leave"}, t \in Teams, u \in Users : TeamCall(q, op, actor, t, u)

Start(q) ==
    \E actor \in Actors, o \in Orgs :
        \/ MemberCalls(q, actor, o) \/ InvitationCalls(q, actor, o)
        \/ RoleCalls(q, actor, o) \/ TeamCalls(q, actor, o)
        \/ Delete(q, actor, o)

Step ==
    \/ \E q \in Requests :
          \/ Start(q)
          \/ \E u \in Signed, o \in Orgs : SetActiveSession(q, u, o)
          \/ Authorize(q) \/ Permit(q) \/ ActiveMembership(q) \/ MembershipOf(q) \/ GuardOwner(q) \/ UpdateMembership(q)
          \/ DeleteMembership(q) \/ GuardMemberLimit(q) \/ CreateInvitation(q)
          \/ ConsumeInvitation(q) \/ SetInvitationStatus(q) \/ DeleteOrganization(q)
          \/ CreateCustomRole(q) \/ DeleteCustomRole(q) \/ InsertTeam(q) \/ DeleteTeam(q)
          \/ ChangeTeamMembers(q) \/ SetActiveOrganization(q) \/ ListPage(q)
    \/ \E i \in Invites : ExpireInvitation(i)
    \/ \E u \in Users : DeleteAccount(u) \/ ClearActive(u) \/ \E o \in Orgs : CreateOrganization(u, o)

Next == Step /\ UNCHANGED mix

Spec == Init /\ [][Next]_vars

-----------------------------------------------------------------------------
(* Properties.                                                             *)

TypeOK ==
    /\ mix \in Mixes /\ org \in [Orgs -> {"unborn", "live", "gone"}]
    /\ member \in [Orgs -> [Users -> MemberRow]]
    /\ inv \in [Invites -> InvRow]
    /\ custom \in [Orgs -> SUBSET Statements]
    /\ team \in [Teams -> TeamRow]
    /\ active \in [Users -> Orgs \cup {"none"}]
    /\ req \in [Requests -> Local]
    /\ unguarded \subseteq Orgs /\ founder \in [Orgs -> SUBSET Users]
    /\ wielded \in [Orgs -> SUBSET Concrete]
    /\ joined \in [Invites -> Nat] /\ late \subseteq Users /\ missed \in BOOLEAN

\* ORG SI-03: a live organization has an active owner, whatever demotions,
\* suspensions and removals run in parallel.  The guard is asked according to a
\* row that was read without a lock, and a deleted account does not ask it; the
\* organizations that lost an owner that way are the exception.
OwnerRemains ==
    \A o \in Orgs : org[o] = "live" /\ o \notin unguarded => ActiveOwners(o) # {}

\* An invitation makes at most one member, however many requests accept it, and
\* none once its revocation has been answered.
SpentOnce ==
    \A i \in Invites : joined[i] <= 1 /\ (inv[i].st \in {"revoked", "expired"} => joined[i] = 0)

\* A deleted organization leaves no row behind, although invitations, roles and
\* teams that were authorized before the deletion are inserted after it.
NoOrphans ==
    /\ TypeOK
    /\ \A o \in Orgs : org[o] = "gone" =>
        /\ Members(o) = {} /\ InvitationsOf(o) = {} /\ custom[o] = {}
        /\ \A t \in Teams : team[t].org # o

\* The statements that a request is about to give.
Given(l) == IF l.op = "createrole" THEN l.granted ELSE PermissionsOf(l.org, l.role)

\* ORG SI-02, of one grant: a request that passed its authorization and has not
\* written gives no permission that its own actor did not hold when its
\* membership was read, although roles are deleted under it; unless the custom
\* role it read was made anew in between (knownRole, authorize and the write are
\* statements of their own).
OwnGrants ==
    \A q \in Requests :
        LET l == req[q] IN
        l.op \in GivingOps /\ l.pc \notin {"auth", "permit"} /\ ~l.remade => Reach(Given(l)) \subseteq l.held

\* ORG SI-02: OwnGrants, and without an exception: nobody but the founder holds a
\* permission, through the role of the membership or of a team, that no actor
\* both held and gave.
Ceiling ==
    /\ OwnGrants
    /\ \A o \in Orgs : \A u \in Users \ founder[o] : Reach(Effective(o, u)) \subseteq wielded[o]

\* ORG SI-05: the session of a removed member is active in no organization that
\* it left, unless its switch was answered after the removal (setActiveSession
\* reads the membership and writes the session in two statements).
LeftMeansInactive ==
    \A u \in Users \ late, o \in Orgs :
        active[u] = o /\ org[o] = "live" => member[o][u] # NoRow

\* The pages of the member list together return every member that was there
\* throughout, whoever joins and leaves between two pages.
ListComplete == ~missed
=============================================================================
