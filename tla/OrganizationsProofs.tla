------------------------ MODULE OrganizationsProofs ------------------------
(***************************************************************************)
(* Theorems about the statements of package permission, for all resources, *)
(* actions and sets of statements; and about the organizations plugin, for *)
(* any number of users, organizations, invitations, teams and requests.    *)
(***************************************************************************)
EXTENDS Organizations, FiniteSetTheorems, WellFoundedInduction, TLAPS

-----------------------------------------------------------------------------
(* Statements and sets.                                                    *)

\* What covers a concrete check: the four lookups of Set.Covers.
LEMMA Lookups ==
    ASSUME NEW S, NEW c \in Concrete
    PROVE  Covers(S, c) <=> \/ All \in S \/ c \in S
                            \/ Stmt(c.resource, Wildcard) \in S
                            \/ Stmt(Wildcard, c.action) \in S
<1>1. PICK r \in Resources, a \in Actions : c = Stmt(r, a)
  BY DEF Concrete
<1>2. c.resource = r /\ c.action = a /\ c.all = FALSE
  BY <1>1 DEF Stmt
<1>3. r # Wildcard /\ a # Wildcard
  BY PermissionsAssumption
<1> QED
  BY <1>2, <1>3 DEF Covers

\* A check that Set.Covers lets through is one that a statement of the set names,
\* by the table of the package comment; and if no statement is *:*, every such
\* check is let through.
THEOREM CoversMatchesTable ==
    ASSUME NEW S, S \subseteq Statements
    PROVE  /\ Reach(S) \subseteq Denotation(S)
           /\ Stmt(Wildcard, Wildcard) \notin S => Reach(S) = Denotation(S)
<1>1. ASSUME NEW c \in Reach(S)
      PROVE  c \in Denotation(S)
  <2>1. c \in Concrete /\ Covers(S, c)
    BY <1>1 DEF Reach
  <2>2. PICK r \in Resources, a \in Actions : c = Stmt(r, a)
    BY <2>1 DEF Concrete
  <2>3. c.resource = r /\ c.action = a
    BY <2>2 DEF Stmt
  <2>4. \E stmt \in S : c \in Denotes(stmt)
    <3>1. CASE All \in S
      BY <2>1, <3>1 DEF Denotes, All
    <3>2. CASE c \in S
      BY <2>1, <3>2 DEF Denotes
    <3>3. CASE Stmt(c.resource, Wildcard) \in S
      BY <2>1, <3>3 DEF Denotes, Stmt
    <3>4. CASE Stmt(Wildcard, c.action) \in S
      BY <2>1, <3>4 DEF Denotes, Stmt
    <3> QED
      BY <2>1, <3>1, <3>2, <3>3, <3>4, Lookups
  <2> QED
    BY <2>4 DEF Denotation
<1>2. ASSUME Stmt(Wildcard, Wildcard) \notin S, NEW c \in Denotation(S)
      PROVE  c \in Reach(S)
  <2>1. PICK stmt \in S : c \in Denotes(stmt)
    BY <1>2 DEF Denotation
  <2>2. c \in Concrete
    BY <2>1 DEF Denotes
  <2>3. PICK r \in Resources, a \in Actions : c = Stmt(r, a)
    BY <2>2 DEF Concrete
  <2>4. c.resource = r /\ c.action = a
    BY <2>3 DEF Stmt
  <2>5. CASE stmt = All
    BY <2>1, <2>2, <2>5, Lookups DEF Reach
  <2>6. CASE stmt # All
    <3>1. PICK x \in Resources \cup {Wildcard}, y \in Actions \cup {Wildcard} : stmt = Stmt(x, y)
      BY <2>1, <2>6 DEF Statements
    <3>2. stmt.resource = x /\ stmt.action = y /\ stmt.all = FALSE
      BY <3>1 DEF Stmt
    <3>3. x \in {Wildcard, r} /\ y \in {Wildcard, a}
      BY <2>1, <2>4, <3>2 DEF Denotes
    <3>4. ~(x = Wildcard /\ y = Wildcard)
      BY <1>2, <2>1, <3>1
    <3>5. \/ c \in S \/ Stmt(c.resource, Wildcard) \in S \/ Stmt(Wildcard, c.action) \in S
      BY <2>1, <2>3, <2>4, <3>1, <3>3, <3>4
    <3> QED
      BY <2>2, <3>5, Lookups DEF Reach
  <2> QED
    BY <2>5, <2>6
<1> QED
  BY <1>1, <1>2

\* authorizeGrant of the organizations plugin: a set that covers each statement of
\* another lets through whatever the other does, so a role that was checked
\* against its creator gives nothing that the creator had not.
THEOREM CoveredReachesNoMore ==
    ASSUME NEW S, NEW T, CoversSet(S, T)
    PROVE  Reach(T) \subseteq Reach(S)
<1> SUFFICES ASSUME NEW c \in Reach(T)
             PROVE  c \in Reach(S)
  OBVIOUS
<1>1. c \in Concrete /\ Covers(T, c)
  BY DEF Reach
<1>2. \A stmt \in T : Covers(S, stmt)
  BY DEF CoversSet
<1>3. Covers(S, c)
  <2>1. PICK r \in Resources, a \in Actions : c = Stmt(r, a)
    BY <1>1 DEF Concrete
  <2>2. c.resource = r /\ c.action = a
    BY <2>1 DEF Stmt
  <2>3. CASE All \in T
    <3>1. All.all = TRUE
      BY DEF All
    <3>2. All \in S
      BY <1>2, <2>3, <3>1 DEF Covers
    <3> QED
      BY <3>2 DEF Covers
  <2>4. CASE c \in T
    BY <1>2, <2>4
  <2>5. CASE Stmt(c.resource, Wildcard) \in T
    <3>1. Covers(S, Stmt(r, Wildcard))
      BY <1>2, <2>2, <2>5
    <3>2. All \in S \/ Stmt(r, Wildcard) \in S
      BY <3>1 DEF Covers, Stmt
    <3> QED
      BY <1>1, <2>2, <3>2, Lookups
  <2>6. CASE Stmt(Wildcard, c.action) \in T
    <3>1. Covers(S, Stmt(Wildcard, a))
      BY <1>2, <2>2, <2>6
    <3>2. All \in S \/ Stmt(Wildcard, a) \in S
      BY <3>1 DEF Covers, Stmt
    <3> QED
      BY <1>1, <2>2, <3>2, Lookups
  <2> QED
    BY <1>1, <2>3, <2>4, <2>5, <2>6, Lookups
<1> QED
  BY <1>1, <1>3 DEF Reach

\* intersect of customroles.go, with the key of an organization: what is left of
\* a key lets nothing through that the key or its owner does not.
THEOREM IntersectionIsBounded ==
    ASSUME NEW key, NEW live
    PROVE  Reach(Intersect(key, live)) \subseteq Reach(key) \cap Reach(live)
<1>1. CoversSet(live, Intersect(key, live))
  BY DEF CoversSet, Intersect
<1>2. CoversSet(key, Intersect(key, live))
  BY DEF CoversSet, Intersect, Covers
<1> QED
  BY <1>1, <1>2, CoveredReachesNoMore

\* A union of sets lets through what one of them does.
LEMMA ReachOfUnion ==
    ASSUME NEW F, NEW c \in Reach(UNION F)
    PROVE  \E S \in F : c \in Reach(S)
BY Lookups DEF Reach

-----------------------------------------------------------------------------
(* The invariant of the plugin.                                            *)

MemberOps == {"setrole", "suspend", "restore", "remove"}

\* The operations that ask for a permission, and those that name a role.
AuthOps == AllOps \ {"accept", "create", "activate", "account"}
GrantOps == {"setrole", "invite", "team"}

\* What a built-in role lets its holder do was held and given by somebody.
Good(o, role) == role \in DOMAIN BuiltIn => Reach(BuiltIn[role]) \subseteq wielded[o]

\* What each request carries at each of its statements.
Carries(l) ==
    /\ l.pc = "idle" => l.op = "none"
    /\ l.pc # "idle" => l.org \in Orgs
    /\ l.pc \in {"auth", "permit"} => l.op \in AuthOps /\ (l.op = "list" => l.user = NoUser)
    /\ l.pc = "member" => l.op = "activate"
    /\ l.pc \in {"read", "guard"} => l.op \in MemberOps
    /\ l.pc = "count" => l.op = "invite"
    /\ l.pc = "page" => l.op = "list"
    /\ l.op \in MemberOps \cup {"invite", "accept", "join", "leave", "activate"} => l.user \in Users
    /\ l.op \in {"setrole", "invite"} => l.role \in RoleNames
    /\ l.op \in {"accept", "revokeinv"} => l.id \in Invites
    /\ l.op \in {"deleteteam", "join", "leave"} => l.id \in Teams
    /\ l.op \in MemberOps /\ l.pc \in {"guard", "write"} =>
          l.row.status # "none" /\ l.row.role \in RoleNames /\ org[l.org] # "unborn"
    /\ l.op = "activate" => org[l.org] # "unborn"
    /\ l.op = "accept" => inv[l.id].st # "unborn" /\ inv[l.id].org \in {l.org, "none"}
    /\ l.locks # {} => l.op \in MemberOps /\ l.pc = "write"

\* A role that a request is about to write was given, from the authorization on,
\* and so was the role in the row that it read.
Gives(l) ==
    /\ l.op \in GrantOps /\ l.pc \in {"auth", "permit"} =>
          (l.role \in DOMAIN BuiltIn => l.granted = BuiltIn[l.role])
    /\ l.op \in GrantOps /\ l.pc \notin {"auth", "permit"} => Good(l.org, l.role)
    /\ l.op = "createrole" /\ l.pc \notin {"auth", "permit"} => Reach(l.granted) \subseteq wielded[l.org]
    /\ l.op \in MemberOps /\ l.pc \in {"guard", "write"} /\ l.user \notin founder[l.org] => Good(l.org, l.row.role)

Kept(l) == Carries(l) /\ Gives(l)

\* Unless the custom role was made anew, it is at most what the request read, and
\* the actor held what the request gives: OwnGrants, and what leads to it.
Holds(l) ==
    l.op \in GivingOps /\ ~l.remade =>
        /\ l.pc \in {"auth", "permit"} /\ l.role = Custom => custom[l.org] \subseteq l.granted
        /\ l.pc = "permit" => Reach(custom[l.org]) \subseteq l.held
        /\ l.pc \notin {"auth", "permit"} => Reach(Given(l)) \subseteq l.held

Guarded(o) == org[o] = "live" /\ o \notin unguarded

\* Who holds locks holds the rows of active owners, one beside the member at
\* least, and nobody else holds locks in the organization.
Locking ==
    \A q \in Requests : req[q].locks # {} /\ Guarded(req[q].org) =>
        /\ \A u \in req[q].locks : member[req[q].org][u] = OwnerRow
        /\ \E u \in req[q].locks : u # req[q].user
        /\ \A p \in Requests : req[p].locks # {} /\ req[p].org = req[q].org => p = q

\* A member that was there throughout is behind the cursor or was listed.
Listing ==
    \A q \in Requests : \A u \in req[q].there :
        /\ req[q].pc = "page" /\ member[req[q].org][u] # NoRow
        /\ u > req[q].user \/ u \in req[q].seen

Tables ==
    /\ mix \in Mixes /\ org \in [Orgs -> {"unborn", "live", "gone"}]
    /\ member \in [Orgs -> [Users -> MemberRow]]
    /\ inv \in [Invites -> InvRow]
    /\ custom \in [Orgs -> SUBSET Statements]
    /\ team \in [Teams -> TeamRow]
    /\ active \in [Users -> Orgs \cup {"none"}]
    /\ unguarded \subseteq Orgs /\ founder \in [Orgs -> SUBSET Users]
    /\ wielded \in [Orgs -> SUBSET Concrete]
    /\ joined \in [Invites -> Nat] /\ late \subseteq Users

InvitesOk ==
    \A i \in Invites :
        /\ inv[i].st \in {"unborn", "gone"} => inv[i].org = "none"
        /\ inv[i].st \notin {"unborn", "gone"} =>
              /\ inv[i].org \in Orgs /\ org[inv[i].org] = "live" /\ inv[i].user \in Users
              /\ inv[i].role \in RoleNames /\ Good(inv[i].org, inv[i].role)

TeamsOk ==
    \A t \in Teams :
        /\ team[t].st # "live" => team[t].org = "none"
        /\ team[t].st = "live" =>
              team[t].org \in Orgs /\ org[team[t].org] = "live" /\ Good(team[t].org, team[t].role)

MembersOk ==
    \A o \in Orgs : \A u \in Users : member[o][u] # NoRow =>
        /\ member[o][u].status # "none" /\ member[o][u].role \in RoleNames /\ org[o] = "live"
        /\ u \notin founder[o] => Good(o, member[o][u].role)

CustomOk == \A o \in Orgs : Reach(custom[o]) \subseteq wielded[o] /\ (custom[o] # {} => org[o] = "live")

Unspent ==
    \A i \in Invites :
        joined[i] <= 1 /\ (inv[i].st \in {"unborn", "pending", "revoked", "expired"} => joined[i] = 0)

\* A session is active in an organization of which its user is a member, or it
\* was switched after the user had left.
ActiveOk ==
    \A u \in Users : active[u] # "none" =>
        /\ org[active[u]] # "unborn"
        /\ org[active[u]] = "live" /\ u \notin late => member[active[u]][u] # NoRow

\* An active owner remains: OwnerRemains, with a witness.
OwnersOk == \A o \in Orgs : Guarded(o) => \E u \in Users : member[o][u] = OwnerRow

Rows ==
    /\ Tables /\ InvitesOk /\ TeamsOk /\ MembersOk /\ CustomOk /\ Unspent /\ ActiveOk /\ OwnersOk
    /\ missed = FALSE

Inv ==
    /\ Rows /\ req \in [Requests -> Local] /\ (\A q \in Requests : Kept(req[q]) /\ Holds(req[q]))
    /\ Locking /\ Listing

-----------------------------------------------------------------------------
(* Requests.                                                               *)

\* A slot whose request is over.
Resting(l) == l.op = "none" /\ l.pc = "idle" /\ l.locks = {} /\ l.there = {}

LEMMA IdleCall == Idle \in Local /\ Resting(Idle) /\ Idle.user = NoUser /\ Idle.role = "none" /\ Idle.org = "none"
BY DEF Idle, Local, NoRow, MemberRow, Resting

LEMMA RestKept == ASSUME NEW l, Resting(l) PROVE Kept(l)
BY DEF Resting, Kept, Carries, Gives, MemberOps, GrantOps

LEMMA CallFields ==
    ASSUME NEW op \in AllOps, NEW pc \in {"auth", "member", "write"}, NEW o \in Orgs
    PROVE  /\ Call(op, pc, o) \in Local
           /\ Call(op, pc, o).op = op /\ Call(op, pc, o).pc = pc /\ Call(op, pc, o).org = o
           /\ Call(op, pc, o).locks = {} /\ Call(op, pc, o).there = {} /\ Call(op, pc, o).role = "none"
           /\ Call(op, pc, o).user = NoUser
<1>. DEFINE m == [Idle EXCEPT !.op = op, !.pc = pc, !.org = o]
<1>1. Idle \in Local /\ Idle.locks = {} /\ Idle.there = {} /\ Idle.role = "none" /\ Idle.user = NoUser
  BY IdleCall DEF Resting
<1>2. Call(op, pc, o) = m
  BY DEF Call
<1>3. m \in Local
  <2>. DEFINE A == AllOps \cup {"none"}
              P == {"idle", "auth", "permit", "member", "read", "guard", "count", "write", "page"}
              O == Orgs \cup {"none"}
  <2>1. op \in A /\ pc \in P /\ o \in O
    OBVIOUS
  <2>2. Local = [op : A, pc : P, held : SUBSET Concrete, remade : BOOLEAN, actor : Users \cup {NoUser}, org : O, user : Users \cup {NoUser},
                 role : RoleNames \cup {"none"}, id : Invites \cup Teams \cup {"none"},
                 granted : SUBSET Statements, row : MemberRow,
                 locks : SUBSET Users, there : SUBSET Users, seen : SUBSET Users]
    BY DEF Local
  <2>. HIDE DEF A, P, O
  <2>. QED  BY <1>1, <2>1, <2>2
<1>4. m.op = op /\ m.pc = pc /\ m.org = o
  BY <1>1 DEF Local
<1>5. m.locks = Idle.locks /\ m.there = Idle.there /\ m.role = Idle.role /\ m.user = Idle.user
  BY <1>1 DEF Local
<1>. QED  BY <1>1, <1>2, <1>3, <1>4, <1>5

\* The row that is left of a request when its organization loses members.
Alike(l, n) ==
    /\ n.op = l.op /\ n.pc = l.pc /\ n.actor = l.actor /\ n.org = l.org /\ n.user = l.user /\ n.role = l.role
    /\ n.id = l.id /\ n.granted = l.granted /\ n.row = l.row /\ n.locks = l.locks /\ n.seen = l.seen
    /\ n.there \subseteq l.there /\ n.held = l.held /\ (l.remade => n.remade)

LEMMA AlikeKept == ASSUME NEW l, NEW n, Alike(l, n), Kept(l) PROVE Kept(n)
<1>1. Carries(n)
  BY DEF Alike, Kept, Carries
<1>2. Gives(n)
  BY DEF Alike, Kept, Gives
<1>. QED  BY <1>1, <1>2 DEF Kept

\* Who read the custom role of o knows that it was made anew.
Anew(o) ==
    \A p \in Requests :
        req'[p].org = o /\ req'[p].op \in GivingOps /\ (req'[p].role = Custom \/ req'[p].pc = "permit") => req'[p].remade

\* The tables only move forward.
Forward ==
    /\ \A o \in Orgs : custom'[o] \subseteq custom[o] \/ Anew(o)
    /\ \A o \in Orgs : /\ org[o] # "unborn" => org'[o] # "unborn" /\ founder'[o] = founder[o]
                       /\ org'[o] = "live" => org[o] \in {"live", "unborn"}
                       /\ wielded[o] \subseteq wielded'[o]
    /\ unguarded \subseteq unguarded'
    /\ \A i \in Invites : inv[i].st # "unborn" => inv'[i].st # "unborn" /\ inv'[i].org \in {inv[i].org, "none"}

LEMMA KeptStays ==
    ASSUME Forward, NEW l, Kept(l)
    PROVE  Kept(l)'
<1>1. l.pc # "idle" => l.org \in Orgs
  BY DEF Kept, Carries
<1>2. l.op # "none" => l.pc # "idle"
  BY DEF Kept, Carries
<1>3. Carries(l)'
  BY <1>1, <1>2 DEF Forward, Kept, Carries, MemberOps
<1>4. Gives(l)'
  <2>1. \A o \in Orgs : \A r : Good(o, r) => Good(o, r)'
    BY DEF Forward, Good
  <2>2. l.op \in GrantOps \cup {"createrole"} \cup MemberOps => l.org \in Orgs
    BY <1>1, <1>2 DEF MemberOps, GrantOps
  <2>3. l.op \in MemberOps /\ l.pc \in {"guard", "write"} => founder'[l.org] = founder[l.org]
    BY <2>2 DEF Forward, Kept, Carries
  <2>4. l.op = "createrole" /\ l.pc \notin {"auth", "permit"} => Reach(l.granted) \subseteq wielded'[l.org]
    BY <2>2 DEF Forward, Kept, Gives
  <2>. QED  BY <2>1, <2>2, <2>3, <2>4 DEF Kept, Gives
<1>. QED  BY <1>3, <1>4 DEF Kept

\* A request that was left as it was, but for the members that went.
LEMMA LeftKept ==
    ASSUME Forward, NEW l, NEW n, Alike(l, n), Kept(l)
    PROVE  Kept(n)'
<1>1. Kept(n)
  BY AlikeKept
<1>. QED  BY <1>1, KeptStays

LEMMA RestKeptNext == ASSUME NEW l, Resting(l) PROVE Kept(l)'
BY DEF Resting, Kept, Carries, Gives, MemberOps, GrantOps

LEMMA ReachOfNothing == Reach({}) = {}
BY DEF Reach, Covers

LEMMA ReachOfPart == ASSUME NEW S, NEW T, S \subseteq T PROVE Reach(S) \subseteq Reach(T)
BY DEF Reach, Covers

LEMMA RestHolds == ASSUME NEW l, Resting(l) PROVE Holds(l) /\ Holds(l)'
BY DEF Resting, Holds, GivingOps

\* A role that was deleted, or not touched, gives no more than before.
LEMMA LeftHolds ==
    ASSUME Forward, NEW p \in Requests, Alike(req[p], req'[p]), Kept(req[p]), Holds(req[p])
    PROVE  Holds(req[p])'
<1>. SUFFICES ASSUME req'[p].op \in GivingOps, ~req'[p].remade
              PROVE  /\ req'[p].pc \in {"auth", "permit"} /\ req'[p].role = Custom => custom'[req'[p].org] \subseteq req'[p].granted
                     /\ req'[p].pc = "permit" => Reach(custom'[req'[p].org]) \subseteq req'[p].held
                     /\ req'[p].pc \notin {"auth", "permit"} => Reach(Given(req[p])') \subseteq req'[p].held
  BY DEF Holds
<1>. DEFINE l == req[p]
            n == req'[p]
            o == l.org
<1>1. /\ n.op = l.op /\ n.pc = l.pc /\ n.org = o /\ n.role = l.role /\ n.granted = l.granted /\ n.held = l.held
      /\ l.op \in GivingOps /\ ~l.remade
  BY DEF Alike
<1>2. o \in Orgs
  BY <1>1 DEF Kept, Carries, GivingOps
<1>3. l.role = Custom \/ l.pc = "permit" => custom'[o] \subseteq custom[o]
  BY <1>1, <1>2 DEF Forward, Anew
<1>4. /\ l.pc \in {"auth", "permit"} /\ l.role = Custom => custom[o] \subseteq l.granted
      /\ l.pc = "permit" => Reach(custom[o]) \subseteq l.held
      /\ l.pc \notin {"auth", "permit"} => Reach(Given(l)) \subseteq l.held
  BY <1>1 DEF Holds
<1>5. Reach(Given(req[p])') \subseteq Reach(Given(l))
  <2>1. Given(req[p])' \subseteq Given(l)
    <3>1. Given(req[p])' = IF n.op = "createrole" THEN n.granted ELSE
             IF n.role \in DOMAIN BuiltIn THEN BuiltIn[n.role] ELSE IF n.role = Custom THEN custom'[n.org] ELSE {}
      BY DEF Given, PermissionsOf
    <3>. QED  BY <1>1, <1>3, <3>1 DEF Given, PermissionsOf
  <2>. QED  BY <2>1, ReachOfPart
<1>6. l.pc = "permit" => Reach(custom'[o]) \subseteq Reach(custom[o])
  BY <1>3, ReachOfPart
<1>. HIDE DEF l, n, o
<1>. QED  BY <1>1, <1>3, <1>4, <1>5, <1>6 DEF l, n, o

LEMMA Facts ==
    ASSUME Inv, NEW q \in Requests
    PROVE  /\ req \in [Requests -> Local] /\ req[q] \in Local /\ Kept(req[q]) /\ Holds(req[q])
           /\ req[q].pc # "idle" => req[q].org \in Orgs
           /\ req[q].locks # {} => req[q].op \in MemberOps /\ req[q].pc = "write" /\ org[req[q].org] # "unborn"
BY DEF Inv, Local, Kept, Carries

-----------------------------------------------------------------------------
(* Frames: what a step has to show.                                        *)

GuardedNext(o) == org'[o] = "live" /\ o \notin unguarded'

\* A row under a lock stays an active owner's, or the guard was passed.
LocksRespected ==
    \A p \in Requests : req'[p].locks # {} /\ GuardedNext(req[p].org) =>
        \A u \in req[p].locks : member[req[p].org][u] = OwnerRow => member'[req[p].org][u] = OwnerRow

\* A member that a list still has to return stays one.
ListRespected ==
    \A p \in Requests : \A u \in req'[p].there :
        member[req[p].org][u] # NoRow => member'[req[p].org][u] # NoRow

\* Every request was left as it was, or is over.
LeftOrOver == \A p \in Requests : Alike(req[p], req'[p]) \/ Resting(req'[p])

\* A statement that writes to the tables and ends its request.
LEMMA WriteKeeps ==
    ASSUME Inv, Rows', Forward, req' \in [Requests -> Local], LeftOrOver, LocksRespected, ListRespected
    PROVE  Inv'
<1>1. ASSUME NEW p \in Requests PROVE Kept(req[p])'
  <2>1. PICK l, n : l = req[p] /\ n = req'[p]
    OBVIOUS
  <2>2. Kept(l)
    BY <2>1, Facts
  <2>3. Kept(n)'
    <3>1. CASE Alike(l, n)
      BY <2>2, <3>1, LeftKept
    <3>2. CASE Resting(n)
      BY <3>2, RestKeptNext
    <3>. QED  BY <2>1, <3>1, <3>2 DEF LeftOrOver
  <2>. QED  BY <2>1, <2>3
<1>5. ASSUME NEW p \in Requests PROVE Holds(req[p])'
  <2>1. CASE Alike(req[p], req'[p])
    BY <2>1, Facts, LeftHolds
  <2>2. CASE Resting(req'[p])
    BY <2>2 DEF Resting, Holds, GivingOps
  <2>. QED  BY <2>1, <2>2 DEF LeftOrOver
<1>2. ASSUME NEW p \in Requests, req'[p].locks # {}
      PROVE  /\ Alike(req[p], req'[p]) /\ req[p].locks = req'[p].locks /\ req[p].org = req'[p].org
             /\ req[p].user = req'[p].user /\ (GuardedNext(req[p].org) => Guarded(req[p].org))
  <2>1. Alike(req[p], req'[p])
    BY <1>2 DEF LeftOrOver, Resting
  <2>2. req[p].locks # {}
    BY <1>2, <2>1 DEF Alike
  <2>3. req[p].org \in Orgs /\ org[req[p].org] # "unborn"
    BY <2>2, Facts
  <2>. QED  BY <2>1, <2>3 DEF Alike, Forward, Guarded, GuardedNext
<1>3. Locking'
  <2>. SUFFICES ASSUME NEW q \in Requests, req'[q].locks # {}, GuardedNext(req'[q].org)
                PROVE  /\ \A u \in req'[q].locks : member'[req'[q].org][u] = OwnerRow
                       /\ \E u \in req'[q].locks : u # req'[q].user
                       /\ \A p \in Requests : req'[p].locks # {} /\ req'[p].org = req'[q].org => p = q
    BY DEF Locking, Guarded, GuardedNext
  <2>1. req[q].locks # {} /\ Guarded(req[q].org)
    BY <1>2
  <2>2. /\ \A u \in req[q].locks : member[req[q].org][u] = OwnerRow
        /\ \E u \in req[q].locks : u # req[q].user
        /\ \A p \in Requests : req[p].locks # {} /\ req[p].org = req[q].org => p = q
    BY <2>1 DEF Inv, Locking
  <2>3. \A u \in req'[q].locks : member'[req'[q].org][u] = OwnerRow
    BY <1>2, <2>2 DEF LocksRespected
  <2>4. \E u \in req'[q].locks : u # req'[q].user
    BY <1>2, <2>2
  <2>5. \A p \in Requests : req'[p].locks # {} /\ req'[p].org = req'[q].org => p = q
    BY <1>2, <2>2
  <2>. QED  BY <2>3, <2>4, <2>5
<1>4. Listing'
  <2>. SUFFICES ASSUME NEW q \in Requests, NEW u \in req'[q].there
                PROVE  /\ req'[q].pc = "page" /\ member'[req'[q].org][u] # NoRow
                       /\ u > req'[q].user \/ u \in req'[q].seen
    BY DEF Listing
  <2>1. Alike(req[q], req'[q])
    BY DEF LeftOrOver, Resting
  <2>2. u \in req[q].there /\ req'[q].pc = req[q].pc /\ req'[q].org = req[q].org /\ req'[q].user = req[q].user
        /\ req'[q].seen = req[q].seen
    BY <2>1 DEF Alike
  <2>3. req[q].pc = "page" /\ member[req[q].org][u] # NoRow /\ (u > req[q].user \/ u \in req[q].seen)
    BY <2>2 DEF Inv, Listing
  <2>. QED  BY <2>2, <2>3 DEF ListRespected
<1>. QED  BY <1>1, <1>3, <1>4, <1>5 DEF Inv

\* A statement that only reads, or gives.
Quiet ==
    /\ UNCHANGED rows /\ UNCHANGED <<mix, unguarded, founder, joined, late, missed>>
    /\ wielded' \in [Orgs -> SUBSET Concrete]
    /\ \A o \in Orgs : wielded[o] \subseteq wielded'[o]

LEMMA QuietRows == ASSUME Inv, Quiet PROVE Rows' /\ Forward
<1>1. Tables'
  BY DEF Inv, Rows, Tables, Quiet, rows
<1>2. \A o \in Orgs : \A r : Good(o, r) => Good(o, r)'
  BY DEF Quiet, Good
<1>3. InvitesOk'
  BY <1>2 DEF Inv, Rows, Quiet, rows, InvitesOk
<1>4. TeamsOk' /\ MembersOk'
  BY <1>2 DEF Inv, Rows, Quiet, rows, TeamsOk, MembersOk
<1>5. CustomOk' /\ Unspent' /\ ActiveOk' /\ OwnersOk'
  BY DEF Inv, Rows, Quiet, rows, CustomOk, Unspent, ActiveOk, OwnersOk, Guarded
<1>6. Forward
  BY DEF Inv, Rows, Tables, Quiet, rows, Forward
<1>. QED  BY <1>1, <1>3, <1>4, <1>5, <1>6 DEF Inv, Rows, Quiet

\* What a request that holds locks, or lists, has to show of them.
LocksSound(q, m) ==
    m.locks # {} /\ Guarded(m.org) =>
        /\ \A u \in m.locks : member[m.org][u] = OwnerRow
        /\ \E u \in m.locks : u # m.user
        /\ \A p \in Requests \ {q} : req[p].locks # {} => req[p].org # m.org

ListSound(m) ==
    \A u \in m.there :
        /\ m.pc = "page" /\ member[m.org][u] # NoRow
        /\ u > m.user \/ u \in m.seen

LEMMA QuietStep ==
    ASSUME Inv, Quiet, NEW q \in Requests, NEW m \in Local, req' = [req EXCEPT ![q] = m],
           Kept(m)', Holds(m), LocksSound(q, m), ListSound(m)
    PROVE  Inv'
<1>1. Rows' /\ Forward
  BY QuietRows
<1>2. req' \in [Requests -> Local] /\ \A p \in Requests : req'[p] = IF p = q THEN m ELSE req[p]
  BY DEF Inv
<1>3. ASSUME NEW p \in Requests PROVE Kept(req[p])'
  <2>1. CASE p = q
    BY <1>2, <2>1
  <2>2. CASE p # q
    <3>1. PICK l : l = req[p]
      OBVIOUS
    <3>2. Kept(l)'
      BY <1>1, <3>1, Facts, KeptStays
    <3>. QED  BY <1>2, <2>2, <3>1, <3>2
  <2>. QED  BY <2>1, <2>2
<1>4. Locking'
  <2>. SUFFICES ASSUME NEW x \in Requests, req'[x].locks # {}, Guarded(req'[x].org)
                PROVE  /\ \A u \in req'[x].locks : member[req'[x].org][u] = OwnerRow
                       /\ \E u \in req'[x].locks : u # req'[x].user
                       /\ \A p \in Requests : req'[p].locks # {} /\ req'[p].org = req'[x].org => p = x
    BY DEF Locking, Guarded, Quiet, rows
  <2>1. CASE x = q
    BY <1>2, <2>1 DEF LocksSound
  <2>2. CASE x # q
    <3>1. req'[x] = req[x]
      BY <1>2, <2>2
    <3>2. /\ \A u \in req[x].locks : member[req[x].org][u] = OwnerRow
          /\ \E u \in req[x].locks : u # req[x].user
          /\ \A p \in Requests : req[p].locks # {} /\ req[p].org = req[x].org => p = x
      BY <3>1 DEF Inv, Locking
    <3>3. ~(m.locks # {} /\ m.org = req[x].org)
      BY <2>2, <3>1 DEF LocksSound
    <3>4. \A p \in Requests : req'[p].locks # {} /\ req'[p].org = req[x].org => p = x
      BY <1>2, <3>2, <3>3
    <3>. QED  BY <3>1, <3>2, <3>4
  <2>. QED  BY <2>1, <2>2
<1>5. Listing'
  <2>. SUFFICES ASSUME NEW x \in Requests, NEW u \in req'[x].there
                PROVE  /\ req'[x].pc = "page" /\ member[req'[x].org][u] # NoRow
                       /\ u > req'[x].user \/ u \in req'[x].seen
    BY DEF Listing, Quiet, rows
  <2>1. CASE x = q
    BY <1>2, <2>1 DEF ListSound
  <2>2. CASE x # q
    BY <1>2, <2>2 DEF Inv, Listing
  <2>. QED  BY <2>1, <2>2
<1>6. ASSUME NEW p \in Requests PROVE Holds(req[p])'
  <2>1. ASSUME NEW l, Holds(l) PROVE Holds(l)'
    BY <2>1 DEF Holds, Given, PermissionsOf, Quiet, rows
  <2>2. CASE p = q
    BY <1>2, <2>1, <2>2
  <2>3. CASE p # q
    <3>1. PICK l : l = req[p]
      OBVIOUS
    <3>2. Holds(l)'
      BY <2>1, <3>1, Facts
    <3>. QED  BY <1>2, <2>3, <3>1, <3>2
  <2>. QED  BY <2>2, <2>3
<1>. QED  BY <1>1, <1>2, <1>3, <1>4, <1>5, <1>6 DEF Inv

LEMMA QuietMovesOn ==
    ASSUME Inv, Quiet, NEW q \in Requests, NEW m \in Local, req' = [req EXCEPT ![q] = m],
           Kept(m), Holds(m), LocksSound(q, m), ListSound(m)
    PROVE  Inv'
<1>1. Kept(m)'
  BY QuietRows, KeptStays
<1>. QED  BY <1>1, QuietStep

\* Such a statement, when its request holds no locks and lists nothing.
LEMMA QuietKeeps ==
    ASSUME Inv, Quiet, NEW q \in Requests, NEW m \in Local, req' = [req EXCEPT ![q] = m],
           m.locks = {}, m.there = {}, Kept(m)', Holds(m)
    PROVE  Inv'
BY QuietStep DEF LocksSound, ListSound

\* An answer: the slot is free again.
LEMMA ReturnQuiet == ASSUME Inv, Quiet, NEW q \in Requests, Return(q) PROVE Inv'
<1>1. Idle \in Local /\ Resting(Idle)
  BY IdleCall
<1>2. PICK m \in Local : m = Idle
  BY <1>1
<1>3. Kept(m)' /\ Holds(m) /\ m.locks = {} /\ m.there = {}
  BY <1>1, <1>2, RestKeptNext, RestHolds DEF Resting
<1>. QED  BY <1>2, <1>3, QuietKeeps DEF Return

\* The next statement of a request, or the first one of a new call.
LEMMA QuietMoves ==
    ASSUME Inv, Quiet, NEW q \in Requests, NEW m \in Local, req' = [req EXCEPT ![q] = m],
           m.locks = {}, m.there = {}, Kept(m), Holds(m)
    PROVE  Inv'
<1>1. Kept(m)'
  BY QuietRows, KeptStays
<1>. QED  BY <1>1, QuietKeeps
-----------------------------------------------------------------------------
(* Pages of the member list.                                               *)

LEMMA LeastNumber ==
    ASSUME NEW S \in SUBSET Nat, S # {}
    PROVE  \E x \in S : \A y \in S : x <= y
<1>. DEFINE UpTo(x) == {y \in S : y <= x}
            R == StrictSubsetOrdering(Nat)
            T == {UpTo(x) : x \in S}
<1>1. T \subseteq FiniteSubsetsOf(Nat) /\ T # {}
  <2>1. ASSUME NEW x \in S PROVE UpTo(x) \in SUBSET Nat /\ IsFiniteSet(UpTo(x))
    <3>1. UpTo(x) \in SUBSET Nat /\ x \in Nat /\ \A y \in UpTo(x) : y <= x
      OBVIOUS
    <3>. QED  BY <3>1, FS_BoundedSetOfNaturals
  <2>. QED  BY <2>1 DEF FiniteSubsetsOf
<1>2. PICK A \in T : \A B \in T : <<B, A>> \notin R
  BY <1>1, FS_StrictSubsetOrderingWellFounded, WFMin
<1>3. PICK x \in S : A = UpTo(x)
  OBVIOUS
<1>4. ASSUME NEW y \in S, y < x PROVE FALSE
  <2>1. UpTo(y) \in T
    OBVIOUS
  <2>2. UpTo(y) \subseteq UpTo(x) /\ UpTo(y) # UpTo(x) /\ UpTo(x) \subseteq Nat
    <3>1. x \in UpTo(x) /\ x \notin UpTo(y) /\ UpTo(x) \subseteq Nat
      <4>1. x \in Nat /\ y \in Nat /\ S \subseteq Nat
        OBVIOUS
      <4>2. x <= x /\ ~(x <= y)
        BY <1>4, <4>1
      <4>. QED  BY <4>1, <4>2
    <3>2. ASSUME NEW z \in UpTo(y) PROVE z \in UpTo(x)
      <4>1. z \in S /\ z \in Nat /\ y \in Nat /\ x \in Nat /\ z <= y
        OBVIOUS
      <4>. QED  BY <1>4, <4>1
    <3>. HIDE DEF UpTo
    <3>. QED  BY <3>1, <3>2
  <2>3. <<UpTo(y), UpTo(x)>> \in R
    <3>. HIDE DEF UpTo
    <3>. QED  BY <2>2 DEF StrictSubsetOrdering
  <2>. QED  BY <1>2, <1>3, <2>1, <2>3
<1>. QED  BY <1>3, <1>4

\* The largest row of a set that is bounded.
LEMMA LargestNumber ==
    ASSUME NEW S \in SUBSET Nat, S # {}, NEW b \in Nat, \A y \in S : y <= b
    PROVE  Max(S) \in S /\ \A y \in S : y <= Max(S)
<1>. DEFINE Bounds == {n \in Nat : \A y \in S : y <= n}
<1>1. PICK x \in Bounds : \A n \in Bounds : x <= n
  <2>1. Bounds \in SUBSET Nat /\ Bounds # {}
    OBVIOUS
  <2>. HIDE DEF Bounds
  <2>. QED  BY <2>1, LeastNumber
<1>2. x \in S
  <2>1. SUFFICES ASSUME x \notin S PROVE FALSE
    OBVIOUS
  <2>2. x - 1 \in Bounds
    <3>1. \A y \in S : y < x
      BY <2>1
    <3>2. PICK z : z \in S
      OBVIOUS
    <3>3. x - 1 \in Nat
      BY <3>1, <3>2
    <3>4. \A y \in S : y <= x - 1
      BY <3>1
    <3>. QED  BY <3>3, <3>4
  <2>. QED  BY <1>1, <2>2
<1>3. \E m \in S : \A y \in S : m >= y
  BY <1>2
<1>4. Max(S) \in S /\ \A y \in S : Max(S) >= y
  BY <1>3 DEF Max
<1>. QED  BY <1>4

LEMMA RowsUpTo ==
    ASSUME NEW S \in SUBSET Nat, NEW u \in Nat
    PROVE  /\ IsFiniteSet({v \in S : v <= u})
           /\ \A w \in Nat : w <= u => Cardinality({v \in S : v <= w}) <= Cardinality({v \in S : v <= u})
<1>1. IsFiniteSet({v \in S : v <= u})
  <2>. DEFINE A == {v \in S : v <= u}
  <2>1. A \in SUBSET Nat /\ \A y \in A : y <= u
    OBVIOUS
  <2>. HIDE DEF A
  <2>2. IsFiniteSet(A)
    BY <2>1, FS_BoundedSetOfNaturals
  <2>. QED  BY <2>2 DEF A
<1>2. ASSUME NEW w \in Nat, w <= u
      PROVE  Cardinality({v \in S : v <= w}) <= Cardinality({v \in S : v <= u})
  <2>1. {v \in S : v <= w} \in SUBSET {v \in S : v <= u}
    <3>1. \A v \in S : v \in Nat /\ (v <= w => v <= u)
      BY <1>2
    <3>. QED  BY <3>1
  <2>. QED  BY <1>1, <2>1, FS_Subset
<1>. QED  BY <1>1, <1>2

\* A page is an initial segment of the rows behind the cursor: not empty, and
\* what it leaves out is behind its last row.
LEMMA PageIsInitial ==
    ASSUME NEW S \in SUBSET Nat, NEW n \in Nat \ {0}, FirstOf(S, n) # S
    PROVE  /\ Max(FirstOf(S, n)) \in FirstOf(S, n)
           /\ \A u \in S \ FirstOf(S, n) : u > Max(FirstOf(S, n))
<1>. DEFINE page == FirstOf(S, n)
            C(u) == Cardinality({v \in S : v <= u})
<1>1. page \subseteq S /\ \A u \in S : u \in page <=> C(u) <= n
  BY DEF FirstOf
<1>2. \A u \in S : C(u) \in Nat /\ \A w \in S : w <= u => C(w) <= C(u)
  BY RowsUpTo, FS_CardinalityType
<1>3. \A u \in S \ page, w \in page : w < u
  <2>. HIDE DEF C, page
  <2>1. ASSUME NEW u \in S \ page, NEW w \in page, ~ (w < u) PROVE FALSE
    <3>1. u <= w /\ w \in S /\ u \in S
      BY <1>1, <2>1
    <3>2. C(u) <= C(w) /\ C(w) <= n /\ C(u) \in Nat /\ C(w) \in Nat
      BY <1>1, <1>2, <2>1, <3>1
    <3>. QED  BY <1>1, <2>1, <3>2
  <2>. QED  BY <2>1
<1>4. PICK b \in S : b \notin page
  BY <1>1
<1>5. page # {}
  <2>1. PICK x \in S : \A y \in S : x <= y
    BY <1>4, LeastNumber
  <2>2. {v \in S : v <= x} = {x}
    <3>1. x \in Nat /\ x <= x /\ \A v \in S : v \in Nat /\ (v <= x => v = x)
      BY <2>1
    <3>. QED  BY <3>1
  <2>3. C(x) = 1
    BY <2>2, FS_Singleton
  <2>. QED  BY <1>1, <2>3
<1>6. Max(page) \in page
  <2>1. page \in SUBSET Nat /\ b \in Nat /\ \A y \in page : y <= b
    <3>. HIDE DEF page
    <3>1. \A y \in page : y < b /\ y \in Nat
      BY <1>1, <1>3, <1>4
    <3>2. page \in SUBSET Nat /\ b \in Nat
      BY <1>1
    <3>. QED  BY <3>1, <3>2
  <2>. HIDE DEF page
  <2>. QED  BY <1>5, <2>1, LargestNumber
<1>. QED  BY <1>3, <1>6

-----------------------------------------------------------------------------
(* Calls: what an actor has to hold.                                       *)

LEMMA OwnTables ==
    ASSUME Inv
    PROVE  /\ org \in [Orgs -> {"unborn", "live", "gone"}] /\ member \in [Orgs -> [Users -> MemberRow]]
           /\ inv \in [Invites -> InvRow] /\ custom \in [Orgs -> SUBSET Statements] /\ team \in [Teams -> TeamRow]
           /\ active \in [Users -> Orgs \cup {"none"}] /\ unguarded \subseteq Orgs
           /\ founder \in [Orgs -> SUBSET Users] /\ wielded \in [Orgs -> SUBSET Concrete]
           /\ joined \in [Invites -> Nat] /\ late \subseteq Users
           /\ req \in [Requests -> Local]
BY DEF Inv, Rows, Tables

LEMMA Permitted ==
    ASSUME Inv, NEW o \in Orgs, NEW role
    PROVE  /\ PermissionsOf(o, role) \subseteq Statements
           /\ role \in DOMAIN BuiltIn => PermissionsOf(o, role) = BuiltIn[role]
           /\ PermissionsOf(o, Custom) = custom[o]
BY OwnTables, OrganizationsAssumption DEF PermissionsOf, Custom

LEMMA ReadOnly == ASSUME Inv, UNCHANGED mix, UNCHANGED <<rows, history>> PROVE Quiet
BY OwnTables DEF Quiet, rows, history

LEMMA FreeOfBoth ==
    ASSUME Inv, NEW q \in Requests
    PROVE  /\ req[q].pc # "write" => req[q].locks = {}
           /\ req[q].pc # "page" => req[q].there = {}
BY Facts DEF Inv, Listing

\* A call that has not been authorized.
Asking(l) == l \in Local /\ Kept(l) /\ Holds(l) /\ l.pc \in {"auth", "permit"} /\ l.locks = {} /\ l.there = {}

Others == UNCHANGED mix /\ UNCHANGED <<rows, unguarded, founder, joined, late, missed>>

LEMMA NextPlace ==
    ASSUME NEW op \in AuthOps
    PROVE  /\ op \in MemberOps => AfterAuth(op) = "read"
           /\ op = "invite" => AfterAuth(op) = "count"
           /\ op = "list" => AfterAuth(op) = "page"
           /\ op \notin MemberOps \cup {"invite", "list"} => AfterAuth(op) = "write"
           /\ AfterAuth(op) \in {"read", "count", "page", "write"}
BY DEF AuthOps, AllOps, MemberOps, AfterAuth

LEMMA PassedFields ==
    ASSUME Inv, NEW l, Asking(l)
    PROVE  LET d == Passed(l) IN
           /\ d \in Local /\ d.op = l.op /\ d.org = l.org /\ d.user = l.user /\ d.role = l.role /\ d.id = l.id
           /\ d.pc = AfterAuth(l.op) /\ d.locks = {} /\ d.remade = l.remade
           /\ d.there = IF l.op = "list" THEN Members(l.org) ELSE {}
           /\ l.op = "createrole" => d.granted = l.granted
           /\ l.op \in GivingOps => d.held = l.held
<1>. DEFINE g == IF l.op = "createrole" THEN l.granted ELSE {}
            h == IF l.op \in GivingOps THEN l.held ELSE {}
            t == IF l.op = "list" THEN Members(l.org) ELSE {}
            a == AfterAuth(l.op)
            e == [l EXCEPT !.pc = a, !.actor = NoUser, !.granted = g]
            d == [e EXCEPT !.held = h, !.there = t]
<1>1. l \in Local /\ l.locks = {} /\ a \in {"read", "count", "page", "write"}
  BY NextPlace DEF Asking, Kept, Carries
<1>2. g \in SUBSET Statements /\ h \in SUBSET Concrete /\ t \in SUBSET Users
  BY <1>1 DEF Local, Members
<1>3. Passed(l) = d
  BY <1>1 DEF Passed, Local
<1>4. /\ d \in Local /\ d.op = l.op /\ d.org = l.org /\ d.user = l.user /\ d.role = l.role /\ d.id = l.id
      /\ d.pc = a /\ d.locks = l.locks /\ d.remade = l.remade /\ d.there = t /\ d.granted = g /\ d.held = h
  <2>. HIDE DEF g, h, t, a
  <2>1. e \in Local
    BY <1>1, <1>2 DEF Local
  <2>2. /\ e.op = l.op /\ e.org = l.org /\ e.user = l.user /\ e.role = l.role /\ e.id = l.id
        /\ e.pc = a /\ e.locks = l.locks /\ e.remade = l.remade /\ e.granted = g
    BY <1>1 DEF Local
  <2>. HIDE DEF e
  <2>3. d \in Local
    BY <2>1, <1>2 DEF Local
  <2>4. /\ d.op = e.op /\ d.org = e.org /\ d.user = e.user /\ d.role = e.role /\ d.id = e.id
        /\ d.pc = e.pc /\ d.locks = e.locks /\ d.remade = e.remade /\ d.granted = e.granted
        /\ d.there = t /\ d.held = h
    BY <2>1 DEF Local
  <2>. QED  BY <2>2, <2>3, <2>4
<1>. HIDE DEF d
<1>. QED  BY <1>1, <1>3, <1>4

\* The actor covers what it gives: it held it, or, if the custom role it read was
\* made anew, another gave it.
LEMMA DecideKeeps ==
    ASSUME Inv, Others, NEW q \in Requests, NEW l, Asking(l), NEW set, Decide(q, l, set),
           Reach(set) \subseteq wielded[l.org] \cup l.held,
           l.op \in GivingOps /\ ~l.remade => Reach(set) \subseteq l.held
    PROVE  Inv'
<1>1. CASE Return(q) /\ UNCHANGED wielded
  <2>1. Quiet
    BY <1>1, OwnTables DEF Others, Quiet, rows
  <2>. QED  BY <1>1, <2>1, ReturnQuiet
<1>2. CASE /\ Allowed(set, l) /\ req' = [req EXCEPT ![q] = Passed(l)]
           /\ wielded' = [wielded EXCEPT ![l.org] = @ \cup (Reach(l.granted) \cap l.held)]
  <2>1. l \in Local /\ Kept(l) /\ Holds(l) /\ l.pc \in {"auth", "permit"} /\ l.org \in Orgs /\ l.op \in AuthOps
    BY DEF Asking, Kept, Carries
  <2>2. Reach(l.granted) \subseteq Reach(set)
    BY <1>2, CoveredReachesNoMore DEF Allowed
  <2>3. /\ wielded' \in [Orgs -> SUBSET Concrete] /\ \A x \in Orgs : wielded[x] \subseteq wielded'[x]
        /\ wielded'[l.org] = wielded[l.org] \cup (Reach(l.granted) \cap l.held)
    <3>1. Reach(l.granted) \cap l.held \subseteq Concrete
      BY DEF Reach
    <3>. QED  BY <1>2, <2>1, <3>1, OwnTables
  <2>4. Reach(l.granted) \subseteq wielded'[l.org]
    BY <2>2, <2>3
  <2>5. Quiet
    BY <2>3 DEF Others, Quiet, rows
  <2>. DEFINE d == Passed(l)
  <2>6. /\ d \in Local /\ d.op = l.op /\ d.org = l.org /\ d.user = l.user /\ d.role = l.role /\ d.id = l.id
        /\ d.pc = AfterAuth(l.op) /\ d.locks = {} /\ d.remade = l.remade
        /\ d.there = IF l.op = "list" THEN Members(l.org) ELSE {}
        /\ l.op = "createrole" => d.granted = l.granted
        /\ l.op \in GivingOps => d.held = l.held
    BY PassedFields
  <2>7. req' = [req EXCEPT ![q] = d]
    BY <1>2
  <2>. HIDE DEF d
  <2>8. PICK m \in Local : m = d
    BY <2>6
  <2>9. l.op \in GrantOps /\ l.role \in DOMAIN BuiltIn => l.granted = BuiltIn[l.role]
    BY <2>1 DEF Kept, Gives
  <2>10. Kept(m)'
    <3>1. Carries(m)'
      BY <2>1, <2>6, <2>8, NextPlace DEF Kept, Carries, MemberOps, AuthOps, AllOps
    <3>2. l.op \in GrantOps => Good(m.org, m.role)'
      BY <2>4, <2>6, <2>8, <2>9 DEF Good
    <3>3. Gives(m)'
      BY <2>1, <2>4, <2>6, <2>8, <3>2, NextPlace DEF Gives, MemberOps, GrantOps
    <3>. QED  BY <3>1, <3>3 DEF Kept
  <2>11. Holds(m)
    <3>. SUFFICES ASSUME l.op \in GivingOps, ~l.remade
                  PROVE  m.pc \notin {"auth", "permit"} /\ Reach(Given(m)) \subseteq l.held
      BY <2>6, <2>8 DEF Holds
    <3>1. Given(m) \subseteq l.granted
      <4>1. CASE l.op = "createrole"
        BY <2>6, <2>8, <4>1 DEF Given
      <4>2. CASE l.op \in GrantOps
        <5>1. Given(m) = PermissionsOf(l.org, l.role)
          BY <2>6, <2>8, <4>2 DEF Given, GrantOps
        <5>2. l.role = Custom => custom[l.org] \subseteq l.granted
          BY <2>1 DEF Holds
        <5>. QED  BY <2>9, <4>2, <5>1, <5>2 DEF PermissionsOf
      <4>. QED  BY <4>1, <4>2 DEF GivingOps, GrantOps
    <3>2. Reach(Given(m)) \subseteq Reach(l.granted)
      BY <3>1, ReachOfPart
    <3>3. m.pc \notin {"auth", "permit"}
      BY <2>1, <2>6, <2>8, NextPlace
    <3>. QED  BY <2>2, <3>2, <3>3
  <2>12. LocksSound(q, m)
    BY <2>6, <2>8 DEF LocksSound
  <2>13. ListSound(m)
    <3>1. \A u \in Users : u > NoUser
      BY OrganizationsAssumption DEF NoUser
    <3>2. l.op = "list" => m.pc = "page" /\ m.user = NoUser
      BY <2>1, <2>6, <2>8, NextPlace DEF Kept, Carries
    <3>. QED  BY <2>6, <2>8, <3>1, <3>2 DEF ListSound, Members
  <2>. QED  BY <2>5, <2>7, <2>8, <2>10, <2>11, <2>12, <2>13, QuietStep
<1>. QED  BY <1>1, <1>2 DEF Decide

\* authorize: the checks of the actor are those of the role in the row it read.
LEMMA AskKeeps ==
    ASSUME Inv, UNCHANGED mix, NEW q \in Requests, NEW l, Asking(l), l.pc = "auth", Ask(q, l)
    PROVE  Inv'
<1>. DEFINE set == HeldBy(l.org, l.actor)
            held == Reach(set)
            asked == [l EXCEPT !.held = held]
<1>1. l \in Local /\ Kept(l) /\ Holds(l) /\ l.locks = {} /\ l.there = {} /\ l.org \in Orgs /\ l.op \in AuthOps
  BY DEF Asking, Kept, Carries
<1>2. held \in SUBSET Concrete
  BY DEF Reach
<1>3. Others
  BY DEF Ask, Others
<1>4. \/ /\ l.actor # NoUser /\ member[l.org][l.actor] = [role |-> Custom, status |-> "active"]
         /\ req' = [req EXCEPT ![q] = [asked EXCEPT !.pc = "permit"]] /\ UNCHANGED wielded
      \/ Decide(q, asked, set)
  BY DEF Ask
<1>. HIDE DEF held
<1>5. /\ asked \in Local /\ asked.op = l.op /\ asked.pc = "auth" /\ asked.org = l.org /\ asked.user = l.user
      /\ asked.role = l.role /\ asked.id = l.id /\ asked.granted = l.granted /\ asked.row = l.row
      /\ asked.locks = {} /\ asked.there = {} /\ asked.remade = l.remade /\ asked.held = held
  BY <1>1, <1>2 DEF Local
<1>. HIDE DEF asked
<1>6. CASE Decide(q, asked, set)
  <2>1. Kept(asked)
    <3>1. Carries(asked)
      BY <1>1, <1>5 DEF Kept, Carries, MemberOps
    <3>2. Gives(asked)
      BY <1>1, <1>5 DEF Kept, Gives, MemberOps, GrantOps
    <3>. QED  BY <3>1, <3>2 DEF Kept
  <2>2. Holds(asked)
    BY <1>1, <1>5 DEF Holds
  <2>3. Asking(asked)
    BY <1>5, <2>1, <2>2 DEF Asking
  <2>4. Reach(set) = asked.held
    BY <1>5 DEF held
  <2>. HIDE DEF set
  <2>. QED  BY <1>3, <1>6, <2>3, <2>4, DecideKeeps
<1>7. CASE /\ l.actor # NoUser /\ member[l.org][l.actor] = [role |-> Custom, status |-> "active"]
           /\ req' = [req EXCEPT ![q] = [asked EXCEPT !.pc = "permit"]] /\ UNCHANGED wielded
  <2>. DEFINE m == [asked EXCEPT !.pc = "permit"]
  <2>1. /\ m \in Local /\ m.op = l.op /\ m.pc = "permit" /\ m.org = l.org /\ m.user = l.user
        /\ m.role = l.role /\ m.id = l.id /\ m.granted = l.granted /\ m.row = l.row
        /\ m.locks = {} /\ m.there = {} /\ m.remade = l.remade /\ m.held = held
    BY <1>5 DEF Local
  <2>2. req' = [req EXCEPT ![q] = m]
    BY <1>7
  <2>. HIDE DEF m
  <2>3. held = Reach(custom[l.org])
    <3>1. set = PermissionsOf(l.org, Custom)
      BY <1>7 DEF HeldBy, Held
    <3>. QED  BY <1>1, <3>1, Permitted DEF held
  <2>4. Kept(m)
    <3>1. Carries(m)
      BY <1>1, <2>1 DEF Kept, Carries, MemberOps
    <3>2. Gives(m)
      BY <1>1, <2>1 DEF Kept, Gives, MemberOps, GrantOps, Asking
    <3>. QED  BY <3>1, <3>2 DEF Kept
  <2>5. Holds(m)
    BY <1>1, <2>1, <2>3 DEF Holds, Asking
  <2>6. Quiet
    BY <1>3, <1>7, OwnTables DEF Others, Quiet, rows
  <2>. QED  BY <2>1, <2>2, <2>4, <2>5, <2>6, QuietMoves
<1>. QED  BY <1>4, <1>6, <1>7

LEMMA AuthorizeKeeps == ASSUME Inv, UNCHANGED mix, NEW q \in Requests, Authorize(q) PROVE Inv'
<1>1. Asking(req[q])
  BY Facts, FreeOfBoth DEF Authorize, Asking
<1>. QED  BY <1>1, AskKeeps DEF Authorize

\* The second statement: what the custom role gives was given to it.
LEMMA PermitKeeps == ASSUME Inv, UNCHANGED mix, NEW q \in Requests, Permit(q) PROVE Inv'
<1>. DEFINE l == req[q]
<1>1. l.pc = "permit" /\ Decide(q, l, custom[l.org]) /\ Others
  BY DEF Permit, Others
<1>2. Asking(l) /\ l.org \in Orgs
  BY <1>1, Facts, FreeOfBoth DEF Asking
<1>3. Reach(custom[l.org]) \subseteq wielded[l.org]
  BY <1>2 DEF Inv, Rows, CustomOk
<1>4. l.op \in GivingOps /\ ~l.remade => Reach(custom[l.org]) \subseteq l.held
  BY <1>1, <1>2 DEF Asking, Holds
<1>. HIDE DEF l
<1>. QED  BY <1>1, <1>2, <1>3, <1>4, DecideKeeps

\* The first statement of a call: a role that is granted is read before the actor
\* is asked.
LEMMA GrantKeeps ==
    ASSUME Inv, UNCHANGED mix, NEW q \in Requests, NEW l \in Local, l.op \in GrantOps, l.pc = "auth",
           l.org \in Orgs, l.op # "team" => l.user \in Users /\ l.role \in RoleNames,
           l.locks = {}, l.there = {}, Grant(q, l)
    PROVE  Inv'
<1>. DEFINE p == PermissionsOf(l.org, l.role)
            known == [l EXCEPT !.granted = p]
<1>1. p \in SUBSET Statements /\ (l.role \in DOMAIN BuiltIn => p = BuiltIn[l.role])
      /\ (l.role = Custom => p = custom[l.org])
  BY Permitted
<1>2. \/ req' = [req EXCEPT ![q] = known] /\ UNCHANGED <<rows, history>>
      \/ Ask(q, known)
  BY DEF Grant
<1>. HIDE DEF p
<1>3. /\ known \in Local /\ known.op = l.op /\ known.pc = "auth" /\ known.org = l.org /\ known.user = l.user
      /\ known.role = l.role /\ known.granted = p /\ known.locks = {} /\ known.there = {}
  BY <1>1 DEF Local
<1>. HIDE DEF known
<1>4. Kept(known)
  <2>1. Carries(known)
    BY <1>3 DEF Carries, GrantOps, MemberOps, AuthOps, AllOps
  <2>2. Gives(known)
    BY <1>1, <1>3 DEF Gives, GrantOps, MemberOps
  <2>. QED  BY <2>1, <2>2 DEF Kept
<1>5. Holds(known)
  BY <1>1, <1>3 DEF Holds
<1>6. Asking(known)
  BY <1>3, <1>4, <1>5 DEF Asking
<1>7. CASE req' = [req EXCEPT ![q] = known] /\ UNCHANGED <<rows, history>>
  BY <1>3, <1>4, <1>5, <1>7, ReadOnly, QuietMoves
<1>. QED  BY <1>2, <1>3, <1>6, <1>7, AskKeeps

-----------------------------------------------------------------------------
(* Calls, and statements that read.                                        *)

LEMMA SetRoleKeeps ==
    ASSUME Inv, UNCHANGED mix, NEW q \in Requests, NEW actor \in Actors, NEW o \in Orgs, NEW u \in Users,
           NEW role \in Grantable, SetRole(q, actor, o, u, role)
    PROVE  Inv'
<1>. DEFINE c == Call("setrole", "auth", o)
            m == [c EXCEPT !.actor = actor, !.user = u, !.role = role]
<1>1. Grant(q, m) /\ "setrole" \in AllOps /\ actor \in Users \cup {NoUser} /\ role \in RoleNames
  BY OrganizationsAssumption DEF SetRole, AllOps, RoleNames
<1>2. c \in Local /\ c.op = "setrole" /\ c.pc = "auth" /\ c.org = o /\ c.locks = {} /\ c.there = {}
  BY <1>1, CallFields
<1>. HIDE DEF c
<1>3. m \in Local /\ m.op = "setrole" /\ m.pc = "auth" /\ m.org = o /\ m.user = u /\ m.role = role /\ m.locks = {} /\ m.there = {}
  BY <1>1, <1>2 DEF Local
<1>. HIDE DEF m
<1>. QED  BY <1>1, <1>3, GrantKeeps DEF GrantOps

LEMMA InviteKeeps ==
    ASSUME Inv, UNCHANGED mix, NEW q \in Requests, NEW actor \in Actors, NEW o \in Orgs, NEW u \in Users,
           NEW role \in Grantable, Invite(q, actor, o, u, role)
    PROVE  Inv'
<1>. DEFINE c == Call("invite", "auth", o)
            m == [c EXCEPT !.actor = actor, !.user = u, !.role = role]
<1>1. Grant(q, m) /\ "invite" \in AllOps /\ actor \in Users \cup {NoUser} /\ role \in RoleNames
  BY OrganizationsAssumption DEF Invite, AllOps, RoleNames
<1>2. c \in Local /\ c.op = "invite" /\ c.pc = "auth" /\ c.org = o /\ c.locks = {} /\ c.there = {}
  BY <1>1, CallFields
<1>. HIDE DEF c
<1>3. m \in Local /\ m.op = "invite" /\ m.pc = "auth" /\ m.org = o /\ m.user = u /\ m.role = role /\ m.locks = {} /\ m.there = {}
  BY <1>1, <1>2 DEF Local
<1>. HIDE DEF m
<1>. QED  BY <1>1, <1>3, GrantKeeps DEF GrantOps

LEMMA CreateTeamKeeps ==
    ASSUME Inv, UNCHANGED mix, NEW q \in Requests, NEW actor \in Actors, NEW o \in Orgs,
           NEW role \in Grantable \cup {"none"}, CreateTeam(q, actor, o, role)
    PROVE  Inv'
<1>. DEFINE c == Call("team", "auth", o)
            m == [c EXCEPT !.actor = actor, !.role = role]
<1>1. Grant(q, m) /\ "team" \in AllOps /\ actor \in Users \cup {NoUser} /\ role \in RoleNames \cup {"none"}
  BY OrganizationsAssumption DEF CreateTeam, AllOps, RoleNames
<1>2. c \in Local /\ c.op = "team" /\ c.pc = "auth" /\ c.org = o /\ c.locks = {} /\ c.there = {}
  BY <1>1, CallFields
<1>. HIDE DEF c
<1>3. m \in Local /\ m.op = "team" /\ m.pc = "auth" /\ m.org = o /\ m.locks = {} /\ m.there = {}
  BY <1>1, <1>2 DEF Local
<1>. HIDE DEF m
<1>. QED  BY <1>1, <1>3, GrantKeeps DEF GrantOps

LEMMA SetStatusKeeps ==
    ASSUME Inv, UNCHANGED mix, NEW q \in Requests, NEW op, NEW actor \in Actors, NEW o \in Orgs, NEW u \in Users,
           SetStatus(q, op, actor, o, u)
    PROVE  Inv'
<1>. DEFINE c == Call(op, "auth", o)
            a == IF op = "remove" /\ actor = u THEN NoUser ELSE actor
            m == [c EXCEPT !.user = u, !.actor = a]
<1>1. Ask(q, m) /\ op \in {"suspend", "restore", "remove"} /\ a \in Users \cup {NoUser}
  BY OrganizationsAssumption DEF SetStatus
<1>2. op \in AllOps
  BY <1>1 DEF AllOps
<1>3. c \in Local /\ c.op = op /\ c.pc = "auth" /\ c.org = o /\ c.locks = {} /\ c.there = {}
  BY <1>2, CallFields
<1>. HIDE DEF a, c
<1>4. m \in Local /\ m.op = op /\ m.pc = "auth" /\ m.org = o /\ m.user = u /\ m.locks = {} /\ m.there = {}
  BY <1>1, <1>3 DEF Local
<1>. HIDE DEF m
<1>5. Kept(m)
  BY <1>1, <1>4 DEF Kept, Carries, Gives, MemberOps, AuthOps, AllOps, GrantOps
<1>6. Holds(m)
  BY <1>1, <1>4 DEF Holds, GivingOps
<1>. QED  BY <1>1, <1>4, <1>5, <1>6, AskKeeps DEF Asking

\* What a request gives once it may does not depend on how far it is.
LEMMA HoldsOn ==
    ASSUME NEW l, NEW m, Holds(l), l.pc \notin {"auth", "permit"}, m.pc \notin {"auth", "permit"},
           m.op = l.op, m.org = l.org, m.role = l.role, m.granted = l.granted, m.held = l.held, m.remade = l.remade
    PROVE  Holds(m)
BY DEF Holds, Given

\* The row that is read is one that was given, or a founder's.
LEMMA MembershipOfKeeps == ASSUME Inv, UNCHANGED mix, NEW q \in Requests, MembershipOf(q) PROVE Inv'
<1>. DEFINE row == member[req[q].org][req[q].user]
            read == [req[q] EXCEPT !.row = row]
            pc == IF row = OwnerRow /\ Target(read) # OwnerRow THEN "guard" ELSE "write"
            d == [read EXCEPT !.pc = pc]
<1>1. Quiet
  BY ReadOnly DEF MembershipOf
<1>2. req[q].pc = "read" /\ req[q] \in Local /\ Kept(req[q]) /\ Holds(req[q]) /\ req[q].org \in Orgs /\ req[q].locks = {} /\ req[q].there = {}
  BY Facts, FreeOfBoth DEF MembershipOf
<1>3. req[q].op \in MemberOps /\ req[q].user \in Users
  BY <1>2 DEF Kept, Carries
<1>4. CASE Return(q)
  BY <1>1, <1>4, ReturnQuiet
<1>5. CASE org[req[q].org] = "live" /\ row # NoRow /\ req' = [req EXCEPT ![q] = d]
  <2>1. row \in MemberRow /\ row.status # "none" /\ row.role \in RoleNames
        /\ (req[q].user \notin founder[req[q].org] => Good(req[q].org, row.role))
    BY <1>2, <1>3, <1>5, OwnTables DEF Inv, Rows, MembersOk
  <2>2. pc \in {"guard", "write"}
    OBVIOUS
  <2>. HIDE DEF row, pc
  <2>3. read \in Local /\ read.op = req[q].op /\ read.org = req[q].org /\ read.user = req[q].user /\ read.role = req[q].role
        /\ read.row = row /\ read.locks = {} /\ read.there = {} /\ read.held = req[q].held /\ read.remade = req[q].remade
        /\ read.granted = req[q].granted
    BY <1>2, <2>1 DEF Local
  <2>. HIDE DEF read
  <2>4. d \in Local /\ d.op = req[q].op /\ d.org = req[q].org /\ d.user = req[q].user /\ d.role = req[q].role
        /\ d.row = row /\ d.locks = {} /\ d.there = {} /\ d.pc = pc /\ d.held = req[q].held /\ d.remade = req[q].remade
        /\ d.granted = req[q].granted
    BY <2>2, <2>3 DEF Local
  <2>. HIDE DEF d
  <2>5. Carries(d)
    <3>1. org[d.org] # "unborn"
      BY <1>5, <2>4
    <3>. QED  BY <1>2, <1>3, <2>1, <2>2, <2>4, <3>1 DEF Kept, Carries, MemberOps
  <2>6. Gives(d)
    BY <1>2, <1>3, <2>1, <2>2, <2>4 DEF Kept, Gives, MemberOps, GrantOps
  <2>7. Kept(d)
    BY <2>5, <2>6 DEF Kept
  <2>8. Holds(d)
    BY <1>2, <2>2, <2>4, HoldsOn
  <2>. QED  BY <1>1, <1>5, <2>4, <2>7, <2>8, QuietMoves
<1>. QED  BY <1>4, <1>5 DEF MembershipOf

\* The owners that were counted are locked: the member is not the only one, and
\* no other request has locks on an owner.
LEMMA GuardOwnerKeeps == ASSUME Inv, UNCHANGED mix, NEW q \in Requests, GuardOwner(q) PROVE Inv'
<1>. DEFINE owners == ActiveOwners(req[q].org)
            m == [req[q] EXCEPT !.pc = "write", !.locks = owners]
<1>1. Quiet
  BY ReadOnly DEF GuardOwner
<1>2. req[q].pc = "guard" /\ req[q] \in Local /\ Kept(req[q]) /\ Holds(req[q]) /\ req[q].org \in Orgs /\ req[q].there = {}
  BY Facts, FreeOfBoth DEF GuardOwner
<1>3. CASE Return(q)
  BY <1>1, <1>3, ReturnQuiet
<1>4. CASE owners \ {req[q].user} # {} /\ req' = [req EXCEPT ![q].pc = "write", ![q].locks = owners]
  <2>1. req' = [req EXCEPT ![q] = m]
    BY <1>4
  <2>2. owners \subseteq Users /\ (\A u \in Users : u \in owners <=> member[req[q].org][u] = OwnerRow)
    BY DEF ActiveOwners, OwnerRow
  <2>. HIDE DEF owners
  <2>3. m \in Local /\ m.op = req[q].op /\ m.pc = "write" /\ m.org = req[q].org /\ m.user = req[q].user
        /\ m.role = req[q].role /\ m.row = req[q].row /\ m.locks = owners /\ m.there = {}
        /\ m.held = req[q].held /\ m.remade = req[q].remade /\ m.granted = req[q].granted
    BY <1>2, <2>2 DEF Local
  <2>. HIDE DEF m
  <2>4. Kept(m)
    <3>1. Carries(m)
      BY <1>2, <2>3 DEF Kept, Carries, MemberOps
    <3>2. Gives(m)
      BY <1>2, <2>3 DEF Kept, Carries, Gives, MemberOps, GrantOps
    <3>. QED  BY <3>1, <3>2 DEF Kept
  <2>5. Holds(m)
    BY <1>2, <2>3, HoldsOn
  <2>6. LocksSound(q, m)
    <3>1. ASSUME Guarded(req[q].org), NEW p \in Requests \ {q}, req[p].locks # {}, req[p].org = req[q].org
          PROVE  FALSE
      <4>1. \A u \in req[p].locks : member[req[q].org][u] = OwnerRow
        BY <3>1 DEF Inv, Locking
      <4>2. req[p].locks \subseteq Users
        BY Facts DEF Local
      <4>3. PICK u \in req[p].locks : u \in owners
        BY <2>2, <3>1, <4>1, <4>2
      <4>4. ~LockedByOther(q, req[q].org, u)
        BY <4>3 DEF GuardOwner, owners
      <4>. QED  BY <3>1, <4>4 DEF LockedByOther
    <3>2. \E u \in owners : u # req[q].user
      BY <1>4
    <3>. QED  BY <2>2, <2>3, <3>1, <3>2 DEF LocksSound
  <2>7. ListSound(m)
    BY <2>3 DEF ListSound
  <2>. QED  BY <1>1, <2>1, <2>3, <2>4, <2>5, <2>6, <2>7, QuietMovesOn
<1>. QED  BY <1>3, <1>4 DEF GuardOwner

LEMMA GuardMemberLimitKeeps == ASSUME Inv, UNCHANGED mix, NEW q \in Requests, GuardMemberLimit(q) PROVE Inv'
<1>1. Quiet
  BY ReadOnly DEF GuardMemberLimit
<1>2. req[q].op = "invite" /\ req[q].pc = "count" /\ req[q] \in Local /\ Kept(req[q]) /\ Holds(req[q]) /\ req[q].locks = {} /\ req[q].there = {}
  BY Facts, FreeOfBoth DEF GuardMemberLimit, At
<1>3. CASE Return(q)
  BY <1>1, <1>3, ReturnQuiet
<1>4. CASE req' = [req EXCEPT ![q].pc = "write"]
  <2>. DEFINE m == [req[q] EXCEPT !.pc = "write"]
  <2>1. req' = [req EXCEPT ![q] = m]
    BY <1>4
  <2>2. m \in Local /\ m.op = "invite" /\ m.pc = "write" /\ m.org = req[q].org /\ m.user = req[q].user
        /\ m.role = req[q].role /\ m.locks = {} /\ m.there = {}
        /\ m.held = req[q].held /\ m.remade = req[q].remade /\ m.granted = req[q].granted
    BY <1>2 DEF Local
  <2>. HIDE DEF m
  <2>3. Kept(m)
    BY <1>2, <2>2 DEF Kept, Carries, Gives, MemberOps, GrantOps
  <2>4. Holds(m)
    BY <1>2, <2>2, HoldsOn
  <2>. QED  BY <1>1, <2>1, <2>2, <2>3, <2>4, QuietMoves
<1>. QED  BY <1>3, <1>4 DEF GuardMemberLimit

LEMMA AcceptInvitationKeeps ==
    ASSUME Inv, UNCHANGED mix, NEW q \in Requests, NEW i \in Invites, AcceptInvitation(q, i)
    PROVE  Inv'
<1>. DEFINE c == Call("accept", "write", inv[i].org)
            m == [c EXCEPT !.user = inv[i].user, !.id = i]
<1>1. Quiet /\ req' = [req EXCEPT ![q] = m] /\ inv[i].st \notin {"unborn", "gone"}
  BY ReadOnly DEF AcceptInvitation
<1>2. inv[i].org \in Orgs /\ inv[i].user \in Users /\ "accept" \in AllOps
  BY <1>1 DEF Inv, Rows, InvitesOk, AllOps
<1>3. c \in Local /\ c.op = "accept" /\ c.pc = "write" /\ c.org = inv[i].org /\ c.locks = {} /\ c.there = {}
  BY <1>2, CallFields
<1>. HIDE DEF c
<1>4. m \in Local /\ m.op = "accept" /\ m.pc = "write" /\ m.org = inv[i].org /\ m.user = inv[i].user /\ m.id = i
      /\ m.locks = {} /\ m.there = {}
  BY <1>2, <1>3 DEF Local
<1>. HIDE DEF m
<1>5. Kept(m) /\ Holds(m)
  BY <1>1, <1>2, <1>4 DEF Kept, Carries, Gives, MemberOps, GrantOps, Holds, GivingOps
<1>. QED  BY <1>1, <1>4, <1>5, QuietMoves

LEMMA RevokeInvitationKeeps ==
    ASSUME Inv, UNCHANGED mix, NEW q \in Requests, NEW actor \in Actors, NEW o \in Orgs, NEW i \in Invites,
           RevokeInvitation(q, actor, o, i)
    PROVE  Inv'
<1>. DEFINE c == Call("revokeinv", "auth", o)
            m == [c EXCEPT !.actor = actor, !.id = i]
<1>1. Ask(q, m) /\ "revokeinv" \in AllOps /\ actor \in Users \cup {NoUser}
  BY OrganizationsAssumption DEF RevokeInvitation, AllOps
<1>2. c \in Local /\ c.op = "revokeinv" /\ c.pc = "auth" /\ c.org = o /\ c.locks = {} /\ c.there = {}
  BY <1>1, CallFields
<1>. HIDE DEF c
<1>3. m \in Local /\ m.op = "revokeinv" /\ m.pc = "auth" /\ m.org = o /\ m.id = i /\ m.locks = {} /\ m.there = {}
  BY <1>1, <1>2 DEF Local
<1>. HIDE DEF m
<1>4. Kept(m) /\ Holds(m)
  BY <1>3 DEF Kept, Carries, Gives, MemberOps, AuthOps, AllOps, GrantOps, Holds, GivingOps
<1>. QED  BY <1>1, <1>3, <1>4, AskKeeps DEF Asking

\* Calls that carry nothing but the organization and the actor.
LEMMA PlainCallKeeps ==
    ASSUME Inv, UNCHANGED mix, NEW q \in Requests, NEW op \in {"delete", "deleterole", "list"}, NEW o \in Orgs,
           NEW actor \in Actors, Ask(q, [Call(op, "auth", o) EXCEPT !.actor = actor])
    PROVE  Inv'
<1>. DEFINE c == Call(op, "auth", o)
            m == [c EXCEPT !.actor = actor]
<1>1. Ask(q, m) /\ op \in AllOps /\ actor \in Users \cup {NoUser}
  BY OrganizationsAssumption DEF AllOps
<1>2. c \in Local /\ c.op = op /\ c.pc = "auth" /\ c.org = o /\ c.locks = {} /\ c.there = {} /\ c.user = NoUser
  BY <1>1, CallFields
<1>. HIDE DEF c
<1>3. m \in Local /\ m.op = op /\ m.pc = "auth" /\ m.org = o /\ m.locks = {} /\ m.there = {} /\ m.user = NoUser
  BY <1>1, <1>2 DEF Local
<1>. HIDE DEF m
<1>4. Kept(m) /\ Holds(m)
  BY <1>3 DEF Kept, Carries, Gives, MemberOps, AuthOps, AllOps, GrantOps, Holds, GivingOps
<1>. QED  BY <1>1, <1>3, <1>4, AskKeeps DEF Asking

LEMMA DeleteKeeps ==
    ASSUME Inv, UNCHANGED mix, NEW q \in Requests, NEW actor \in Actors, NEW o \in Orgs, Delete(q, actor, o)
    PROVE  Inv'
BY PlainCallKeeps DEF Delete

LEMMA DeleteRoleKeeps ==
    ASSUME Inv, UNCHANGED mix, NEW q \in Requests, NEW actor \in Actors, NEW o \in Orgs, DeleteRole(q, actor, o)
    PROVE  Inv'
BY PlainCallKeeps DEF DeleteRole

LEMMA ListMembersKeeps ==
    ASSUME Inv, UNCHANGED mix, NEW q \in Requests, NEW actor \in Actors, NEW o \in Orgs, ListMembers(q, actor, o)
    PROVE  Inv'
BY PlainCallKeeps DEF ListMembers

LEMMA CreateRoleKeeps ==
    ASSUME Inv, UNCHANGED mix, NEW q \in Requests, NEW actor \in Actors, NEW o \in Orgs, NEW statements \in Declarable,
           CreateRole(q, actor, o, statements)
    PROVE  Inv'
<1>. DEFINE c == Call("createrole", "auth", o)
            m == [c EXCEPT !.actor = actor, !.granted = statements]
<1>1. Ask(q, m) /\ statements \in SUBSET Statements /\ "createrole" \in AllOps /\ actor \in Users \cup {NoUser}
  BY OrganizationsAssumption DEF CreateRole, AllOps
<1>2. c \in Local /\ c.op = "createrole" /\ c.pc = "auth" /\ c.org = o /\ c.locks = {} /\ c.there = {} /\ c.role = "none"
  BY <1>1, CallFields
<1>. HIDE DEF c
<1>3. m \in Local /\ m.op = "createrole" /\ m.pc = "auth" /\ m.org = o /\ m.locks = {} /\ m.there = {} /\ m.role = "none"
  BY <1>1, <1>2 DEF Local
<1>. HIDE DEF m
<1>4. Kept(m)
  BY <1>3 DEF Kept, Carries, Gives, MemberOps, AuthOps, AllOps, GrantOps
<1>5. Holds(m)
  BY <1>3 DEF Holds, Custom
<1>. QED  BY <1>1, <1>3, <1>4, <1>5, AskKeeps DEF Asking

LEMMA TeamCallKeeps ==
    ASSUME Inv, UNCHANGED mix, NEW q \in Requests, NEW op, NEW actor \in Actors, NEW t \in Teams, NEW u \in Users,
           TeamCall(q, op, actor, t, u)
    PROVE  Inv'
<1>. DEFINE c == Call(op, "auth", team[t].org)
            m == [c EXCEPT !.actor = actor, !.user = u, !.id = t]
<1>1. Ask(q, m) /\ team[t].st = "live" /\ op \in {"deleteteam", "join", "leave"} /\ actor \in Users \cup {NoUser}
  BY OrganizationsAssumption DEF TeamCall
<1>2. team[t].org \in Orgs /\ op \in AllOps
  BY <1>1 DEF Inv, Rows, TeamsOk, AllOps
<1>3. c \in Local /\ c.op = op /\ c.pc = "auth" /\ c.org = team[t].org /\ c.locks = {} /\ c.there = {}
  BY <1>2, CallFields
<1>. HIDE DEF c
<1>4. m \in Local /\ m.op = op /\ m.pc = "auth" /\ m.org = team[t].org /\ m.user = u /\ m.id = t
      /\ m.locks = {} /\ m.there = {}
  BY <1>1, <1>3 DEF Local
<1>. HIDE DEF m
<1>5. Kept(m) /\ Holds(m)
  BY <1>1, <1>2, <1>4 DEF Kept, Carries, Gives, MemberOps, AuthOps, AllOps, GrantOps, Holds, GivingOps
<1>. QED  BY <1>1, <1>4, <1>5, AskKeeps DEF Asking

LEMMA SetActiveSessionKeeps ==
    ASSUME Inv, UNCHANGED mix, NEW q \in Requests, NEW u \in Signed, NEW o \in Orgs, SetActiveSession(q, u, o)
    PROVE  Inv'
<1>. DEFINE c == Call("activate", "member", o)
            m == [c EXCEPT !.user = u]
<1>1. Quiet /\ req' = [req EXCEPT ![q] = m] /\ org[o] = "live" /\ u \in Users /\ "activate" \in AllOps
  BY ReadOnly, OrganizationsAssumption DEF SetActiveSession, AllOps
<1>2. c \in Local /\ c.op = "activate" /\ c.pc = "member" /\ c.org = o /\ c.locks = {} /\ c.there = {}
  BY <1>1, CallFields
<1>. HIDE DEF c
<1>3. m \in Local /\ m.op = "activate" /\ m.pc = "member" /\ m.org = o /\ m.user = u /\ m.locks = {} /\ m.there = {}
  BY <1>1, <1>2 DEF Local
<1>. HIDE DEF m
<1>4. Kept(m) /\ Holds(m)
  BY <1>1, <1>3 DEF Kept, Carries, Gives, MemberOps, GrantOps, Holds, GivingOps
<1>. QED  BY <1>1, <1>3, <1>4, QuietMoves

LEMMA ActiveMembershipKeeps == ASSUME Inv, UNCHANGED mix, NEW q \in Requests, ActiveMembership(q) PROVE Inv'
<1>1. Quiet
  BY ReadOnly DEF ActiveMembership
<1>2. req[q].op = "activate" /\ req[q].pc = "member" /\ req[q] \in Local /\ Kept(req[q]) /\ req[q].locks = {} /\ req[q].there = {}
  BY Facts, FreeOfBoth DEF ActiveMembership, At
<1>3. CASE Return(q)
  BY <1>1, <1>3, ReturnQuiet
<1>4. CASE req' = [req EXCEPT ![q].pc = "write"]
  <2>. DEFINE m == [req[q] EXCEPT !.pc = "write"]
  <2>1. req' = [req EXCEPT ![q] = m]
    BY <1>4
  <2>2. m \in Local /\ m.op = "activate" /\ m.pc = "write" /\ m.org = req[q].org /\ m.user = req[q].user
        /\ m.locks = {} /\ m.there = {}
    BY <1>2 DEF Local
  <2>. HIDE DEF m
  <2>3. Kept(m) /\ Holds(m)
    BY <1>2, <2>2 DEF Kept, Carries, Gives, MemberOps, GrantOps, Holds, GivingOps
  <2>. QED  BY <1>1, <2>1, <2>2, <2>3, QuietMoves
<1>. QED  BY <1>3, <1>4 DEF ActiveMembership

\* What a page leaves out is behind the cursor of the next one.
LEMMA ListPageKeeps == ASSUME Inv, UNCHANGED mix, NEW q \in Requests, ListPage(q) PROVE Inv'
<1>. DEFINE behind == After(req[q].org, req[q].user)
            page == FirstOf(behind, PageSize)
            m == [req[q] EXCEPT !.seen = @ \cup page, !.user = Max(page)]
<1>1. req[q].op = "list" /\ req[q].pc = "page" /\ req[q] \in Local /\ Kept(req[q]) /\ req[q].org \in Orgs /\ req[q].locks = {}
  BY Facts, FreeOfBoth DEF ListPage, At
<1>2. /\ behind \subseteq Users /\ behind \in SUBSET Nat /\ page \subseteq behind
      /\ \A u \in Users : u \in behind <=> member[req[q].org][u] # NoRow /\ u > req[q].user
  BY OrganizationsAssumption DEF After, FirstOf, Members
<1>3. \A u \in req[q].there : u \in Users /\ member[req[q].org][u] # NoRow /\ (u \in behind \/ u \in req[q].seen)
  <2>1. \A u \in req[q].there : u \in Users /\ member[req[q].org][u] # NoRow /\ (u > req[q].user \/ u \in req[q].seen)
    BY <1>1 DEF Inv, Listing, Local
  <2>. QED  BY <1>2, <2>1
<1>4. CASE page = behind /\ Return(q) /\ missed' = (missed \/ ~(req[q].there \subseteq req[q].seen \cup page))
  <2>1. missed' = missed
    BY <1>3, <1>4 DEF Inv, Rows
  <2>2. Quiet
    BY <2>1, OwnTables DEF ListPage, Quiet, rows
  <2>. QED  BY <1>4, <2>2, ReturnQuiet
<1>5. CASE page # behind /\ req' = [req EXCEPT ![q].seen = @ \cup page, ![q].user = Max(page)] /\ missed' = missed
  <2>1. Quiet
    BY <1>5, OwnTables DEF ListPage, Quiet, rows
  <2>2. Max(page) \in page /\ \A u \in behind \ page : u > Max(page)
    BY <1>2, <1>5, PageIsInitial, OrganizationsAssumption
  <2>3. req' = [req EXCEPT ![q] = m]
    BY <1>5
  <2>. HIDE DEF page, behind
  <2>4. m \in Local /\ m.op = "list" /\ m.pc = "page" /\ m.org = req[q].org /\ m.user = Max(page) /\ m.locks = {}
        /\ m.there = req[q].there /\ m.seen = req[q].seen \cup page
    BY <1>1, <1>2, <2>2 DEF Local
  <2>. HIDE DEF m
  <2>5. Kept(m) /\ Holds(m)
    BY <1>1, <2>4 DEF Kept, Carries, Gives, MemberOps, GrantOps, Holds, GivingOps
  <2>6. ListSound(m)
    BY <1>3, <2>2, <2>4 DEF ListSound
  <2>7. LocksSound(q, m)
    BY <2>4 DEF LocksSound
  <2>. QED  BY <2>1, <2>3, <2>4, <2>5, <2>6, <2>7, QuietMovesOn
<1>. QED  BY <1>4, <1>5 DEF ListPage

-----------------------------------------------------------------------------
(* Statements that write.                                                  *)

\* What a step does not write stays in order.
LEMMA RowsStay ==
    ASSUME Inv
    PROVE  /\ UNCHANGED <<org, member, founder, wielded>> => MembersOk'
           /\ UNCHANGED <<inv, org, wielded>> => InvitesOk'
           /\ UNCHANGED <<team, org, wielded>> => TeamsOk'
           /\ UNCHANGED <<custom, org, wielded>> => CustomOk'
           /\ UNCHANGED <<inv, joined>> => Unspent'
           /\ UNCHANGED <<active, org, member, late>> => ActiveOk'
           /\ UNCHANGED <<org, member, unguarded>> => OwnersOk'
           /\ UNCHANGED <<org, inv, custom, founder, wielded, unguarded>> => Forward
<1>1. UNCHANGED <<org, member, founder, wielded>> => MembersOk'
  BY DEF Inv, Rows, MembersOk, Good
<1>2. UNCHANGED <<inv, org, wielded>> => InvitesOk'
  BY DEF Inv, Rows, InvitesOk, Good
<1>3. UNCHANGED <<team, org, wielded>> => TeamsOk'
  BY DEF Inv, Rows, TeamsOk, Good
<1>4. UNCHANGED <<custom, org, wielded>> => CustomOk'
  BY DEF Inv, Rows, CustomOk
<1>5. UNCHANGED <<inv, joined>> => Unspent'
  BY DEF Inv, Rows, Unspent
<1>6. UNCHANGED <<active, org, member, late>> => ActiveOk'
  BY DEF Inv, Rows, ActiveOk
<1>7. UNCHANGED <<org, member, unguarded>> => OwnersOk'
  BY DEF Inv, Rows, OwnersOk, Guarded
<1>8. UNCHANGED <<org, inv, custom, founder, wielded, unguarded>> => Forward
  BY OwnTables DEF Forward
<1>. QED  BY <1>1, <1>2, <1>3, <1>4, <1>5, <1>6, <1>7, <1>8

LEMMA ReturnLeaves ==
    ASSUME Inv, NEW q \in Requests, Return(q)
    PROVE  /\ req' \in [Requests -> Local] /\ LeftOrOver
           /\ req'[q].locks = {} /\ req'[q].there = {}
           /\ \A p \in Requests : p # q => req'[p] = req[p]
<1>1. Idle \in Local /\ Resting(Idle) /\ req \in [Requests -> Local]
  BY IdleCall, OwnTables
<1>2. req' \in [Requests -> Local] /\ req'[q] = Idle /\ \A p \in Requests : p # q => req'[p] = req[p]
  BY <1>1 DEF Return
<1>3. LeftOrOver
  BY <1>1, <1>2 DEF LeftOrOver, Alike
<1>. QED  BY <1>1, <1>2, <1>3 DEF Resting

\* A statement that writes no membership, and ends its request.
LEMMA ReturnKeeps ==
    ASSUME Inv, Rows', Forward, NEW q \in Requests, Return(q), member' = member
    PROVE  Inv'
BY ReturnLeaves, WriteKeeps DEF LocksRespected, ListRespected

\* The same without a request.
LEMMA AloneKeeps ==
    ASSUME Inv, Rows', Forward, req' = req, member' = member
    PROVE  Inv'
<1>1. LeftOrOver
  BY DEF LeftOrOver, Alike
<1>. QED  BY <1>1, OwnTables, WriteKeeps DEF LocksRespected, ListRespected

LEMMA CreateInvitationKeeps == ASSUME Inv, UNCHANGED mix, NEW q \in Requests, CreateInvitation(q) PROVE Inv'
<1>1. /\ req[q].op = "invite" /\ req[q].pc = "write" /\ req[q].org \in Orgs /\ req[q].user \in Users
      /\ req[q].role \in RoleNames /\ Good(req[q].org, req[q].role)
  BY Facts DEF CreateInvitation, At, Kept, Carries, Gives, GrantOps
<1>2. CASE UNCHANGED inv
  <2>1. Tables'
    BY <1>2 DEF CreateInvitation, history, Inv, Rows, Tables
  <2>2. Rows' /\ Forward
    BY <1>2, <2>1, RowsStay DEF CreateInvitation, history, Inv, Rows
  <2>. QED  BY <2>2, ReturnKeeps DEF CreateInvitation
<1>3. ASSUME NEW i \in Invites, org[req[q].org] = "live", inv[i].st = "unborn",
             inv' = [inv EXCEPT ![i] = [st |-> "pending", org |-> req[q].org, user |-> req[q].user, role |-> req[q].role]]
      PROVE  Inv'
  <2>. DEFINE r == [st |-> "pending", org |-> req[q].org, user |-> req[q].user, role |-> req[q].role]
  <2>1. r \in InvRow /\ r.st = "pending" /\ r.org = req[q].org /\ r.user = req[q].user /\ r.role = req[q].role
    BY <1>1 DEF InvRow
  <2>2. inv' = [inv EXCEPT ![i] = r]
    BY <1>3
  <2>. HIDE DEF r
  <2>3. Tables'
    BY <2>1, <2>2 DEF CreateInvitation, history, Inv, Rows, Tables
  <2>4. InvitesOk'
    BY <1>1, <1>3, <2>1, <2>2, OwnTables DEF CreateInvitation, history, Inv, Rows, InvitesOk, Good
  <2>5. Unspent'
    BY <1>3, <2>1, <2>2, OwnTables DEF CreateInvitation, history, Inv, Rows, Unspent
  <2>6. Forward
    BY <1>3, <2>2, OwnTables DEF CreateInvitation, history, Forward
  <2>7. Rows'
    BY <2>3, <2>4, <2>5, RowsStay DEF CreateInvitation, history, Inv, Rows
  <2>. QED  BY <2>6, <2>7, ReturnKeeps DEF CreateInvitation
<1>. QED  BY <1>2, <1>3 DEF CreateInvitation

\* A pending invitation gets another status.
LEMMA StatusKeeps ==
    ASSUME Inv, NEW i \in Invites, NEW st \in {"revoked", "expired"}, inv[i].st = "pending",
           inv' = [inv EXCEPT ![i].st = st], UNCHANGED mix, UNCHANGED <<org, member, custom, team, active, history>>
    PROVE  Rows' /\ Forward
<1>. DEFINE r == [inv[i] EXCEPT !.st = st]
<1>1. inv[i] \in InvRow /\ inv' = [inv EXCEPT ![i] = r]
  BY OwnTables
<1>2. r \in InvRow /\ r.st = st /\ r.org = inv[i].org /\ r.user = inv[i].user /\ r.role = inv[i].role
  BY <1>1 DEF InvRow
<1>. HIDE DEF r
<1>3. Tables'
  BY <1>1, <1>2 DEF history, Inv, Rows, Tables
<1>4. InvitesOk'
  BY <1>1, <1>2, OwnTables DEF history, Inv, Rows, InvitesOk, Good
<1>5. Unspent'
  BY <1>1, <1>2, OwnTables DEF history, Inv, Rows, Unspent
<1>6. Forward
  BY <1>1, <1>2, OwnTables DEF history, Forward
<1>. QED  BY <1>3, <1>4, <1>5, <1>6, RowsStay DEF history, Inv, Rows

LEMMA ExpireInvitationKeeps ==
    ASSUME Inv, UNCHANGED mix, NEW i \in Invites, ExpireInvitation(i)
    PROVE  Inv'
<1>1. Rows' /\ Forward
  BY StatusKeeps DEF ExpireInvitation
<1>. QED  BY <1>1, AloneKeeps DEF ExpireInvitation

LEMMA SetInvitationStatusKeeps ==
    ASSUME Inv, UNCHANGED mix, NEW q \in Requests, SetInvitationStatus(q)
    PROVE  Inv'
<1>1. req[q].id \in Invites
  BY Facts DEF SetInvitationStatus, At, Kept, Carries
<1>2. CASE inv[req[q].id].st = "pending"
  <2>1. Rows' /\ Forward
    BY <1>1, <1>2, StatusKeeps DEF SetInvitationStatus
  <2>. QED  BY <2>1, ReturnKeeps DEF SetInvitationStatus
<1>3. CASE inv[req[q].id].st # "pending"
  <2>1. inv' = inv
    BY <1>3 DEF SetInvitationStatus
  <2>2. Tables'
    BY <2>1 DEF SetInvitationStatus, history, Inv, Rows, Tables
  <2>3. Rows' /\ Forward
    BY <2>1, <2>2, RowsStay DEF SetInvitationStatus, history, Inv, Rows
  <2>. QED  BY <2>3, ReturnKeeps DEF SetInvitationStatus
<1>. QED  BY <1>2, <1>3

\* One membership changes, to the row next or not at all; its owner guard was
\* asked, or the organization is remembered as one that lost an owner past it.
RowChange(q, next) ==
    /\ ~LockedByOther(q, req[q].org, req[q].user)
    /\ \A o \in Orgs : \A u \in Users :
          o # req[q].org \/ u # req[q].user => member'[o][u] = member[o][u]
    /\ member'[req[q].org][req[q].user] \in {member[req[q].org][req[q].user], next}
    /\ unguarded' = IF PastGuard(req[q].org, req[q].user, req[q], next) THEN unguarded \cup {req[q].org} ELSE unguarded
    /\ org' = org

\* An owner that the guard counted stays, because its row is locked; and no lock
\* of another request is on the row that changes.
LEMMA OwnerStays ==
    ASSUME Inv, NEW q \in Requests, req[q].org \in Orgs, req[q].user \in Users, NEW next, RowChange(q, next)
    PROVE  /\ OwnersOk' /\ unguarded' \subseteq Orgs /\ unguarded \subseteq unguarded'
           /\ \A p \in Requests \ {q} : \A u \in req[p].locks : member'[req[p].org][u] = member[req[p].org][u]
<1>1. unguarded' \subseteq Orgs /\ unguarded \subseteq unguarded'
  BY OwnTables DEF RowChange
<1>2. ASSUME NEW p \in Requests \ {q}, NEW u \in req[p].locks
      PROVE  member'[req[p].org][u] = member[req[p].org][u]
  <2>1. req[p].org \in Orgs /\ u \in Users
    BY Facts DEF Local, MemberOps
  <2>2. req[p].org # req[q].org \/ u # req[q].user
    BY DEF RowChange, LockedByOther
  <2>. QED  BY <2>1, <2>2 DEF RowChange
<1>3. ASSUME NEW o \in Orgs, org'[o] = "live", o \notin unguarded'
      PROVE  \E u \in Users : member'[o][u] = OwnerRow
  <2>1. Guarded(o)
    BY <1>1, <1>3 DEF RowChange, Guarded
  <2>2. PICK w \in Users : member[o][w] = OwnerRow
    BY <2>1 DEF Inv, Rows, OwnersOk
  <2>3. CASE o # req[q].org \/ w # req[q].user \/ next = OwnerRow
    BY <2>2, <2>3 DEF RowChange
  <2>4. CASE o = req[q].org /\ w = req[q].user /\ next # OwnerRow
    <3>1. req[q].locks # {}
      BY <1>3, <2>2, <2>4 DEF RowChange, PastGuard
    <3>2. PICK v \in req[q].locks : v # req[q].user /\ member[o][v] = OwnerRow
      BY <2>1, <2>4, <3>1 DEF Inv, Locking
    <3>3. v \in Users
      BY Facts DEF Local
    <3>. QED  BY <3>2, <3>3 DEF RowChange
  <2>. QED  BY <2>3, <2>4
<1>4. OwnersOk'
  BY <1>3 DEF OwnersOk, Guarded
<1>. QED  BY <1>1, <1>2, <1>4

\* The row that setrole, suspend and restore write is one that was given.
LEMMA TargetGiven ==
    ASSUME Inv, NEW q \in Requests, req[q].op \in {"setrole", "suspend", "restore"}, req[q].pc = "write"
    PROVE  LET next == Target(req[q]) IN
           /\ next \in MemberRow /\ next.status # "none" /\ next.role \in RoleNames
           /\ req[q].user \notin founder[req[q].org] => Good(req[q].org, next.role)
<1>1. req[q].row \in MemberRow /\ req[q].row.status # "none" /\ req[q].row.role \in RoleNames
      /\ (req[q].user \notin founder[req[q].org] => Good(req[q].org, req[q].row.role))
  BY Facts DEF Local, Kept, Carries, Gives, MemberOps
<1>2. CASE req[q].op = "setrole"
  <2>1. req[q].role \in RoleNames /\ Good(req[q].org, req[q].role)
    BY <1>2, Facts DEF Kept, Carries, Gives, GrantOps
  <2>2. Target(req[q]) = [req[q].row EXCEPT !.role = req[q].role]
    BY <1>2 DEF Target
  <2>. QED  BY <1>1, <2>1, <2>2 DEF MemberRow
<1>3. CASE req[q].op = "suspend"
  <2>1. Target(req[q]) = [req[q].row EXCEPT !.status = "suspended"]
    BY <1>3 DEF Target
  <2>. QED  BY <1>1, <2>1 DEF MemberRow
<1>4. CASE req[q].op = "restore"
  <2>1. Target(req[q]) = [req[q].row EXCEPT !.status = "active"]
    BY <1>4 DEF Target
  <2>. QED  BY <1>1, <2>1 DEF MemberRow
<1>. QED  BY <1>2, <1>3, <1>4

LEMMA UpdateMembershipKeeps == ASSUME Inv, UNCHANGED mix, NEW q \in Requests, UpdateMembership(q) PROVE Inv'
<1>. DEFINE next == Target(req[q])
            there == member[req[q].org][req[q].user] # NoRow
<1>1. req[q].op \in {"setrole", "suspend", "restore"} /\ req[q].pc = "write" /\ req[q].org \in Orgs /\ req[q].user \in Users
  BY Facts DEF UpdateMembership, Kept, Carries, MemberOps
<1>2. next \in MemberRow /\ next.status # "none" /\ next.role \in RoleNames
      /\ (req[q].user \notin founder[req[q].org] => Good(req[q].org, next.role))
  BY <1>1, TargetGiven DEF UpdateMembership
<1>3. /\ ~LockedByOther(q, req[q].org, req[q].user)
      /\ member' = IF there THEN [member EXCEPT ![req[q].org][req[q].user] = next] ELSE member
      /\ unguarded' = IF PastGuard(req[q].org, req[q].user, req[q], next) THEN unguarded \cup {req[q].org} ELSE unguarded
      /\ Return(q)
      /\ UNCHANGED <<mix, org, inv, custom, team, active, founder, wielded, joined, late, missed>>
  BY DEF UpdateMembership
<1>. HIDE DEF next
<1>4. /\ member' \in [Orgs -> [Users -> MemberRow]]
      /\ \A o \in Orgs : \A u \in Users : o # req[q].org \/ u # req[q].user => member'[o][u] = member[o][u]
      /\ member'[req[q].org][req[q].user] = IF there THEN next ELSE NoRow
  BY <1>1, <1>2, <1>3, OwnTables
<1>5. RowChange(q, next)
  BY <1>3, <1>4 DEF RowChange
<1>6. /\ OwnersOk' /\ unguarded' \subseteq Orgs /\ unguarded \subseteq unguarded'
      /\ \A p \in Requests \ {q} : \A u \in req[p].locks : member'[req[p].org][u] = member[req[p].org][u]
  BY <1>1, <1>5, OwnerStays
<1>7. next # NoRow /\ \A o \in Orgs : \A u \in Users : member[o][u] # NoRow <=> member'[o][u] # NoRow
  BY <1>2, <1>4 DEF NoRow
<1>8. Tables'
  BY <1>3, <1>4, <1>6 DEF Inv, Rows, Tables
<1>9. MembersOk'
  <2>. SUFFICES ASSUME NEW o \in Orgs, NEW u \in Users, member'[o][u] # NoRow
                PROVE  /\ member'[o][u].status # "none" /\ member'[o][u].role \in RoleNames /\ org[o] = "live"
                       /\ u \notin founder[o] => Good(o, member'[o][u].role)
    BY <1>3 DEF MembersOk, Good
  <2>1. member[o][u] # NoRow
    BY <1>7
  <2>2. /\ member[o][u].status # "none" /\ member[o][u].role \in RoleNames /\ org[o] = "live"
        /\ u \notin founder[o] => Good(o, member[o][u].role)
    BY <2>1 DEF Inv, Rows, MembersOk
  <2>3. CASE o = req[q].org /\ u = req[q].user
    BY <1>2, <1>4, <2>1, <2>2, <2>3
  <2>4. CASE ~(o = req[q].org /\ u = req[q].user)
    BY <1>4, <2>2, <2>4
  <2>. QED  BY <2>3, <2>4
<1>10. ActiveOk'
  <2>1. \A u \in Users : active[u] # "none" => active[u] \in Orgs
    BY OwnTables
  <2>. QED  BY <1>3, <1>7, <2>1 DEF Inv, Rows, ActiveOk
<1>11. Rows'
  BY <1>3, <1>6, <1>8, <1>9, <1>10, RowsStay DEF Inv, Rows
<1>12. Forward
  BY <1>3, <1>6, OwnTables DEF Forward
<1>13. LocksRespected
  BY <1>3, <1>6, ReturnLeaves DEF LocksRespected
<1>14. ListRespected
  <2>1. ASSUME NEW p \in Requests, NEW u \in req'[p].there PROVE p # q /\ req[p].org \in Orgs /\ u \in Users
    <3>1. p # q /\ u \in req[p].there
      BY <1>3, <2>1, ReturnLeaves
    <3>2. req[p].pc = "page"
      BY <3>1 DEF Inv, Listing
    <3>. QED  BY <3>1, <3>2, Facts DEF Local
  <2>. QED  BY <1>7, <2>1 DEF ListRespected
<1>. QED  BY <1>3, <1>11, <1>12, <1>13, <1>14, ReturnLeaves, WriteKeeps

\* The request is over, and no list has to return the members U of o.
Unlists(q, o, U) == req' = Unlisted([req EXCEPT ![q] = Idle], o, U)

LEMMA UnlistedLeaves ==
    ASSUME Inv, NEW q \in Requests, NEW o \in Orgs, NEW U, Unlists(q, o, U)
    PROVE  /\ req' \in [Requests -> Local] /\ LeftOrOver
           /\ req'[q].locks = {} /\ req'[q].there = {}
           /\ \A p \in Requests : req'[p].there \subseteq req[p].there /\ (req[p].org = o => \A u \in U : u \notin req'[p].there)
           /\ \A p \in Requests : p # q => req'[p].locks = req[p].locks
<1>1. Idle \in Local /\ Resting(Idle) /\ Idle.org = "none" /\ o # "none"
  BY IdleCall, OrganizationsAssumption
<1>2. req'[q] = Idle
  BY <1>1, OwnTables DEF Unlists, Unlisted
<1>3. ASSUME NEW p \in Requests, p # q
      PROVE  /\ req'[p] \in Local /\ Alike(req[p], req'[p]) /\ (req[p].org = o => \A u \in U : u \notin req'[p].there)
  <2>. DEFINE r == [req[p] EXCEPT !.there = @ \ U]
  <2>1. req[p] \in Local /\ req'[p] = IF req[p].org = o THEN r ELSE req[p]
    BY <1>3, OwnTables DEF Unlists, Unlisted
  <2>2. r \in Local /\ Alike(req[p], r) /\ r.there \cap U = {}
    BY <2>1 DEF Local, Alike
  <2>3. Alike(req[p], req[p])
    BY DEF Alike
  <2>. HIDE DEF r
  <2>. QED  BY <2>1, <2>2, <2>3
<1>4. req' = [p \in Requests |-> req'[p]]
  BY DEF Unlists, Unlisted
<1>5. req' \in [Requests -> Local]
  <2>1. \A p \in Requests : req'[p] \in Local
    BY <1>1, <1>2, <1>3
  <2>. QED  BY <1>4, <2>1
<1>6. LeftOrOver
  BY <1>1, <1>2, <1>3 DEF LeftOrOver
<1>7. \A p \in Requests : req'[p].there \subseteq req[p].there /\ (req[p].org = o => \A u \in U : u \notin req'[p].there)
  <2>1. ASSUME NEW p \in Requests
        PROVE  req'[p].there \subseteq req[p].there /\ (req[p].org = o => \A u \in U : u \notin req'[p].there)
    <3>1. CASE p = q
      BY <1>1, <1>2, <3>1 DEF Resting
    <3>2. CASE p # q
      BY <1>3, <3>2 DEF Alike
    <3>. QED  BY <3>1, <3>2
  <2>. QED  BY <2>1
<1>8. \A p \in Requests : p # q => req'[p].locks = req[p].locks
  BY <1>3 DEF Alike
<1>. QED  BY <1>1, <1>2, <1>5, <1>6, <1>7, <1>8 DEF Resting

\* Who is on a list that is being read.
LEMMA ListedHere ==
    ASSUME Inv, NEW p \in Requests, NEW u \in req[p].there
    PROVE  req[p].org \in Orgs /\ u \in Users /\ member[req[p].org][u] # NoRow
<1>1. req[p].pc = "page" /\ member[req[p].org][u] # NoRow
  BY DEF Inv, Listing
<1>. QED  BY <1>1, Facts DEF Local

LEMMA DeleteMembershipKeeps == ASSUME Inv, UNCHANGED mix, NEW q \in Requests, DeleteMembership(q) PROVE Inv'
<1>. DEFINE o == req[q].org
            u == req[q].user
<1>1. o \in Orgs /\ u \in Users
  BY Facts DEF DeleteMembership, At, Kept, Carries, MemberOps
<1>2. /\ ~LockedByOther(q, o, u)
      /\ \/ member[o][u] = NoRow /\ UNCHANGED <<member, active>>
         \/ /\ member' = [member EXCEPT ![o][u] = NoRow]
            /\ active' = [active EXCEPT ![u] = IF @ = o THEN "none" ELSE @]
      /\ unguarded' = IF PastGuard(o, u, req[q], NoRow) THEN unguarded \cup {o} ELSE unguarded
      /\ Unlists(q, o, {u})
      /\ UNCHANGED <<mix, org, inv, custom, team, founder, wielded, joined, late, missed>>
  BY DEF DeleteMembership, Unlists
<1>. HIDE DEF o, u
<1>3. /\ member' \in [Orgs -> [Users -> MemberRow]]
      /\ \A x \in Orgs : \A v \in Users : x # o \/ v # u => member'[x][v] = member[x][v]
      /\ member'[o][u] = NoRow
  <2>1. NoRow \in MemberRow
    BY DEF NoRow, MemberRow
  <2>2. CASE member[o][u] = NoRow /\ member' = member
    BY <1>1, <2>2, OwnTables
  <2>3. CASE member' = [member EXCEPT ![o][u] = NoRow]
    BY <1>1, <2>1, <2>3, OwnTables
  <2>. QED  BY <1>2, <2>2, <2>3
<1>4. /\ active' \in [Users -> Orgs \cup {"none"}]
      /\ \A v \in Users : active'[v] # "none" => active'[v] = active[v] /\ (v = u => active[v] # o \/ member[o][u] = NoRow)
  BY <1>1, <1>2, OwnTables
<1>5. RowChange(q, NoRow)
  BY <1>2, <1>3 DEF RowChange, o, u
<1>6. /\ OwnersOk' /\ unguarded' \subseteq Orgs /\ unguarded \subseteq unguarded'
      /\ \A p \in Requests \ {q} : \A v \in req[p].locks : member'[req[p].org][v] = member[req[p].org][v]
  BY <1>1, <1>5, OwnerStays DEF o, u
<1>7. Tables'
  BY <1>2, <1>3, <1>4, <1>6 DEF Inv, Rows, Tables
<1>8. MembersOk'
  <2>. SUFFICES ASSUME NEW x \in Orgs, NEW v \in Users, member'[x][v] # NoRow
                PROVE  /\ member'[x][v].status # "none" /\ member'[x][v].role \in RoleNames /\ org[x] = "live"
                       /\ v \notin founder[x] => Good(x, member'[x][v].role)
    BY <1>2 DEF MembersOk, Good
  <2>1. member'[x][v] = member[x][v]
    BY <1>3
  <2>. QED  BY <2>1 DEF Inv, Rows, MembersOk
<1>9. ActiveOk'
  <2>. SUFFICES ASSUME NEW v \in Users, active'[v] # "none"
                PROVE  /\ org[active'[v]] # "unborn"
                       /\ org[active'[v]] = "live" /\ v \notin late => member'[active'[v]][v] # NoRow
    BY <1>2 DEF ActiveOk
  <2>1. active'[v] = active[v] /\ active[v] \in Orgs
    BY <1>4
  <2>2. /\ org[active[v]] # "unborn"
        /\ org[active[v]] = "live" /\ v \notin late => member[active[v]][v] # NoRow
    BY <2>1 DEF Inv, Rows, ActiveOk
  <2>3. CASE v = u /\ active[v] = o
    BY <1>4, <2>1, <2>2, <2>3
  <2>4. CASE ~(v = u /\ active[v] = o)
    BY <1>3, <2>1, <2>2, <2>4
  <2>. QED  BY <2>3, <2>4
<1>10. Rows'
  BY <1>2, <1>6, <1>7, <1>8, <1>9, RowsStay DEF Inv, Rows
<1>11. Forward
  BY <1>2, <1>6, OwnTables DEF Forward
<1>12. LocksRespected
  <2>1. req'[q].locks = {}
    BY <1>1, <1>2, UnlistedLeaves
  <2>. QED  BY <1>6, <2>1 DEF LocksRespected
<1>13. ListRespected
  <2>0. \A p \in Requests : req'[p].there \subseteq req[p].there /\ (req[p].org = o => u \notin req'[p].there)
    BY <1>1, <1>2, UnlistedLeaves
  <2>1. ASSUME NEW p \in Requests, NEW v \in req'[p].there
        PROVE  member'[req[p].org][v] # NoRow
    <3>1. v \in req[p].there /\ ~(req[p].org = o /\ v = u)
      BY <2>0, <2>1
    <3>2. req[p].org \in Orgs /\ v \in Users /\ member[req[p].org][v] # NoRow
      BY <3>1, ListedHere
    <3>. QED  BY <1>3, <3>1, <3>2
  <2>. QED  BY <2>1 DEF ListRespected
<1>. QED  BY <1>1, <1>2, <1>10, <1>11, <1>12, <1>13, UnlistedLeaves, WriteKeeps

\* One member per invitation, and only from a pending one.
LEMMA ConsumeInvitationKeeps == ASSUME Inv, UNCHANGED mix, NEW q \in Requests, ConsumeInvitation(q) PROVE Inv'
<1>. DEFINE o == req[q].org
            u == req[q].user
            i == req[q].id
<1>1. o \in Orgs /\ u \in Users /\ i \in Invites /\ inv[i].org \in {o, "none"}
  BY Facts DEF ConsumeInvitation, At, Kept, Carries
<1>2. /\ Return(q)
      /\ UNCHANGED <<mix, org, custom, team, active, unguarded, founder, wielded, late, missed>>
  BY DEF ConsumeInvitation
<1>3. CASE UNCHANGED <<inv, member, joined>>
  <2>1. Tables'
    BY <1>2, <1>3 DEF Inv, Rows, Tables
  <2>2. Rows' /\ Forward
    BY <1>2, <1>3, <2>1, RowsStay DEF Inv, Rows
  <2>. QED  BY <1>2, <1>3, <2>2, ReturnKeeps
<1>4. CASE /\ inv[i].st = "pending" /\ member[o][u] = NoRow
           /\ inv' = [inv EXCEPT ![i].st = "accepted"]
           /\ member' = [member EXCEPT ![o][u] = [role |-> inv[i].role, status |-> "active"]]
           /\ joined' = [joined EXCEPT ![i] = @ + 1]
  <2>. DEFINE r == [inv[i] EXCEPT !.st = "accepted"]
              row == [role |-> inv[i].role, status |-> "active"]
  <2>. HIDE DEF o, u, i
  <2>1. inv[i].org = o /\ org[o] = "live" /\ inv[i].role \in RoleNames /\ Good(o, inv[i].role) /\ inv[i] \in InvRow
    <3>1. inv[i].org \in Orgs /\ org[inv[i].org] = "live" /\ inv[i].role \in RoleNames /\ Good(inv[i].org, inv[i].role)
      BY <1>1, <1>4 DEF Inv, Rows, InvitesOk
    <3>2. inv[i].org = o
      BY <1>1, <3>1, OrganizationsAssumption
    <3>3. inv[i] \in InvRow
      BY <1>1, OwnTables
    <3>. QED  BY <3>1, <3>2, <3>3
  <2>2. inv' = [inv EXCEPT ![i] = r] /\ member' = [member EXCEPT ![o][u] = row]
    BY <1>4
  <2>3. r \in InvRow /\ r.st = "accepted" /\ r.org = inv[i].org /\ r.user = inv[i].user /\ r.role = inv[i].role
    BY <2>1 DEF InvRow
  <2>4. row \in MemberRow /\ row.role = inv[i].role /\ row.status = "active" /\ row # NoRow
    BY <2>1 DEF MemberRow, NoRow
  <2>. HIDE DEF r, row
  <2>5. /\ member' \in [Orgs -> [Users -> MemberRow]] /\ member'[o][u] = row
        /\ \A x \in Orgs : \A v \in Users : x # o \/ v # u => member'[x][v] = member[x][v]
    BY <1>1, <2>2, <2>4, OwnTables
  <2>6. \A x \in Orgs : \A v \in Users : member[x][v] # NoRow => member'[x][v] = member[x][v]
    BY <1>4, <2>5
  <2>7. Tables'
    <3>1. joined' \in [Invites -> Nat] /\ inv' \in [Invites -> InvRow]
      <4>1. joined \in [Invites -> Nat] /\ joined' = [joined EXCEPT ![i] = @ + 1]
        BY <1>4, OwnTables
      <4>2. joined' \in [Invites -> Nat]
        BY <1>1, <4>1
      <4>3. inv \in [Invites -> InvRow]
        BY OwnTables
      <4>. QED  BY <1>1, <2>2, <2>3, <4>2, <4>3
    <3>. QED  BY <1>2, <2>5, <3>1 DEF Inv, Rows, Tables
  <2>8. InvitesOk'
    <3>1. inv'[i] = r /\ \A x \in Invites : x # i => inv'[x] = inv[x]
      BY <1>1, <2>2, OwnTables
    <3>2. \A x \in Invites :
             /\ inv[x].st \in {"unborn", "gone"} => inv[x].org = "none"
             /\ inv[x].st \notin {"unborn", "gone"} =>
                   /\ inv[x].org \in Orgs /\ org[inv[x].org] = "live" /\ inv[x].user \in Users
                   /\ inv[x].role \in RoleNames /\ Good(inv[x].org, inv[x].role)
      BY DEF Inv, Rows, InvitesOk
    <3>3. /\ r.st = "accepted" /\ r.org \in Orgs /\ org'[r.org] = "live" /\ r.user \in Users
          /\ r.role \in RoleNames /\ Good(r.org, r.role)
      BY <1>1, <1>2, <1>4, <2>1, <2>3, <3>2
    <3>4. ASSUME NEW x \in Invites
          PROVE  /\ inv'[x].st \in {"unborn", "gone"} => inv'[x].org = "none"
                 /\ inv'[x].st \notin {"unborn", "gone"} =>
                       /\ inv'[x].org \in Orgs /\ org'[inv'[x].org] = "live" /\ inv'[x].user \in Users
                       /\ inv'[x].role \in RoleNames /\ Good(inv'[x].org, inv'[x].role)
      <4>1. CASE x = i
        BY <3>1, <3>3, <4>1
      <4>2. CASE x # i
        BY <1>2, <3>1, <3>2, <4>2
      <4>. QED  BY <4>1, <4>2
    <3>. QED  BY <1>2, <3>4 DEF InvitesOk, Good
  <2>9. Unspent'
    <3>1. joined[i] = 0
      BY <1>1, <1>4 DEF Inv, Rows, Unspent
    <3>2. inv'[i].st = "accepted" /\ joined'[i] = 1
          /\ \A x \in Invites : x # i => inv'[x] = inv[x] /\ joined'[x] = joined[x]
      BY <1>1, <1>4, <2>2, <2>3, <3>1, OwnTables
    <3>. QED  BY <3>2 DEF Inv, Rows, Unspent
  <2>10. MembersOk'
    <3>. SUFFICES ASSUME NEW x \in Orgs, NEW v \in Users, member'[x][v] # NoRow
                  PROVE  /\ member'[x][v].status # "none" /\ member'[x][v].role \in RoleNames /\ org[x] = "live"
                         /\ v \notin founder[x] => Good(x, member'[x][v].role)
      BY <1>2 DEF MembersOk, Good
    <3>1. CASE x = o /\ v = u
      BY <2>1, <2>4, <2>5, <3>1
    <3>2. CASE ~(x = o /\ v = u)
      <4>1. member'[x][v] = member[x][v]
        BY <2>5, <3>2
      <4>. QED  BY <4>1 DEF Inv, Rows, MembersOk
    <3>. QED  BY <3>1, <3>2
  <2>11. ActiveOk'
    <3>1. \A v \in Users : active[v] # "none" => active[v] \in Orgs
      BY OwnTables
    <3>. QED  BY <1>2, <2>6, <3>1 DEF Inv, Rows, ActiveOk
  <2>12. OwnersOk'
    <3>1. OwnerRow # NoRow
      BY DEF OwnerRow, NoRow
    <3>. QED  BY <1>2, <2>6, <3>1 DEF Inv, Rows, OwnersOk, Guarded
  <2>13. Rows'
    BY <1>2, <2>7, <2>8, <2>9, <2>10, <2>11, <2>12, RowsStay DEF Inv, Rows
  <2>14. Forward
    BY <1>1, <1>2, <2>2, <2>3, OwnTables DEF Forward
  <2>15. LocksRespected
    <3>1. ASSUME NEW p \in Requests, req'[p].locks # {}, NEW v \in req[p].locks
          PROVE  req[p].org \in Orgs /\ v \in Users
      <4>1. req[p].locks # {}
        OBVIOUS
      <4>. QED  BY <4>1, Facts DEF Local, MemberOps
    <3>2. OwnerRow # NoRow
      BY DEF OwnerRow, NoRow
    <3>. QED  BY <2>6, <3>1, <3>2 DEF LocksRespected
  <2>16. ListRespected
    <3>1. ASSUME NEW p \in Requests, NEW v \in req'[p].there PROVE req[p].org \in Orgs /\ v \in Users
      <4>1. v \in req[p].there
        BY <1>2, <3>1, ReturnLeaves
      <4>. QED  BY <4>1, ListedHere
    <3>. QED  BY <2>6, <3>1 DEF ListRespected
  <2>. QED  BY <1>2, <2>13, <2>14, <2>15, <2>16, ReturnLeaves, WriteKeeps
<1>. QED  BY <1>3, <1>4 DEF ConsumeInvitation

\* Who read the role that is made anew is marked, and carries on otherwise.
LEMMA CreateCustomRoleKeeps == ASSUME Inv, UNCHANGED mix, NEW q \in Requests, CreateCustomRole(q) PROVE Inv'
<1>. DEFINE o == req[q].org
            fits == org[o] = "live" /\ custom[o] = {}
            free == [req EXCEPT ![q] = Idle]
<1>1. o \in Orgs /\ req[q].granted \subseteq Statements /\ Reach(req[q].granted) \subseteq wielded[o]
  BY Facts DEF CreateCustomRole, At, Kept, Gives, Local
<1>2. /\ custom' = IF fits THEN [custom EXCEPT ![o] = req[q].granted] ELSE custom
      /\ req' = IF fits THEN Stale(free, o) ELSE free
      /\ UNCHANGED <<mix, org, member, inv, team, active, history>>
  BY DEF CreateCustomRole
<1>3. CASE ~fits
  <2>1. Return(q) /\ UNCHANGED <<rows, history>>
    BY <1>2, <1>3 DEF Return, rows
  <2>. QED  BY <2>1, ReadOnly, ReturnQuiet
<1>4. CASE fits
  <2>1. custom' = [custom EXCEPT ![o] = req[q].granted] /\ req' = Stale(free, o)
    BY <1>2, <1>4
  <2>2. org[o] = "live"
    BY <1>4
  <2>. HIDE DEF o, fits
  <2>3. custom' \in [Orgs -> SUBSET Statements] /\ \A x \in Orgs : x # o => custom'[x] = custom[x]
    BY <1>1, <2>1, OwnTables
  <2>4. Tables'
    BY <1>2, <2>3 DEF history, Inv, Rows, Tables
  <2>5. CustomOk'
    BY <1>1, <1>2, <2>1, <2>2, OwnTables DEF history, Inv, Rows, CustomOk
  <2>6. Rows'
    BY <1>2, <2>4, <2>5, RowsStay DEF history, Inv, Rows
  <2>7. free \in [Requests -> Local] /\ free[q] = Idle /\ (\A p \in Requests : p # q => free[p] = req[p])
        /\ Idle \in Local /\ Resting(Idle)
    BY IdleCall, OwnTables
  <2>. HIDE DEF free
  <2>8. ASSUME NEW p \in Requests
        PROVE  /\ req'[p] \in Local /\ Alike(free[p], req'[p])
               /\ req'[p].org = o /\ req'[p].op \in GivingOps /\ (req'[p].role = Custom \/ req'[p].pc = "permit") => req'[p].remade
    <3>. DEFINE f == free[p]
    <3>1. f \in Local
      BY <2>7
    <3>2. req'[p] = IF f.org = o /\ f.op \in GivingOps /\ (f.role = Custom \/ f.pc = "permit") THEN [f EXCEPT !.remade = TRUE] ELSE f
      BY <2>1 DEF Stale
    <3>. HIDE DEF f
    <3>3. CASE f.org = o /\ f.op \in GivingOps /\ (f.role = Custom \/ f.pc = "permit")
      <4>1. req'[p] = [f EXCEPT !.remade = TRUE]
        BY <3>2, <3>3
      <4>2. req'[p] \in Local /\ req'[p].remade
        BY <3>1, <4>1 DEF Local
      <4>3. Alike(f, req'[p])
        BY <3>1, <4>1 DEF Local, Alike
      <4>. QED  BY <4>2, <4>3 DEF f
    <3>4. CASE ~(f.org = o /\ f.op \in GivingOps /\ (f.role = Custom \/ f.pc = "permit"))
      <4>1. req'[p] = f
        BY <3>2, <3>4
      <4>. QED  BY <3>1, <3>4, <4>1 DEF Alike, f
    <3>. QED  BY <3>3, <3>4
  <2>9. req' \in [Requests -> Local]
    <3>1. req' = [p \in Requests |-> req'[p]]
      BY <2>1 DEF Stale
    <3>. QED  BY <2>8, <3>1
  <2>10. LeftOrOver
    <3>1. Resting(req'[q])
      BY <2>7, <2>8 DEF Alike, Resting
    <3>. QED  BY <2>7, <2>8, <3>1 DEF LeftOrOver
  <2>11. Forward
    <3>1. Anew(o)
      BY <2>8 DEF Anew
    <3>. QED  BY <1>2, <2>3, <3>1, OwnTables DEF history, Forward
  <2>. QED  BY <1>2, <2>6, <2>9, <2>10, <2>11, WriteKeeps DEF LocksRespected, ListRespected
<1>. QED  BY <1>3, <1>4

LEMMA DeleteCustomRoleKeeps == ASSUME Inv, UNCHANGED mix, NEW q \in Requests, DeleteCustomRole(q) PROVE Inv'
<1>1. req[q].org \in Orgs
  BY Facts DEF DeleteCustomRole, At
<1>2. custom' = [custom EXCEPT ![req[q].org] = {}]
      /\ Return(q) /\ UNCHANGED <<mix, org, member, inv, team, active, history>>
  BY DEF DeleteCustomRole
<1>3. custom' \in [Orgs -> SUBSET Statements]
  BY <1>1, <1>2, OwnTables
<1>4. Tables'
  BY <1>2, <1>3 DEF history, Inv, Rows, Tables
<1>5. CustomOk'
  BY <1>1, <1>2, OwnTables, ReachOfNothing DEF history, Inv, Rows, CustomOk
<1>6. Rows'
  BY <1>2, <1>4, <1>5, RowsStay DEF history, Inv, Rows
<1>7. Forward
  <2>1. \A x \in Orgs : custom'[x] \subseteq custom[x]
    BY <1>1, <1>2, OwnTables
  <2>. QED  BY <1>2, <2>1, OwnTables DEF history, Forward
<1>. QED  BY <1>2, <1>6, <1>7, ReturnKeeps

\* A step that writes nothing but teams.
LEMMA TeamWriteKeeps ==
    ASSUME Inv, NEW q \in Requests, Return(q), UNCHANGED <<mix, org, member, inv, custom, active, history>>,
           team' \in [Teams -> TeamRow], TeamsOk'
    PROVE  Inv'
<1>1. Tables'
  BY DEF history, Inv, Rows, Tables
<1>2. Rows' /\ Forward
  BY <1>1, RowsStay DEF history, Inv, Rows
<1>. QED  BY <1>2, ReturnKeeps

LEMMA InsertTeamKeeps == ASSUME Inv, UNCHANGED mix, NEW q \in Requests, InsertTeam(q) PROVE Inv'
<1>1. req[q].org \in Orgs /\ req[q].role \in RoleNames \cup {"none"} /\ Good(req[q].org, req[q].role)
  BY Facts DEF InsertTeam, At, Kept, Gives, GrantOps, Local
<1>2. Return(q) /\ UNCHANGED <<mix, org, member, inv, custom, active, history>>
  BY DEF InsertTeam
<1>3. CASE UNCHANGED team
  <2>1. team' \in [Teams -> TeamRow] /\ TeamsOk'
    BY <1>2, <1>3, OwnTables, RowsStay DEF history
  <2>. QED  BY <1>2, <2>1, TeamWriteKeeps
<1>4. ASSUME NEW t \in Teams, org[req[q].org] = "live",
             team' = [team EXCEPT ![t] = [st |-> "live", org |-> req[q].org, role |-> req[q].role, users |-> {}]]
      PROVE  Inv'
  <2>. DEFINE r == [st |-> "live", org |-> req[q].org, role |-> req[q].role, users |-> {}]
  <2>1. r \in TeamRow /\ r.st = "live" /\ r.org = req[q].org /\ r.role = req[q].role
    BY <1>1 DEF TeamRow
  <2>2. team' = [team EXCEPT ![t] = r]
    BY <1>4
  <2>. HIDE DEF r
  <2>3. team' \in [Teams -> TeamRow]
    BY <2>1, <2>2, OwnTables
  <2>4. TeamsOk'
    BY <1>1, <1>2, <1>4, <2>1, <2>2, OwnTables DEF history, Inv, Rows, TeamsOk, Good
  <2>. QED  BY <1>2, <2>3, <2>4, TeamWriteKeeps
<1>. QED  BY <1>3, <1>4 DEF InsertTeam

LEMMA DeleteTeamKeeps == ASSUME Inv, UNCHANGED mix, NEW q \in Requests, DeleteTeam(q) PROVE Inv'
<1>. DEFINE r == [st |-> "gone", org |-> "none", role |-> "none", users |-> {}]
<1>1. req[q].id \in Teams
  BY Facts DEF DeleteTeam, At, Kept, Carries
<1>2. Return(q) /\ UNCHANGED <<mix, org, member, inv, custom, active, history>> /\ team' = [team EXCEPT ![req[q].id] = r]
  BY DEF DeleteTeam
<1>3. r \in TeamRow /\ r.st = "gone" /\ r.org = "none"
  BY DEF TeamRow
<1>. HIDE DEF r
<1>4. team' \in [Teams -> TeamRow]
  BY <1>1, <1>2, <1>3, OwnTables
<1>5. TeamsOk'
  BY <1>1, <1>2, <1>3, OwnTables DEF history, Inv, Rows, TeamsOk, Good
<1>. QED  BY <1>2, <1>4, <1>5, TeamWriteKeeps

LEMMA ChangeTeamMembersKeeps == ASSUME Inv, UNCHANGED mix, NEW q \in Requests, ChangeTeamMembers(q) PROVE Inv'
<1>. DEFINE users == IF req[q].op = "join" THEN team[req[q].id].users \cup {req[q].user}
                                           ELSE team[req[q].id].users \ {req[q].user}
            r == [team[req[q].id] EXCEPT !.users = users]
<1>1. req[q].id \in Teams /\ req[q].user \in Users
  BY Facts DEF ChangeTeamMembers, Kept, Carries
<1>2. Return(q) /\ UNCHANGED <<mix, org, member, inv, custom, active, history>>
      /\ (team' = team \/ team' = [team EXCEPT ![req[q].id] = r])
  BY DEF ChangeTeamMembers
<1>3. team[req[q].id] \in TeamRow /\ users \subseteq Users
  BY <1>1, OwnTables DEF TeamRow
<1>. HIDE DEF users
<1>4. r \in TeamRow /\ r.st = team[req[q].id].st /\ r.org = team[req[q].id].org /\ r.role = team[req[q].id].role
  BY <1>3 DEF TeamRow
<1>. HIDE DEF r
<1>5. team' \in [Teams -> TeamRow]
  BY <1>1, <1>2, <1>4, OwnTables
<1>6. TeamsOk'
  <2>1. \A t \in Teams : team'[t].st = team[t].st /\ team'[t].org = team[t].org /\ team'[t].role = team[t].role
    BY <1>1, <1>2, <1>4, OwnTables
  <2>. QED  BY <1>2, <2>1 DEF history, Inv, Rows, TeamsOk, Good
<1>. QED  BY <1>2, <1>5, <1>6, TeamWriteKeeps

\* Whose session was switched after the user had left is in late.
LEMMA SetActiveOrganizationKeeps ==
    ASSUME Inv, UNCHANGED mix, NEW q \in Requests, SetActiveOrganization(q)
    PROVE  Inv'
<1>. DEFINE o == req[q].org
            u == req[q].user
<1>1. o \in Orgs /\ u \in Users /\ org[o] # "unborn"
  BY Facts DEF SetActiveOrganization, At, Kept, Carries
<1>2. /\ active' = [active EXCEPT ![u] = o]
      /\ late' = IF member[o][u] = NoRow THEN late \cup {u} ELSE late
      /\ Return(q)
      /\ UNCHANGED <<mix, org, member, inv, custom, team, unguarded, founder, wielded, joined, missed>>
  BY DEF SetActiveOrganization
<1>. HIDE DEF o, u
<1>3. active' \in [Users -> Orgs \cup {"none"}] /\ late' \subseteq Users /\ late \subseteq late'
  BY <1>1, <1>2, OwnTables
<1>4. Tables'
  BY <1>2, <1>3 DEF Inv, Rows, Tables
<1>5. ActiveOk'
  <2>. SUFFICES ASSUME NEW v \in Users, active'[v] # "none"
                PROVE  /\ org[active'[v]] # "unborn"
                       /\ org[active'[v]] = "live" /\ v \notin late' => member[active'[v]][v] # NoRow
    BY <1>2 DEF ActiveOk
  <2>1. CASE v = u
    <3>1. active'[v] = o
      BY <1>1, <1>2, <2>1, OwnTables
    <3>. QED  BY <1>1, <1>2, <2>1, <3>1
  <2>2. CASE v # u
    <3>1. active'[v] = active[v]
      BY <1>1, <1>2, <2>2, OwnTables
    <3>. QED  BY <1>3, <3>1 DEF Inv, Rows, ActiveOk
  <2>. QED  BY <2>1, <2>2
<1>6. Rows' /\ Forward
  BY <1>2, <1>4, <1>5, RowsStay DEF Inv, Rows
<1>. QED  BY <1>2, <1>6, ReturnKeeps

LEMMA ClearActiveKeeps == ASSUME Inv, UNCHANGED mix, NEW u \in Users, ClearActive(u) PROVE Inv'
<1>1. active' = [active EXCEPT ![u] = "none"] /\ UNCHANGED <<mix, org, member, inv, custom, team, req, history>>
  BY DEF ClearActive
<1>2. active' \in [Users -> Orgs \cup {"none"}] /\ \A v \in Users : active'[v] # "none" => active'[v] = active[v]
  BY <1>1, OwnTables
<1>3. Tables'
  BY <1>1, <1>2 DEF history, Inv, Rows, Tables
<1>4. ActiveOk'
  BY <1>1, <1>2 DEF history, Inv, Rows, ActiveOk
<1>5. Rows' /\ Forward
  BY <1>1, <1>3, <1>4, RowsStay DEF history, Inv, Rows
<1>. QED  BY <1>1, <1>5, AloneKeeps

-----------------------------------------------------------------------------
(* Organizations and accounts.                                             *)

LEMMA CreateOrganizationKeeps ==
    ASSUME Inv, UNCHANGED mix, NEW u \in Users, NEW o \in Orgs, CreateOrganization(u, o)
    PROVE  Inv'
<1>1. /\ org[o] = "unborn" /\ org' = [org EXCEPT ![o] = "live"]
      /\ member' = [member EXCEPT ![o][u] = OwnerRow] /\ founder' = [founder EXCEPT ![o] = {u}]
      /\ UNCHANGED <<mix, inv, custom, team, active, req, unguarded, wielded, joined, late, missed>>
  BY DEF CreateOrganization
<1>2. OwnerRow \in MemberRow /\ OwnerRow # NoRow /\ OwnerRow.role = Owner /\ OwnerRow.status = "active" /\ Owner \in RoleNames
  BY OrganizationsAssumption DEF OwnerRow, MemberRow, RoleNames, NoRow
<1>. HIDE DEF OwnerRow
<1>3. \A v \in Users : member[o][v] = NoRow
  BY <1>1 DEF Inv, Rows, MembersOk
<1>4. /\ member' \in [Orgs -> [Users -> MemberRow]] /\ member'[o][u] = OwnerRow
      /\ \A x \in Orgs : \A v \in Users : x # o \/ v # u => member'[x][v] = member[x][v]
  BY <1>1, <1>2, OwnTables
<1>5. /\ org' \in [Orgs -> {"unborn", "live", "gone"}] /\ org'[o] = "live"
      /\ \A x \in Orgs : x # o => org'[x] = org[x]
  BY <1>1, OwnTables
<1>6. /\ founder' \in [Orgs -> SUBSET Users] /\ founder'[o] = {u}
      /\ \A x \in Orgs : x # o => founder'[x] = founder[x]
  BY <1>1, OwnTables
<1>7. Tables'
  BY <1>1, <1>4, <1>5, <1>6 DEF Inv, Rows, Tables
<1>8. InvitesOk' /\ TeamsOk' /\ CustomOk'
  <2>1. InvitesOk'
    BY <1>1, <1>5 DEF Inv, Rows, InvitesOk, Good
  <2>2. TeamsOk'
    BY <1>1, <1>5 DEF Inv, Rows, TeamsOk, Good
  <2>3. CustomOk'
    BY <1>1, <1>5 DEF Inv, Rows, CustomOk
  <2>. QED  BY <2>1, <2>2, <2>3
<1>9. MembersOk'
  <2>. SUFFICES ASSUME NEW x \in Orgs, NEW v \in Users, member'[x][v] # NoRow
                PROVE  /\ member'[x][v].status # "none" /\ member'[x][v].role \in RoleNames /\ org'[x] = "live"
                       /\ v \notin founder'[x] => Good(x, member'[x][v].role)
    BY <1>1 DEF MembersOk, Good
  <2>1. CASE x = o
    BY <1>2, <1>3, <1>4, <1>5, <1>6, <2>1
  <2>2. CASE x # o
    BY <1>4, <1>5, <1>6, <2>2 DEF Inv, Rows, MembersOk
  <2>. QED  BY <2>1, <2>2
<1>10. ActiveOk'
  <2>. SUFFICES ASSUME NEW v \in Users, active[v] # "none"
                PROVE  /\ org'[active[v]] # "unborn"
                       /\ org'[active[v]] = "live" /\ v \notin late => member'[active[v]][v] # NoRow
    BY <1>1 DEF ActiveOk
  <2>1. /\ active[v] \in Orgs /\ org[active[v]] # "unborn"
        /\ org[active[v]] = "live" /\ v \notin late => member[active[v]][v] # NoRow
    BY OwnTables DEF Inv, Rows, ActiveOk
  <2>2. active[v] # o
    BY <1>1, <2>1
  <2>. QED  BY <1>4, <1>5, <2>1, <2>2
<1>11. OwnersOk'
  <2>. SUFFICES ASSUME NEW x \in Orgs, org'[x] = "live", x \notin unguarded
                PROVE  \E v \in Users : member'[x][v] = OwnerRow
    BY <1>1 DEF OwnersOk, Guarded
  <2>1. CASE x = o
    BY <1>4, <2>1
  <2>2. CASE x # o
    BY <1>4, <1>5, <2>2 DEF Inv, Rows, OwnersOk, Guarded
  <2>. QED  BY <2>1, <2>2
<1>12. Rows'
  BY <1>1, <1>7, <1>8, <1>9, <1>10, <1>11, RowsStay DEF Inv, Rows
<1>13. Forward
  BY <1>1, <1>5, <1>6, OwnTables DEF Forward
<1>14. \A x \in Orgs : \A v \in Users : member[x][v] # NoRow => member'[x][v] = member[x][v]
  BY <1>3, <1>4
<1>15. LeftOrOver
  BY <1>1 DEF LeftOrOver, Alike
<1>16. LocksRespected
  <2>1. ASSUME NEW p \in Requests, NEW v \in req[p].locks PROVE req[p].org \in Orgs /\ v \in Users
    <3>1. req[p].locks # {}
      OBVIOUS
    <3>. QED  BY <3>1, Facts DEF Local, MemberOps
  <2>. QED  BY <1>2, <1>14, <2>1 DEF LocksRespected
<1>17. ListRespected
  BY <1>1, <1>14, ListedHere DEF ListRespected
<1>. QED  BY <1>1, <1>12, <1>13, <1>15, <1>16, <1>17, OwnTables, WriteKeeps

\* The rows of the organization go with it, in one step.
LEMMA DeleteOrganizationKeeps == ASSUME Inv, UNCHANGED mix, NEW q \in Requests, DeleteOrganization(q) PROVE Inv'
<1>. DEFINE o == req[q].org
            noInv == [st |-> "gone", org |-> "none", user |-> NoUser, role |-> "none"]
            noTeam == [st |-> "gone", org |-> "none", role |-> "none", users |-> {}]
<1>1. o \in Orgs /\ "none" \notin Orgs
  BY Facts, OrganizationsAssumption DEF DeleteOrganization, At
<1>2. /\ org' = [org EXCEPT ![o] = IF @ = "live" THEN "gone" ELSE @]
      /\ member' = [member EXCEPT ![o] = [u \in Users |-> NoRow]]
      /\ inv' = [i \in Invites |-> IF inv[i].org = o THEN noInv ELSE inv[i]]
      /\ custom' = [custom EXCEPT ![o] = {}]
      /\ team' = [t \in Teams |-> IF team[t].org = o THEN noTeam ELSE team[t]]
      /\ Unlists(q, o, Users)
      /\ UNCHANGED <<mix, active>> /\ UNCHANGED history
  BY DEF DeleteOrganization, Unlists
<1>3. noInv \in InvRow /\ noInv.st = "gone" /\ noInv.org = "none" /\ noTeam \in TeamRow /\ noTeam.st = "gone" /\ noTeam.org = "none"
  BY DEF InvRow, TeamRow
<1>4. NoRow \in MemberRow
  BY DEF NoRow, MemberRow
<1>. HIDE DEF o, noInv, noTeam
<1>5. /\ member' \in [Orgs -> [Users -> MemberRow]]
      /\ \A u \in Users : member'[o][u] = NoRow
      /\ \A x \in Orgs : x # o => member'[x] = member[x]
  BY <1>1, <1>2, <1>4, OwnTables
<1>6. /\ org' \in [Orgs -> {"unborn", "live", "gone"}] /\ org'[o] # "live"
      /\ \A x \in Orgs : (x # o => org'[x] = org[x]) /\ (org[x] # "unborn" => org'[x] # "unborn")
  BY <1>1, <1>2, OwnTables
<1>7. /\ inv' \in [Invites -> InvRow]
      /\ \A i \in Invites : inv'[i] = IF inv[i].org = o THEN noInv ELSE inv[i]
  BY <1>2, <1>3, OwnTables
<1>8. /\ team' \in [Teams -> TeamRow]
      /\ \A t \in Teams : team'[t] = IF team[t].org = o THEN noTeam ELSE team[t]
  BY <1>2, <1>3, OwnTables
<1>9. /\ custom' \in [Orgs -> SUBSET Statements] /\ custom'[o] = {}
      /\ \A x \in Orgs : x # o => custom'[x] = custom[x]
  BY <1>1, <1>2, OwnTables
<1>10. Tables'
  BY <1>2, <1>5, <1>6, <1>7, <1>8, <1>9 DEF history, Inv, Rows, Tables
<1>11. InvitesOk'
  <2>. SUFFICES ASSUME NEW i \in Invites
                PROVE  /\ inv'[i].st \in {"unborn", "gone"} => inv'[i].org = "none"
                       /\ inv'[i].st \notin {"unborn", "gone"} =>
                             /\ inv'[i].org \in Orgs /\ org'[inv'[i].org] = "live" /\ inv'[i].user \in Users
                             /\ inv'[i].role \in RoleNames /\ Good(inv'[i].org, inv'[i].role)
    BY <1>2 DEF history, InvitesOk, Good
  <2>1. CASE inv[i].org = o
    BY <1>3, <1>7, <2>1
  <2>2. CASE inv[i].org # o
    BY <1>6, <1>7, <2>2 DEF Inv, Rows, InvitesOk
  <2>. QED  BY <2>1, <2>2
<1>12. TeamsOk'
  <2>. SUFFICES ASSUME NEW t \in Teams
                PROVE  /\ team'[t].st # "live" => team'[t].org = "none"
                       /\ team'[t].st = "live" =>
                             team'[t].org \in Orgs /\ org'[team'[t].org] = "live" /\ Good(team'[t].org, team'[t].role)
    BY <1>2 DEF history, TeamsOk, Good
  <2>1. CASE team[t].org = o
    BY <1>3, <1>8, <2>1
  <2>2. CASE team[t].org # o
    BY <1>6, <1>8, <2>2 DEF Inv, Rows, TeamsOk
  <2>. QED  BY <2>1, <2>2
<1>13. MembersOk'
  <2>. SUFFICES ASSUME NEW x \in Orgs, NEW v \in Users, member'[x][v] # NoRow
                PROVE  /\ member'[x][v].status # "none" /\ member'[x][v].role \in RoleNames /\ org'[x] = "live"
                       /\ v \notin founder[x] => Good(x, member'[x][v].role)
    BY <1>2 DEF history, MembersOk, Good
  <2>1. x # o
    BY <1>5
  <2>. QED  BY <1>5, <1>6, <2>1 DEF Inv, Rows, MembersOk
<1>14. CustomOk'
  <2>. SUFFICES ASSUME NEW x \in Orgs
                PROVE  Reach(custom'[x]) \subseteq wielded[x] /\ (custom'[x] # {} => org'[x] = "live")
    BY <1>2 DEF history, CustomOk
  <2>1. CASE x = o
    BY <1>9, <2>1, ReachOfNothing
  <2>2. CASE x # o
    BY <1>6, <1>9, <2>2 DEF Inv, Rows, CustomOk
  <2>. QED  BY <2>1, <2>2
<1>15. Unspent'
  <2>. SUFFICES ASSUME NEW i \in Invites
                PROVE  joined[i] <= 1 /\ (inv'[i].st \in {"unborn", "pending", "revoked", "expired"} => joined[i] = 0)
    BY <1>2 DEF history, Unspent
  <2>. QED  BY <1>3, <1>7 DEF Inv, Rows, Unspent
<1>16. ActiveOk'
  <2>. SUFFICES ASSUME NEW v \in Users, active[v] # "none"
                PROVE  /\ org'[active[v]] # "unborn"
                       /\ org'[active[v]] = "live" /\ v \notin late => member'[active[v]][v] # NoRow
    BY <1>2 DEF history, ActiveOk
  <2>1. /\ active[v] \in Orgs /\ org[active[v]] # "unborn"
        /\ org[active[v]] = "live" /\ v \notin late => member[active[v]][v] # NoRow
    BY OwnTables DEF Inv, Rows, ActiveOk
  <2>. QED  BY <1>5, <1>6, <2>1
<1>17. OwnersOk'
  <2>. SUFFICES ASSUME NEW x \in Orgs, org'[x] = "live", x \notin unguarded
                PROVE  \E v \in Users : member'[x][v] = OwnerRow
    BY <1>2 DEF history, OwnersOk, Guarded
  <2>. QED  BY <1>5, <1>6 DEF Inv, Rows, OwnersOk, Guarded
<1>18. Rows'
  BY <1>2, <1>10, <1>11, <1>12, <1>13, <1>14, <1>15, <1>16, <1>17 DEF history, Inv, Rows
<1>19. Forward
  <2>1. \A i \in Invites : inv[i].st # "unborn" => inv'[i].st # "unborn" /\ inv'[i].org \in {inv[i].org, "none"}
    BY <1>3, <1>7
  <2>2. \A x \in Orgs : org'[x] = "live" => org[x] = "live"
    BY <1>6
  <2>. QED  BY <1>2, <1>6, <2>1, <2>2, OwnTables DEF history, Forward
<1>20. req' \in [Requests -> Local] /\ LeftOrOver /\ req'[q].locks = {}
       /\ \A p \in Requests : req'[p].there \subseteq req[p].there /\ (req[p].org = o => \A u \in Users : u \notin req'[p].there)
  BY <1>1, <1>2, UnlistedLeaves
<1>21. LocksRespected
  <2>1. ASSUME NEW p \in Requests, req'[p].locks # {}, GuardedNext(req[p].org) PROVE member'[req[p].org] = member[req[p].org]
    <3>1. Alike(req[p], req'[p])
      BY <1>20, <2>1 DEF LeftOrOver, Resting
    <3>2. req[p].org \in Orgs /\ req[p].org # o
      BY <1>6, <2>1, <3>1, Facts DEF Alike, GuardedNext, MemberOps
    <3>. QED  BY <1>5, <3>2
  <2>. QED  BY <2>1 DEF LocksRespected
<1>22. ListRespected
  <2>1. ASSUME NEW p \in Requests, NEW v \in req'[p].there PROVE member'[req[p].org][v] = member[req[p].org][v]
    <3>1. v \in req[p].there
      BY <1>20
    <3>2. req[p].org \in Orgs /\ v \in Users
      BY <3>1, ListedHere
    <3>3. req[p].org # o
      BY <1>20, <2>1, <3>2
    <3>. QED  BY <1>5, <3>2, <3>3
  <2>. QED  BY <2>1 DEF ListRespected
<1>. QED  BY <1>18, <1>19, <1>20, <1>21, <1>22, WriteKeeps

\* The account goes with its memberships; organizations that lose an active
\* owner so are remembered.
LEMMA DeleteAccountKeeps ==
    ASSUME Inv, UNCHANGED mix, NEW u \in Users, DeleteAccount(u)
    PROVE  Inv'
<1>. DEFINE left == {o \in Orgs : member[o][u] = OwnerRow}
<1>1. /\ member' = [o \in Orgs |-> [member[o] EXCEPT ![u] = NoRow]]
      /\ team' = [t \in Teams |-> [team[t] EXCEPT !.users = @ \ {u}]]
      /\ active' = [active EXCEPT ![u] = "none"]
      /\ unguarded' = unguarded \cup left
      /\ req' = [q \in Requests |-> [req[q] EXCEPT !.there = @ \ {u}]]
      /\ UNCHANGED <<mix, org, inv, custom, founder, wielded, joined, late, missed>>
  BY DEF DeleteAccount
<1>2. NoRow \in MemberRow /\ OwnerRow # NoRow
  BY DEF NoRow, MemberRow, OwnerRow
<1>3. left \subseteq Orgs /\ \A o \in Orgs : o \in left <=> member[o][u] = OwnerRow
  OBVIOUS
<1>. HIDE DEF left
<1>4. /\ member' \in [Orgs -> [Users -> MemberRow]]
      /\ \A o \in Orgs : member'[o][u] = NoRow /\ \A v \in Users : v # u => member'[o][v] = member[o][v]
  BY <1>1, <1>2, OwnTables
<1>5. /\ active' \in [Users -> Orgs \cup {"none"}] /\ active'[u] = "none"
      /\ \A v \in Users : v # u => active'[v] = active[v]
  BY <1>1, OwnTables
<1>6. team' \in [Teams -> TeamRow] /\ \A t \in Teams : team'[t].st = team[t].st /\ team'[t].org = team[t].org /\ team'[t].role = team[t].role
  <2>1. ASSUME NEW t \in Teams
        PROVE  team'[t] \in TeamRow /\ team'[t].st = team[t].st /\ team'[t].org = team[t].org /\ team'[t].role = team[t].role
    <3>1. team[t] \in TeamRow /\ team'[t] = [team[t] EXCEPT !.users = @ \ {u}]
      BY <1>1, OwnTables
    <3>. QED  BY <3>1 DEF TeamRow
  <2>2. team' = [t \in Teams |-> team'[t]]
    BY <1>1
  <2>. QED  BY <2>1, <2>2
<1>7. unguarded' \subseteq Orgs /\ unguarded \subseteq unguarded'
  BY <1>1, <1>3, OwnTables
<1>8. Tables'
  BY <1>1, <1>4, <1>5, <1>6, <1>7 DEF Inv, Rows, Tables
<1>9. TeamsOk'
  <2>1. \A t \in Teams : team'[t].st = team[t].st /\ team'[t].org = team[t].org /\ team'[t].role = team[t].role
    BY <1>6
  <2>2. UNCHANGED <<org, wielded>>
    BY <1>1
  <2>. QED  BY <2>1, <2>2 DEF Inv, Rows, TeamsOk, Good
<1>10. MembersOk'
  <2>. SUFFICES ASSUME NEW x \in Orgs, NEW v \in Users, member'[x][v] # NoRow
                PROVE  /\ member'[x][v].status # "none" /\ member'[x][v].role \in RoleNames /\ org[x] = "live"
                       /\ v \notin founder[x] => Good(x, member'[x][v].role)
    BY <1>1 DEF MembersOk, Good
  <2>1. member'[x][v] = member[x][v]
    BY <1>4
  <2>. QED  BY <2>1 DEF Inv, Rows, MembersOk
<1>11. ActiveOk'
  <2>. SUFFICES ASSUME NEW v \in Users, active'[v] # "none"
                PROVE  /\ org[active'[v]] # "unborn"
                       /\ org[active'[v]] = "live" /\ v \notin late => member'[active'[v]][v] # NoRow
    BY <1>1 DEF ActiveOk
  <2>1. v # u /\ active'[v] = active[v] /\ active[v] \in Orgs
    BY <1>5, OwnTables
  <2>. QED  BY <1>4, <2>1 DEF Inv, Rows, ActiveOk
<1>12. OwnersOk'
  <2>. SUFFICES ASSUME NEW x \in Orgs, org[x] = "live", x \notin unguarded'
                PROVE  \E v \in Users : member'[x][v] = OwnerRow
    BY <1>1 DEF OwnersOk, Guarded
  <2>1. PICK w \in Users : member[x][w] = OwnerRow
    BY <1>7 DEF Inv, Rows, OwnersOk, Guarded
  <2>2. w # u
    BY <1>1, <1>3, <2>1
  <2>. QED  BY <1>4, <2>1, <2>2
<1>13. Rows'
  BY <1>1, <1>8, <1>9, <1>10, <1>11, <1>12, RowsStay DEF Inv, Rows
<1>14. Forward
  BY <1>1, <1>7, OwnTables DEF Forward
<1>15. ASSUME NEW p \in Requests
       PROVE  req'[p] \in Local /\ Alike(req[p], req'[p]) /\ u \notin req'[p].there
  <2>1. req[p] \in Local /\ req'[p] = [req[p] EXCEPT !.there = @ \ {u}]
    BY <1>1, OwnTables
  <2>. QED  BY <2>1 DEF Local, Alike
<1>16. req' \in [Requests -> Local] /\ LeftOrOver
  <2>1. req' = [p \in Requests |-> req'[p]]
    BY <1>1
  <2>. QED  BY <1>15, <2>1 DEF LeftOrOver
<1>17. LocksRespected
  <2>1. ASSUME NEW p \in Requests, NEW v \in req[p].locks, GuardedNext(req[p].org), member[req[p].org][v] = OwnerRow
        PROVE  member'[req[p].org][v] = OwnerRow
    <3>1. req[p].locks # {}
      OBVIOUS
    <3>2. req[p].org \in Orgs /\ v \in Users
      BY <3>1, Facts DEF Local, MemberOps
    <3>3. v # u
      BY <1>1, <1>3, <2>1, <3>2 DEF GuardedNext
    <3>. QED  BY <1>4, <2>1, <3>2, <3>3
  <2>. QED  BY <2>1 DEF LocksRespected
<1>18. ListRespected
  <2>1. ASSUME NEW p \in Requests, NEW v \in req'[p].there PROVE member'[req[p].org][v] = member[req[p].org][v]
    <3>1. v \in req[p].there /\ v # u
      BY <1>15 DEF Alike
    <3>2. req[p].org \in Orgs /\ v \in Users
      BY <3>1, ListedHere
    <3>. QED  BY <1>4, <3>1, <3>2
  <2>. QED  BY <2>1 DEF ListRespected
<1>. QED  BY <1>13, <1>14, <1>16, <1>17, <1>18, WriteKeeps

-----------------------------------------------------------------------------
(* The theorems about the plugin.                                          *)

\* The rows that there may be at the start.
LEMMA InitInv == ASSUME Init PROVE Inv
<1>. DEFINE first == CHOOSE o \in Orgs : TRUE
<1>1. PICK seats \in Seats :
        /\ mix \in Mixes
        /\ org = [o \in Orgs |-> IF o = first /\ DOMAIN seats # {} THEN "live" ELSE "unborn"]
        /\ member = [o \in Orgs |-> [u \in Users |-> IF o = first /\ u \in DOMAIN seats THEN seats[u] ELSE NoRow]]
        /\ inv = [i \in Invites |-> [st |-> "unborn", org |-> "none", user |-> NoUser, role |-> "none"]]
        /\ custom = [o \in Orgs |-> {}]
        /\ team = [t \in Teams |-> [st |-> "unborn", org |-> "none", role |-> "none", users |-> {}]]
        /\ active = [u \in Users |-> "none"]
        /\ req = [q \in Requests |-> Idle]
        /\ unguarded = {} /\ late = {} /\ missed = FALSE
        /\ founder = [o \in Orgs |-> IF o = first THEN {u \in DOMAIN seats : seats[u].role = Owner} ELSE {}]
        /\ wielded = [o \in Orgs |-> IF o # first THEN {}
                       ELSE UNION {Reach(BuiltIn[seats[u].role]) : u \in {u \in DOMAIN seats : seats[u].role # Owner}}]
        /\ joined = [i \in Invites |-> 0]
  BY DEF Init
<1>. HIDE DEF first
<1>2. /\ DOMAIN seats \subseteq Users
      /\ \A u \in DOMAIN seats : /\ seats[u] \in [role : DOMAIN BuiltIn, status : {"active", "suspended"}]
                                 /\ seats[u] \in MemberRow /\ seats[u] # NoRow
                                 /\ seats[u].status # "none" /\ seats[u].role \in DOMAIN BuiltIn
      /\ DOMAIN seats # {} => \E u \in DOMAIN seats : seats[u] = OwnerRow
  BY OrganizationsAssumption DEF OwnerRow, MemberRow, RoleNames, NoRow
<1>3. /\ \A o \in Orgs : \A u \in Users :
            member[o][u] = IF o = first /\ u \in DOMAIN seats THEN seats[u] ELSE NoRow
      /\ \A o \in Orgs : org[o] = IF o = first /\ DOMAIN seats # {} THEN "live" ELSE "unborn"
  BY <1>1
<1>4. wielded \in [Orgs -> SUBSET Concrete]
  BY <1>1 DEF Reach
<1>5. NoRow \in MemberRow
  BY DEF NoRow, MemberRow
<1>6. Tables
  <2>1. member \in [Orgs -> [Users -> MemberRow]]
    BY <1>1, <1>2, <1>5
  <2>2. inv \in [Invites -> InvRow] /\ team \in [Teams -> TeamRow]
    BY <1>1 DEF InvRow, TeamRow
  <2>3. founder \in [Orgs -> SUBSET Users]
    BY <1>1, <1>2
  <2>. QED  BY <1>1, <1>4, <2>1, <2>2, <2>3 DEF Tables
<1>7. InvitesOk /\ TeamsOk /\ Unspent /\ ActiveOk
  BY <1>1 DEF InvitesOk, TeamsOk, Unspent, ActiveOk
<1>8. MembersOk
  <2>. SUFFICES ASSUME NEW o \in Orgs, NEW u \in Users, member[o][u] # NoRow
                PROVE  /\ member[o][u].status # "none" /\ member[o][u].role \in RoleNames /\ org[o] = "live"
                       /\ u \notin founder[o] => Good(o, member[o][u].role)
    BY DEF MembersOk
  <2>1. o = first /\ u \in DOMAIN seats /\ member[o][u] = seats[u]
    BY <1>3
  <2>2. u \notin founder[o] => Reach(BuiltIn[seats[u].role]) \subseteq wielded[o]
    BY <1>1, <2>1
  <2>. QED  BY <1>2, <1>3, <2>1, <2>2 DEF RoleNames, Good
<1>9. CustomOk
  BY <1>1, ReachOfNothing DEF CustomOk
<1>10. OwnersOk
  <2>. SUFFICES ASSUME NEW o \in Orgs, org[o] = "live"
                PROVE  \E u \in Users : member[o][u] = OwnerRow
    BY DEF OwnersOk, Guarded
  <2>1. o = first /\ DOMAIN seats # {}
    BY <1>3
  <2>2. PICK u \in DOMAIN seats : seats[u] = OwnerRow
    BY <1>2, <2>1
  <2>. QED  BY <1>2, <1>3, <2>1, <2>2
<1>11. req \in [Requests -> Local] /\ \A q \in Requests : Resting(req[q])
  BY <1>1, IdleCall
<1>12. \A q \in Requests : Kept(req[q]) /\ Holds(req[q])
  BY <1>11, RestKept, RestHolds
<1>13. Locking /\ Listing
  BY <1>11 DEF Resting, Locking, Listing
<1>. QED  BY <1>1, <1>6, <1>7, <1>8, <1>9, <1>10, <1>11, <1>12, <1>13 DEF Inv, Rows

LEMMA StartKeeps ==
    ASSUME Inv, UNCHANGED mix, NEW q \in Requests, Start(q)
    PROVE  Inv'
<1>1. PICK actor \in Actors, o \in Orgs :
        \/ MemberCalls(q, actor, o) \/ InvitationCalls(q, actor, o)
        \/ RoleCalls(q, actor, o) \/ TeamCalls(q, actor, o)
        \/ Delete(q, actor, o)
  BY DEF Start
<1>2. CASE MemberCalls(q, actor, o)
  BY <1>2, SetRoleKeeps, SetStatusKeeps, ListMembersKeeps DEF MemberCalls
<1>3. CASE InvitationCalls(q, actor, o)
  BY <1>3, InviteKeeps, RevokeInvitationKeeps, AcceptInvitationKeeps DEF InvitationCalls
<1>4. CASE RoleCalls(q, actor, o)
  BY <1>4, CreateRoleKeeps, DeleteRoleKeeps DEF RoleCalls
<1>5. CASE TeamCalls(q, actor, o)
  BY <1>5, CreateTeamKeeps, TeamCallKeeps DEF TeamCalls
<1>6. CASE Delete(q, actor, o)
  BY <1>6, DeleteKeeps
<1>. QED  BY <1>1, <1>2, <1>3, <1>4, <1>5, <1>6

LEMMA RequestKeeps ==
    ASSUME Inv, UNCHANGED mix, NEW q \in Requests,
           \/ Start(q)
           \/ \E u \in Signed, o \in Orgs : SetActiveSession(q, u, o)
           \/ Authorize(q) \/ Permit(q) \/ ActiveMembership(q) \/ MembershipOf(q) \/ GuardOwner(q) \/ UpdateMembership(q)
           \/ DeleteMembership(q) \/ GuardMemberLimit(q) \/ CreateInvitation(q)
           \/ ConsumeInvitation(q) \/ SetInvitationStatus(q) \/ DeleteOrganization(q)
           \/ CreateCustomRole(q) \/ DeleteCustomRole(q) \/ InsertTeam(q) \/ DeleteTeam(q)
           \/ ChangeTeamMembers(q) \/ SetActiveOrganization(q) \/ ListPage(q)
    PROVE  Inv'
<1>1. CASE Start(q) \/ Authorize(q) \/ Permit(q) \/ ActiveMembership(q) \/ MembershipOf(q) \/ GuardOwner(q) \/ UpdateMembership(q)
  BY <1>1, StartKeeps, AuthorizeKeeps, PermitKeeps, ActiveMembershipKeeps, MembershipOfKeeps, GuardOwnerKeeps, UpdateMembershipKeeps
<1>2. CASE \E u \in Signed, o \in Orgs : SetActiveSession(q, u, o)
  BY <1>2, SetActiveSessionKeeps
<1>3. CASE DeleteMembership(q) \/ GuardMemberLimit(q) \/ CreateInvitation(q) \/ ConsumeInvitation(q) \/ SetInvitationStatus(q)
  BY <1>3, DeleteMembershipKeeps, GuardMemberLimitKeeps, CreateInvitationKeeps, ConsumeInvitationKeeps, SetInvitationStatusKeeps
<1>4. CASE DeleteOrganization(q) \/ CreateCustomRole(q) \/ DeleteCustomRole(q) \/ InsertTeam(q) \/ DeleteTeam(q)
  BY <1>4, DeleteOrganizationKeeps, CreateCustomRoleKeeps, DeleteCustomRoleKeeps, InsertTeamKeeps, DeleteTeamKeeps
<1>5. CASE ChangeTeamMembers(q) \/ SetActiveOrganization(q) \/ ListPage(q)
  BY <1>5, ChangeTeamMembersKeeps, SetActiveOrganizationKeeps, ListPageKeeps
<1>. QED  BY <1>1, <1>2, <1>3, <1>4, <1>5

LEMMA NextKeeps == ASSUME Inv, [Next]_vars PROVE Inv'
<1>1. CASE Next
  <2>1. Step /\ UNCHANGED mix
    BY <1>1 DEF Next
  <2>. QED  BY <2>1, RequestKeeps, ExpireInvitationKeeps, DeleteAccountKeeps, ClearActiveKeeps, CreateOrganizationKeeps DEF Step
<1>2. CASE UNCHANGED vars
  <2>1. Quiet /\ req' = req
    BY <1>2, OwnTables DEF vars, Quiet, rows
  <2>2. member' = member
    BY <1>2 DEF vars
  <2>. QED  BY <2>1, <2>2, QuietRows, AloneKeeps
<1>. QED  BY <1>1, <1>2

\* What every state of the plugin satisfies: what each request carries between
\* its statements, whose rows are locked, whose rows there are.
THEOREM OrganizationsInvariant == Spec => []Inv
<1>1. Init => Inv
  BY InitInv
<1>2. Inv /\ [Next]_vars => Inv'
  BY NextKeeps
<1>. QED  BY <1>1, <1>2, PTL DEF Spec

\* ORG SI-03: guardOwner locks what it counts, so that of parallel demotions,
\* suspensions and removals none takes the last active owner.
THEOREM AnOwnerRemains == Spec => []OwnerRemains
<1>1. Inv => OwnerRemains
  BY DEF Inv, Rows, OwnersOk, Guarded, OwnerRemains, ActiveOwners, OwnerRow
<1>. QED  BY <1>1, OrganizationsInvariant, PTL

\* ConsumeInvitation: an invitation makes one member at most, and none once it is
\* revoked or expired.
THEOREM InvitationsSpentOnce == Spec => []SpentOnce
<1>1. Inv => SpentOnce
  BY DEF Inv, Rows, Unspent, SpentOnce
<1>. QED  BY <1>1, OrganizationsInvariant, PTL

\* DeleteOrganization and the foreign keys: nothing of a deleted organization
\* stays, and nothing is inserted into it later.
THEOREM NothingStaysBehind == Spec => []NoOrphans
<1>1. ASSUME Inv PROVE NoOrphans
  <2>1. TypeOK
    BY <1>1 DEF Inv, Rows, Tables, TypeOK
  <2>2. ASSUME NEW o \in Orgs, org[o] = "gone"
        PROVE  Members(o) = {} /\ InvitationsOf(o) = {} /\ custom[o] = {} /\ \A t \in Teams : team[t].org # o
    <3>1. o # "none"
      BY OrganizationsAssumption
    <3>2. Members(o) = {}
      BY <1>1, <2>2 DEF Inv, Rows, MembersOk, Members
    <3>3. InvitationsOf(o) = {}
      BY <1>1, <2>2, <3>1 DEF Inv, Rows, InvitesOk, InvitationsOf
    <3>4. custom[o] = {}
      BY <1>1, <2>2 DEF Inv, Rows, CustomOk
    <3>5. \A t \in Teams : team[t].org # o
      BY <1>1, <2>2, <3>1 DEF Inv, Rows, TeamsOk
    <3>. QED  BY <3>2, <3>3, <3>4, <3>5
  <2>. QED  BY <2>1, <2>2 DEF NoOrphans
<1>. QED  BY <1>1, OrganizationsInvariant, PTL

\* ORG SI-02: what a request gives, its actor held, unless the custom role that was
\* read was made anew; and a member that did not found the organization is let
\* through only what some actor held when it gave it.
THEOREM NobodyAboveTheGivers == Spec => []Ceiling
<1>1. ASSUME Inv PROVE Ceiling
  <2>0. OwnGrants
    BY <1>1 DEF Inv, Holds, OwnGrants
  <2>. SUFFICES ASSUME NEW o \in Orgs, NEW u \in Users \ founder[o], NEW c \in Reach(Effective(o, u))
                PROVE  c \in wielded[o]
    BY <2>0 DEF Ceiling
  <2>1. member[o][u].status = "active"
    BY ReachOfNothing DEF Effective
  <2>2. Effective(o, u) = UNION {PermissionsOf(o, role) : role \in JoinedRoles(o, u)}
    BY <2>1 DEF Effective
  <2>3. PICK role \in JoinedRoles(o, u) : c \in Reach(PermissionsOf(o, role))
    <3>. DEFINE F == {PermissionsOf(o, role) : role \in JoinedRoles(o, u)}
    <3>1. c \in Reach(UNION F)
      BY <2>2
    <3>2. \E S \in F : c \in Reach(S)
      <4>. HIDE DEF F
      <4>. QED  BY <3>1, ReachOfUnion
    <3>. QED  BY <3>2
  <2>4. Good(o, role)
    <3>1. CASE role = member[o][u].role
      <4>1. member[o][u] # NoRow
        BY <2>1 DEF NoRow
      <4>. QED  BY <1>1, <3>1, <4>1 DEF Inv, Rows, MembersOk
    <3>2. ASSUME NEW t \in TeamsOf(o, u), role = team[t].role PROVE Good(o, role)
      BY <1>1, <3>2 DEF Inv, Rows, TeamsOk, TeamsOf
    <3>. QED  BY <3>1, <3>2 DEF JoinedRoles
  <2>5. Reach(custom[o]) \subseteq wielded[o]
    BY <1>1 DEF Inv, Rows, CustomOk
  <2>. QED  BY <2>3, <2>4, <2>5, ReachOfNothing DEF Good, PermissionsOf
<1>. QED  BY <1>1, OrganizationsInvariant, PTL

\* ORG SI-05: the removal of a member clears the organization from its sessions in
\* the same transaction.
THEOREM LeaversAreInactive == Spec => []LeftMeansInactive
<1>1. ASSUME Inv PROVE LeftMeansInactive
  <2>1. \A o \in Orgs : o # "none"
    BY OrganizationsAssumption
  <2>. QED  BY <1>1, <2>1 DEF Inv, Rows, ActiveOk, LeftMeansInactive
<1>. QED  BY <1>1, OrganizationsInvariant, PTL

\* ListMembers: for every size of a page, and whoever comes and goes between two
\* pages, the cursor skips no member that was there throughout.
THEOREM PagesSkipNobody == Spec => []ListComplete
<1>1. Inv => ListComplete
  BY DEF Inv, Rows, ListComplete
<1>. QED  BY <1>1, OrganizationsInvariant, PTL
=============================================================================
