-------------------------- MODULE MCOrganizations --------------------------
(* Constants of the TLC runs of Organizations. *)
EXTENDS Organizations, TLC

CONSTANTS o1, o2, i1, i2, t1, q1, q2

\* Roles of the guide: an owner, an administrator who may not delete the
\* organization and holds one action of role only, and a member.
OwnerAdmin ==
    [owner |-> {All},
     admin |-> {Stmt("member", Wildcard), Stmt("role", "write"), Stmt("team", "write")}]

OwnerMember == [owner |-> {All}, member |-> {Stmt("member", "read")}]

MCDeclarable == {{Stmt("member", "invite")}, {Stmt("role", Wildcard)}}

Row(role, status) == [role |-> role, status |-> status]

\* Two owners, or no organization yet.
OwnersOrNone == {1 :> Row("owner", "active") @@ 2 :> Row("owner", "active"), << >>}
OwnerAndAdmin == {1 :> Row("owner", "active") @@ 2 :> Row("admin", "active")}

\* The operations on members, and on what they may do; each with accounts that
\* are deleted under them.
MCMembers ==
    {{"setrole", "suspend", "restore", "remove", "list", "create", "delete", "activate",
      "invite", "accept", "revokeinv"},
     {"setrole", "suspend", "remove", "invite", "accept", "account"}}

MCAccess ==
    {{"setrole", "createrole", "deleterole", "team", "delete"},
     {"createrole", "deleterole", "team", "deleteteam", "join", "leave", "delete", "account"},
     {"setrole", "team", "deleteteam", "join", "leave", "delete", "account"},
     {"setrole", "createrole", "deleterole", "account"}}

Symmetry == Permutations(Requests) \cup Permutations(Invites)
=============================================================================
