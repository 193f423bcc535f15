---------------------------- MODULE Permissions ----------------------------
(***************************************************************************)
(* The statements and sets of plugins/organizations/permission: pure       *)
(* operators, and the reference they are measured against.  The parser is  *)
(* left out: a string that the grammar refuses is in no set.               *)
(***************************************************************************)
CONSTANTS Resources, Actions

Wildcard == "*"

ASSUME PermissionsAssumption == Wildcard \notin Resources \cup Actions

\* A statement is resource:action, and the single asterisk has its own flag.
Stmt(r, a) == [all |-> FALSE, resource |-> r, action |-> a]
All == [all |-> TRUE, resource |-> "", action |-> ""]

Concrete == {Stmt(r, a) : r \in Resources, a \in Actions}
Statements ==
    {All} \cup {Stmt(r, a) : r \in Resources \cup {Wildcard}, a \in Actions \cup {Wildcard}}

\* Set.Covers: the asterisk, the statement itself, or a grant with one segment
\* replaced by the wildcard.
Covers(S, stmt) ==
    \/ All \in S
    \/ stmt \in S
    \/ /\ ~stmt.all
       /\ \/ stmt.resource # Wildcard /\ Stmt(stmt.resource, Wildcard) \in S
          \/ stmt.action # Wildcard /\ Stmt(Wildcard, stmt.action) \in S

CoversSet(S, T) == \A stmt \in T : Covers(S, stmt)

\* intersect (customroles.go): what is left of the role of a key.
Intersect(key, live) == {stmt \in key : Covers(live, stmt)}

\* The checks that a set of statements lets through.
Reach(S) == {c \in Concrete : Covers(S, c)}

-----------------------------------------------------------------------------
(* The reference: the table at the head of permission.go.                  *)

Denotes(stmt) ==
    {c \in Concrete : \/ stmt.all
                      \/ /\ stmt.resource \in {Wildcard, c.resource}
                         /\ stmt.action \in {Wildcard, c.action}}

Denotation(S) == UNION {Denotes(stmt) : stmt \in S}
=============================================================================
