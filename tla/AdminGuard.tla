----------------------------- MODULE AdminGuard -----------------------------
(***************************************************************************)
(* The last enabled administrator: SetRole, Disable, Enable and            *)
(* ResetPassword of plugins/admin, which all read one user row and write   *)
(* the whole row back, and guardLastAdmin, which locks the enabled         *)
(* administrators and counts the others.                                   *)
(*                                                                         *)
(* Serial = FALSE is Postgres: READ COMMITTED, a plain SELECT takes no     *)
(* lock, SELECT ... FOR UPDATE takes its snapshot and then locks row by    *)
(* row, and evaluates its condition again on a row it had to wait for.     *)
(* Serial = TRUE is SQLite, opened with one connection.                    *)
(***************************************************************************)
EXTENDS Integers

CONSTANTS
    Users,
    Txs,            \* slots for operations in progress
    Roles,          \* the hierarchy of the roles plugin, as ranks
    AdminRole,      \* admin.AdminRole
    Ops,            \* the operations of a run, a subset of AllOps
    Serial

\* SetRole to a role below the administrator is "demote", SetRole to the
\* administrator or above is "promote".  "write" is any write of the whole row
\* from an earlier read, outside of plugins/admin: markEmailVerified,
\* proveEmailOwnership, handleEmailChangeVerify.
AllOps == {"demote", "promote", "disable", "enable", "reset", "write"}

ASSUME AdminAssumption ==
    /\ Users # {}
    /\ Roles \subseteq Nat /\ AdminRole \in Roles
    /\ Ops \subseteq AllOps /\ Serial \in BOOLEAN

VARIABLES
    row,    \* row[u]: role and disabled_at of the users table
    tx      \* tx[t]: an operation in progress; held are its row locks

vars == <<row, tx>>

-----------------------------------------------------------------------------
Row == [role : Roles, disabled : BOOLEAN]

Tx == [pc : {"idle", "guard", "lock", "write"}, op : AllOps, user : Users, to : Roles,
       read : Row, want : SUBSET Users, held : SUBSET Users]

NoTx == [pc |-> "idle", op |-> "write", user |-> CHOOSE u \in Users : TRUE, to |-> AdminRole,
         read |-> [role |-> AdminRole, disabled |-> FALSE], want |-> {}, held |-> {}]

Enabled(r) == ~r.disabled

\* roles.AtLeast(role, adminRole), of an enabled user.
EnabledAdmin(r) == Enabled(r) /\ r.role >= AdminRole

\* The condition of LockEnabledUsersWithRole names the role exactly.
Lockable(r) == Enabled(r) /\ r.role = AdminRole

LockedByOther(t, u) == \E o \in Txs \ {t} : u \in tx[o].held

\* One connection: an operation waits for the transaction that is open.
Connected(t) ==
    Serial => \A o \in Txs \ {t} : tx[o].pc = "idle" \/ tx[o].op = "write"

\* What the operation writes: the row it read, with its own change.
Written(l) ==
    CASE l.op \in {"demote", "promote"} -> [l.read EXCEPT !.role = l.to]
      [] l.op = "disable" -> [l.read EXCEPT !.disabled = TRUE]
      [] l.op = "enable"  -> [l.read EXCEPT !.disabled = FALSE]
      [] l.op \in {"reset", "write"} -> l.read

\* The early returns: nothing to change.
Needed(op, r, to) ==
    CASE op = "demote"  -> to < AdminRole /\ to # r.role
      [] op = "promote" -> to >= AdminRole /\ to # r.role
      [] op = "disable" -> ~r.disabled
      [] op = "enable"  -> r.disabled
      [] op \in {"reset", "write"} -> TRUE

\* SetRole and Disable ask the guard when the row they read is of an
\* administrator.
Guarded(op, r) == op \in {"demote", "disable"} /\ r.role >= AdminRole

-----------------------------------------------------------------------------
Init ==
    /\ row \in [Users -> Row]
    /\ \E u \in Users : EnabledAdmin(row[u])
    /\ tx = [t \in Txs |-> NoTx]

\* The transaction begins and GetByID reads the row.
Begin(t, op, u, to) ==
    /\ op \in Ops /\ tx[t].pc = "idle" /\ Connected(t)
    /\ Needed(op, row[u], to)
    /\ tx' = [tx EXCEPT ![t] = [pc |-> IF Guarded(op, row[u]) THEN "guard" ELSE "write",
                                op |-> op, user |-> u, to |-> to, read |-> row[u],
                                want |-> {}, held |-> {}]]
    /\ UNCHANGED row

\* LockEnabledUsersWithRole: the rows that the snapshot of the statement matches.
LockSnapshot(t) ==
    /\ tx[t].pc = "guard"
    /\ tx' = [tx EXCEPT ![t].pc = "lock", ![t].want = {u \in Users : Lockable(row[u])}]
    /\ UNCHANGED row

\* Mutant: a plain SELECT, which locks nothing others respect.
LockShared(t, u) ==
    /\ tx[t].pc = "lock" /\ u \in tx[t].want
    /\ tx' = [tx EXCEPT ![t].want = @ \ {u}, ![t].held = @ \cup {u}]
    /\ UNCHANGED row

\* FOR UPDATE: lock the next row, once no other transaction holds it, if it still
\* matches.
LockRow(t, u) ==
    /\ tx[t].pc = "lock" /\ u \in tx[t].want
    /\ ~LockedByOther(t, u)
    /\ tx' = [tx EXCEPT ![t].want = @ \ {u},
                        ![t].held = IF Lockable(row[u]) THEN @ \cup {u} ELSE @]
    /\ UNCHANGED row

\* The transaction ends and its locks with it.
End(t) == tx' = [tx EXCEPT ![t] = NoTx]

\* Mutant: the target itself is counted.
CountAll(t) ==
    /\ tx[t].pc = "lock" /\ tx[t].want = {}
    /\ IF tx[t].held # {} THEN tx' = [tx EXCEPT ![t].pc = "write"] ELSE End(t)
    /\ UNCHANGED row

\* guardLastAdmin counts the locked users other than the target; none is
\* ErrLastAdmin, and the transaction rolls back.
CountOthers(t) ==
    /\ tx[t].pc = "lock" /\ tx[t].want = {}
    /\ IF tx[t].held \ {tx[t].user} # {} THEN tx' = [tx EXCEPT ![t].pc = "write"]
                                         ELSE End(t)
    /\ UNCHANGED row

\* Users().Update of the whole row, and the commit.
WriteRow(t) ==
    /\ tx[t].pc = "write" /\ Connected(t)
    /\ ~LockedByOther(t, tx[t].user)
    /\ row' = [row EXCEPT ![tx[t].user] = Written(tx[t])]
    /\ End(t)

\* A hook refuses, the client goes away, or the database breaks a deadlock.
Rollback(t) ==
    /\ tx[t].pc # "idle"
    /\ End(t)
    /\ UNCHANGED row

Next ==
    \E t \in Txs :
        \/ \E op \in Ops, u \in Users, to \in Roles : Begin(t, op, u, to)
        \/ LockSnapshot(t) \/ CountOthers(t) \/ WriteRow(t) \/ Rollback(t)
        \/ \E u \in Users : LockRow(t, u)

Spec == Init /\ [][Next]_vars

-----------------------------------------------------------------------------
(* Properties.                                                             *)

TypeOK == row \in [Users -> Row] /\ tx \in [Txs -> Tx]

\* docs/guides/security-model.md, SI-05: "At least one enabled administrator
\* exists after every committed administrative change, when one existed before."
AdminRemains == \E u \in Users : EnabledAdmin(row[u])

\* What the row locks give: no two transactions count the same administrator,
\* and a counted one is an enabled administrator until its holder ends.
LocksHold ==
    \A t \in Txs : \A u \in tx[t].held :
        Lockable(row[u]) /\ ~LockedByOther(t, u)

\* Without promotions, enables and writes of other flows, a row that is of an
\* enabled administrator now was one when an operation read it.
ReadsAreAbove ==
    \A t \in Txs : (tx[t].pc # "idle" /\ EnabledAdmin(row[tx[t].user])) => EnabledAdmin(tx[t].read)

\* An operation that may write the row of an administrator holds another one.
WriterHoldsOther ==
    \A t \in Txs : (tx[t].pc = "write" /\ Guarded(tx[t].op, tx[t].read)) =>
        tx[t].held \ {tx[t].user} # {}

\* An operation in progress is one of Ops, and its row asked for it.
InProgress ==
    \A t \in Txs : tx[t].pc # "idle" =>
        tx[t].op \in Ops /\ Needed(tx[t].op, tx[t].read, tx[t].to)

\* The inductive invariant of parallel demotions and disables: the guard counted
\* an administrator that the locks of its transaction keep in place until the
\* write (plugins/admin guardLastAdmin).
ParallelInv == TypeOK /\ AdminRemains /\ LocksHold /\ ReadsAreAbove /\ WriterHoldsOther /\ InProgress

\* With one connection, the row does not change between the read of an operation
\* and its write.
ReadsAreCurrent ==
    \A t \in Txs : (tx[t].pc # "idle" /\ tx[t].op # "write") => tx[t].read = row[tx[t].user]

\* ... because one operation of plugins/admin is open at a time.
OneOpen == \A t, o \in Txs : (tx[t].pc # "idle" /\ tx[o].pc # "idle") => t = o

IdleHoldsNothing == \A t \in Txs : tx[t].pc = "idle" => tx[t].held = {}

\* The inductive invariant of one connection (SQLite): what an operation of
\* plugins/admin decides on is still the row when it writes.
SerialInv ==
    /\ TypeOK /\ AdminRemains /\ LocksHold /\ ReadsAreCurrent
    /\ WriterHoldsOther /\ InProgress /\ OneOpen /\ IdleHoldsNothing
=============================================================================
