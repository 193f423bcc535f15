---------------------------- MODULE MCAdminGuard ----------------------------
(* The TLC run of AdminGuard: Postgres and SQLite side by side. *)
EXTENDS AdminGuard, TLC

CONSTANTS a, b, c, t1, t2

VARIABLE sqlite

\* SQLite, where all operations of plugins/admin are safe together.
One == INSTANCE AdminGuard WITH Serial <- TRUE, Ops <- AllOps \ {"write"}

MCInit == (sqlite = FALSE /\ Init) \/ (sqlite = TRUE /\ One!Init)

MCNext == ((~sqlite /\ Next) \/ (sqlite /\ One!Next)) /\ UNCHANGED sqlite

MCSpec == MCInit /\ [][MCNext]_<<vars, sqlite>>

Symmetry == Permutations(Txs)
=============================================================================
