---------------------------- MODULE MCMigrations ----------------------------
(* Constants of the TLC run of Migrations. *)
EXTENDS Migrations

CONSTANTS i1, i2

\* No database yet, the v1 release, and the release before the organizations.
MCCuts == {<<20250101, 0>>, <<20260101, 0>>, <<20261030, 0>>}

MCReleases == {{"organizations", "apikeys", "host"}, {"admin", "storelimit", "oauthprovider"}}
=============================================================================
