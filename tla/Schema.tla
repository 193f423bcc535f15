------------------------------- MODULE Schema -------------------------------
(***************************************************************************)
(* Package schema: the tables of the core and of the plugins, the released *)
(* migration units, and the order in which their statements are rendered.  *)
(*                                                                         *)
(* A table is its name, the tables its foreign keys reference, its indexes *)
(* and the columns that a later unit adds to it; the columns it is created *)
(* with are not told apart.  A statement is known by the name of the       *)
(* object it creates, which is its identifier in the record table.         *)
(***************************************************************************)
EXTENDS Integers, Sequences, SequencesExt, TLC

Table(name, refs, indexes) == [name |-> name, refs |-> refs, indexes |-> indexes, late |-> <<>>]
Extension(table, columns, indexes) == [table |-> table, columns |-> columns, indexes |-> indexes]

\* The names of the tables in the order of their bytes, less the prefix.
NameOrder ==
    <<"accounts", "api_keys", "bootstrap", "credentials", "oauth_access_tokens", "oauth_clients",
      "oauth_codes", "oauth_consents", "oauth_grants", "oauth_keys", "oauth_proofs",
      "oauth_refresh_tokens", "oauth_requests", "oauth_states", "org_invitations", "org_members",
      "org_roles", "org_team_members", "org_teams", "organizations", "plugin_notes", "rate_limits",
      "sessions", "tokens", "totp", "totp_recovery", "users">>

Position == [name \in ToSet(NameOrder) |-> CHOOSE i \in DOMAIN NameOrder : NameOrder[i] = name]

\* Version: 14 digits, as the date and the number within it.
Before(v, w) == v[1] < w[1] \/ (v[1] = w[1] /\ v[2] < w[2])

-----------------------------------------------------------------------------
(* The renderer.                                                           *)

SortTables(tables) == SortSeq(tables, LAMBDA t, u : Position[t.name] < Position[u.name])

\* The tables of rest that are emitted in one pass: those whose references within
\* the list are emitted, before or earlier in the pass.
Emitted(rest, known, done) ==
    LET ready[k \in 0..Len(rest)] ==
            IF k = 0 THEN done
            ELSE LET before == ready[k - 1] IN
                 IF (rest[k].refs \cap known) \ {rest[k].name} \subseteq before
                   THEN before \cup {rest[k].name} ELSE before
    IN  ready[Len(rest)]

\* Mutant: the tables are rendered in name order.
OrderByName(tables) == tables

\* orderTables: pass after pass until nothing remains; a cycle in name order.
OrderTables(tables) ==
    LET known == {t.name : t \in ToSet(tables)}
        pass[k \in 0..Len(tables)] ==
            IF k = 0 THEN [out |-> <<>>, rest |-> tables]
            ELSE LET before == pass[k - 1]
                     names == {t.name : t \in ToSet(before.out)}
                     now == Emitted(before.rest, known, names)
                 IN  [out  |-> before.out \o SelectSeq(before.rest, LAMBDA t : t.name \in now),
                      rest |-> SelectSeq(before.rest, LAMBDA t : t.name \notin now)]
        end == pass[Len(tables)]
    IN  end.out \o end.rest

\* needs: the tables that must be there.
Statement(kind, name, needs) == [kind |-> kind, name |-> name, needs |-> needs]

RenderTable(t) == Statement("table", t.name, t.refs \ {t.name})
RenderIndexes(table, indexes) == [i \in DOMAIN indexes |-> Statement("index", indexes[i], {table})]

RenderTables(tables) ==
    FoldLeft(LAMBDA out, t : Append(out, RenderTable(t)) \o RenderIndexes(t.name, t.indexes),
             <<>>, OrderTables(SortTables(tables)))

RenderExtension(e) ==
    [k \in DOMAIN e.columns |-> Statement("column", e.columns[k], {e.table})]
        \o RenderIndexes(e.table, e.indexes)

\* A statement that drops; needs: the indexes that must be gone.
DropTables(tables) ==
    FoldLeft(LAMBDA out, t : <<Statement("table", t.name, {})>> \o out,
             <<>>, OrderTables(SortTables(tables)))

DropExtension(e) ==
    [k \in DOMAIN e.indexes |-> Statement("index", e.indexes[k], {})]
        \o Reverse([k \in DOMAIN e.columns |-> Statement("column", e.columns[k], ToSet(e.indexes))])

\* A unit creates tables or extends one; its statements are rendered from them.
TableUnit(version, tables) == [version |-> version, tables |-> tables, extends |-> <<>>]
ExtensionUnit(version, e) == [version |-> version, tables |-> <<>>, extends |-> <<e>>]

Rendered(u) ==
    [version |-> u.version,
     up |-> RenderTables(u.tables) \o FoldLeft(LAMBDA out, e : out \o RenderExtension(e), <<>>, u.extends),
     down |-> FoldLeft(LAMBDA out, e : out \o DropExtension(e), <<>>, u.extends) \o DropTables(u.tables)]

-----------------------------------------------------------------------------
(* The tables and the units.                                               *)

CoreV1Tables ==
    <<Table("users", {}, <<"users_email_normalized_key">>),
      Table("credentials", {"users"}, <<>>),
      Table("accounts", {"users"}, <<"accounts_provider_key", "accounts_user_provider_key">>),
      Table("sessions", {"users"}, <<"sessions_token_hash_key", "sessions_user_id_idx">>),
      Table("tokens", {"users"}, <<"tokens_kind_hash_key", "tokens_kind_identifier_idx">>),
      Table("oauth_states", {}, <<"oauth_states_state_hash_key">>),
      Table("totp", {"users"}, <<>>),
      Table("totp_recovery", {"users"}, <<"totp_recovery_code_hash_key", "totp_recovery_user_idx">>)>>

CoreExtension ==
    Extension("users", <<"users.role", "users.disabled_at", "users.must_change_password">>,
              <<"users_role_idx">>)

CoreUnits ==
    <<TableUnit(<<20260101, 0>>, CoreV1Tables), ExtensionUnit(<<20260910, 1>>, CoreExtension)>>

APIKeysTable ==
    [Table("api_keys", {"users"}, <<"apikeys_key_hash_key", "apikeys_user_id_idx">>)
        EXCEPT !.late = <<"api_keys.org_id", "api_keys.scopes">>]

\* unitOf, orgColumnUnit, scopesColumnUnit of plugins/apikeys.
APIKeysUnits ==
    <<TableUnit(<<20260910, 2>>, <<APIKeysTable>>),
      ExtensionUnit(<<20261101, 7>>, Extension("api_keys", <<"api_keys.org_id">>, <<>>)),
      ExtensionUnit(<<20261215, 1>>, Extension("api_keys", <<"api_keys.scopes">>, <<>>))>>

RateLimitsTable == Table("rate_limits", {}, <<>>)
BootstrapTable == Table("bootstrap", {}, <<>>)

OrganizationTables ==
    <<Table("organizations", {}, <<"organizations_slug_key">>),
      Table("org_members", {"organizations", "users"},
            <<"org_members_org_role_idx", "org_members_org_user_key", "org_members_user_idx">>),
      Table("org_invitations", {"organizations"},
            <<"org_invitations_org_status_idx", "org_invitations_token_key">>),
      Table("org_roles", {"organizations"}, <<"org_roles_org_name_key">>),
      Table("org_teams", {"organizations"}, <<"org_teams_org_name_key">>),
      Table("org_team_members", {"org_teams", "users"}, <<"org_team_members_key">>)>>

SessionOrganizationExtension == Extension("sessions", <<"sessions.active_org_id">>, <<>>)

OrganizationUnits ==
    LET unit(number, first, last) ==
            TableUnit(<<20261101, number>>, SubSeq(OrganizationTables, first, last))
    IN  <<unit(1, 1, 1), unit(2, 2, 2), unit(3, 3, 3), unit(4, 4, 4), unit(5, 5, 6),
          ExtensionUnit(<<20261101, 6>>, SessionOrganizationExtension)>>

OAuthProviderTables ==
    <<Table("oauth_keys", {}, <<>>),
      Table("oauth_clients", {"users"}, <<"oauth_clients_client_id_key", "oauth_clients_owner_idx">>),
      Table("oauth_requests", {}, <<"oauth_requests_expires_idx">>),
      Table("oauth_grants", {"users"}, <<"oauth_grants_user_client_idx">>),
      Table("oauth_codes", {"oauth_grants"}, <<"oauth_codes_code_hash_key">>),
      Table("oauth_access_tokens", {"oauth_grants"},
            <<"oauth_access_tokens_expires_idx", "oauth_access_tokens_grant_idx">>),
      Table("oauth_refresh_tokens", {"oauth_grants"},
            <<"oauth_refresh_tokens_grant_idx", "oauth_refresh_tokens_hash_key">>),
      Table("oauth_proofs", {}, <<"oauth_proofs_expires_idx">>),
      Table("oauth_consents", {"users"}, <<"oauth_consents_user_client_key">>)>>

OAuthProviderUnits ==
    LET unit(number, first, last) ==
            TableUnit(<<20261201, number>>, SubSeq(OAuthProviderTables, first, last))
    IN  <<unit(1, 1, 1), unit(2, 2, 3), unit(3, 4, 5), unit(4, 6, 9)>>

\* A plugin of the host that contributes a table and no unit.
PluginTable == Table("plugin_notes", {"users"}, <<"plugin_notes_note_idx">>)

AllPlugins == {"apikeys", "storelimit", "admin", "organizations", "oauthprovider", "host"}

\* What Register of a plugin, or the limiter as a SchemaContributor, adds.
Contribution ==
    [apikeys       |-> [tables |-> <<APIKeysTable>>, extends |-> <<>>, units |-> APIKeysUnits],
     storelimit    |-> [tables |-> <<RateLimitsTable>>, extends |-> <<>>,
                        units |-> <<TableUnit(<<20260910, 3>>, <<RateLimitsTable>>)>>],
     admin         |-> [tables |-> <<BootstrapTable>>, extends |-> <<>>,
                        units |-> <<TableUnit(<<20260910, 4>>, <<BootstrapTable>>)>>],
     organizations |-> [tables |-> OrganizationTables, extends |-> <<SessionOrganizationExtension>>,
                        units |-> OrganizationUnits],
     oauthprovider |-> [tables |-> OAuthProviderTables, extends |-> <<>>, units |-> OAuthProviderUnits],
     host          |-> [tables |-> <<PluginTable>>, extends |-> <<>>, units |-> <<>>]]

\* New registers the plugins one after the other; the order of AllPlugins here.
Registered(plugins) ==
    SelectSeq(<<"storelimit", "organizations", "admin", "apikeys", "oauthprovider", "host">>,
              LAMBDA p : p \in plugins)

\* What the plugins add of one kind, after what the core has of it.
Contributed(core, kind, plugins) ==
    FoldLeft(LAMBDA out, p : out \o Contribution[p][kind], core, Registered(plugins))

\* The effective schema: the tables, and the columns and indexes of the extensions.
Tables(plugins) == Contributed(CoreV1Tables, "tables", plugins)
Extensions(plugins) == Contributed(<<CoreExtension>>, "extends", plugins)

\* Units: the registered ones, and one for each table that none of them creates.
Units(plugins) ==
    LET units == Contributed(CoreUnits, "units", plugins)
        covered == UNION {{t.name : t \in ToSet(u.tables)} : u \in ToSet(units)}
        loose == SelectSeq(SortTables(Tables(plugins)), LAMBDA t : t.name \notin covered)
    IN  SortSeq(units \o [i \in DOMAIN loose |-> TableUnit(<<20260910, 900000 + i>>, <<loose[i]>>)],
                LAMBDA u, v : Before(u.version, v.version))

\* The files of the units, and Render, after the statement of the record table.
Files(plugins) == FoldLeft(LAMBDA out, u : Append(out, Rendered(u)), <<>>, Units(plugins))
Render(units) == FoldLeft(LAMBDA out, u : out \o u.up, <<>>, units)

\* Check of the catalog: the tables and their columns, no index.
CatalogOf(plugins) ==
    UNION {{t.name} \cup ToSet(t.late) : t \in ToSet(Tables(plugins))}
        \cup UNION {ToSet(e.columns) : e \in ToSet(Extensions(plugins))}

\* Everything the effective schema has.
ObjectsOf(plugins) ==
    CatalogOf(plugins)
        \cup UNION {ToSet(t.indexes) : t \in ToSet(Tables(plugins))}
        \cup UNION {ToSet(e.indexes) : e \in ToSet(Extensions(plugins))}
=============================================================================
