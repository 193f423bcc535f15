# Auth-All: TLA+ models, runs and proofs

Auth-All is a Go library that a host program embeds to authenticate its users:
sessions, passwords, mailed links, a second factor, administrators, external
providers, organizations, API keys and an OAuth authorization server. Several
instances of the host share one SQL database (Postgres, or SQLite with one
connection). Everything that survives a request is in that database, except two
caches in the memory of each instance: of principals, and of signing keys. No
lock is held across the statements of a handler, so the correctness of the
library rests on what single SQL statements and short transactions guarantee
when the handlers of many requests interleave, end early and meet each other's
rows. That is what this project models.

Paths are relative to the repository, module names to this directory.

## Inventory

| Part | State | Operations | What is hard | What makes it correct |
|---|---|---|---|---|
| Session authentication (`sessions.go`, `principal.go`, `principalcache.go`) | `sessions`, `users.disabled_at`, one cache per instance | resolve a token, expire, touch, issue, revoke, clean up | a read, three deadlines, a touch and a cache write are separate steps | what ends a credential ends it everywhere within a bound |
| Account flows (`operations.go`, `users.go`, `handlers_tokens.go`, `handlers_account.go`, `plugins/magiclink`) | `users`, `credentials`, `sessions`, `tokens` | sign-in, rehash, change, reset, verify, magic link, email change, delete | check before write, whole-row updates, list and then delete | sessions from before a change end; a replaced password is dead; nothing outlives its user |
| Second factor (`handlers_totp.go`, `internal/sqlstore/totp.go`) | TOTP row, recovery codes, challenges | enrol, confirm, verify, recover, regenerate, disable | single use under concurrency, several statements without a transaction | each proof counts once; a confirmed factor is asked for |
| Admin plugin (`plugins/admin/operations.go`) | role and `disabled_at` of users | create, set role, disable, enable, reset | a guard that counts administrators while others demote them | an enabled administrator remains |
| Registration (`handlers_oauth.go`, `handlers.go`, `plugins/admin/bootstrap.go`, `plugins/magiclink`) | users, credentials, accounts, OAuth states, bootstrap row | sign-up, callback, link, unlink, magic sign-up, bootstrap, create by an administrator | repeated and parallel callbacks, rows that exist before what makes them usable | everybody keeps a way in; a state and the bootstrap count once |
| Organizations (`plugins/organizations`) | organizations, members, invitations, teams, custom roles, active organization | create, invite, accept, set role, suspend, remove, list, delete | authorization outside the transaction that writes | an owner remains; no permission beyond what its giver held |
| API keys (`plugins/apikeys`) | key rows, the principal cache | create, revoke, resolve, touch, clean up | five reads one after the other, then cached | authority ends in the bound |
| Authorization server (`plugins/oauthprovider`) | clients, requests, consents, grants, codes, access and refresh tokens | authorize, decide, exchange, rotate, revoke, introspect, userinfo | no transactions; replay, crash between rotation and successor | one chain per code; what is ended stays ended; scopes only shrink |
| Keys and proofs of it (`keys.go`, `dpop.go`) | signing keys in the table and in memory; claimed proofs | sign, verify, rotate, restart; claim, clean up | rotation of several instances at once | each token verifies everywhere; a proof counts once |
| Rate limits (`ratelimit/`) | counters of an operation, a scope and a subject | decide, clean up | attempts count in another order than they read the clock, and rules of one operation and scope in one row | a fixed window |
| Schema and migrations (`schema/`, `migrations/`, `internal/sqlstore/migrator.go`, `cmd/auth-all`) | the database's objects, the record table, exported files | plan, apply, check, export | deploys race and end anywhere, no transaction and no lock | what is recorded exists; an instance serves a complete schema |
| Hooks and events, HTTP, configuration, cryptography, client generator, tools | none, or none that lasts | | | |

The parts interact by the rows they share: a password reset and a sign-in meet
in `credentials` and `sessions`, an administrator and a mail link in the columns
of one `users` row, a removed member and an API key in `org_members`; every flow
ends in `createSession`. Instances exchange no messages. `PROJECT.json` lists
each part with what is modelled of it, the lines that each definition stands
for, and the hazards of this code with the properties that cover them.

## Modules

| Module | Models | Uses |
|---|---|---|
| `PrincipalCache` | one request's authentication, statement by statement, on several instances, against everything that ends a session | |
| `PrincipalCacheProofs` | theorems about it and about `ApiKeys`, whose bound is the same | `PrincipalCache`, `ApiKeys` |
| `Accounts` | the flows that change an account, in parallel | |
| `AccountsProofs` | theorems about it and about `Migrations` | `Accounts`, `Migrations` |
| `Totp`, `TotpProofs` | the second factor of one user | |
| `AdminGuard` | `guardLastAdmin` and the operations around it | |
| `Registration` | how a user comes into the system and which ways in it keeps | |
| `RegistrationProofs` | theorems about it and about `AdminGuard` | `Registration`, `AdminGuard` |
| `Permissions` | statements and sets of `permission.go`, and their reference | |
| `Organizations` | members, invitations, custom roles, teams, the active organization | `Permissions` |
| `OrganizationsProofs` | theorems about it and about `Permissions` | `Organizations` |
| `ApiKeys` | keys of a user and of an organization, through the caches | `Permissions` |
| `OAuthGrants`, `OAuthGrantsProofs` | requests, consents, codes, grants, access and refresh tokens, clients | |
| `OAuthResource`, `OAuthResourceProofs` | signing keys of several instances, DPoP proofs | |
| `FixedWindow` | what a limiter promises, whatever keeps its counters | |
| `RateLimit` | both limiters; implements `FixedWindow` | `FixedWindow` |
| `RateLimitProofs` | theorems about it, with the refinement | `RateLimit` |
| `Schema` | tables, units, rendered statements, as functions of the plugins | |
| `Migrations` | Apply, Plan, Check and the exported files | `Schema` |
| `MC*` | model values, scenes and symmetry for TLC | the module it is named after |

The modules share conventions. A request is a record of the local variables of
its handler with a program counter `pc`. A statement is a step. A transaction
whose statements are all writes is one step, its commit; one that reads first is
several, since a plain SELECT under READ COMMITTED holds nothing; a row lock is
a field of the request that holds it. A request that is refused before it
changes anything is no step. Histories (variables that no action reads) carry
what a property has to remember. Where not every pair of operations can be
afforded together, a constant `Mixes` (`Scenes`, `Parts`) says which happen in
one behaviour, and its value in the MC module is part of the bounds.

**PrincipalCache.** `row[s]` is the sessions table, `cache[i][s]` the deadline of
the entry of an instance. `Begin` is `resolvePrincipal` up to the answer of
`principalCache.get`, `ReadSession` the joined SELECT with the check of
`disabled_at`, `CheckDeadlines` the clock and the three deadlines, then
`ExpireSession`, `TouchSession`, `CachePut`. Time is a number; the clock does not
pass `start + MaxDelay` while a request runs. The code has no such limit of its
own, the server timeout of the host gives it; without one no bound of any kind
holds. The size limit of the cache map removes ended entries only.

**Accounts.** A password is the number of the era in which it was set: `era[u]`
counts the committed changes that have to end the sessions from before, so
"older password" and "older session" are comparisons of numbers. `mailed` holds
the live one-time tokens; `ForgotPassword`, `SendMagicLink`, `SendVerification`
and `EmailChangeStart` issue them and `ConsumeToken`, `VerifyToken` use them up.
`StoreFails` lets revocations fail, which the code logs and ignores.

**Totp.** A code is a pair of secret and step; distinct pairs show distinct
digits. `AdvanceStep`, `Confirm`, `SpendRecovery`, `UpsertUpdate`/`UpsertInsert`
and `ReplaceDelete`/`ReplaceInsert` are the statements of
`internal/sqlstore/totp.go` with their WHERE clauses; the DELETE remembers the
rows it matched. `RevokeList` and `RevokeOne` are `revokeOtherSessions`, whose
statements may fail: the handler logs that and answers success, and the history
`logged` says so. `Abort` ends a request between two statements.

**AdminGuard.** Each operation reads the row, asks the guard or not, and writes
the whole row. `LockSnapshot` and `LockRow` are SELECT ... FOR UPDATE: a
snapshot, then row by row, waiting and evaluating the condition again. `Serial`
is SQLite. Roles are ranks; a role above the administrator's counts for
`AtLeast` and is not found by the guard's query, as in the code.

**Registration.** A scene is a set of flows and the tables at the start. Browsers
carry a state cookie and a session. The callback is the consumption of the
state, the external exchange (any identity), the lookup of the account, the
decision by address, the inserts under their unique indexes, and the session.
`Unlink` is four steps under the lock of the users row. Bootstrap is the count,
`Users().Create`, the transaction that claims the guard row, and the removal of
the loser's user, with `Abort` between any two.

**Organizations, Permissions.** What a request does before it writes is a
sequence of reads. `Grant` is `knownRole`: a custom role that is to be given is
read first. `Ask` is the membership of the actor, whose declared role decides at
once, and `Permit` the custom role of an actor that has one; `Decide` compares.
What follows reads again, locks and writes. `held` is the history of what the
actor held when its membership was read, and `remade` says that the custom role
a request has read was deleted and created again before the request wrote
(`Stale`). `wielded` collects, per organization, what actors both held and gave;
`Reach` turns a set of statements into the checks it lets through, and `Covers`
is `Set.Covers` with its two wildcards. `Denotes` and `Denotation` restate the
table in the head of `permission.go`, the reference that `OrganizationsProofs`
compares `Covers` with.

**ApiKeys.** `KeyCredential` is five reads. Time is relative: what is to run is
counted down, what has passed is counted up to the bound. What a principal
carries is a set of claims: the key with its owner, the ranks up to its role, the
active membership, the permissions. `watch` is any one of them and `lost` the
time since the rows stopped supporting it. Who revoked a key and when it was last
used are data of the row and left out.

**OAuthGrants.** One flow is one authorization request with the grant and code
it can make. Nothing in the plugin opens a transaction, so each statement is a
step and `Abort` may end a request after any. A client that the host declares is
taken to have a secret, so it may ask for a grant of its own
(`ClientCredentials`). Time is left out: rows expire, and the rotation grace
ends, at any moment. **OAuthResource** has the two parts that do need time or
memory: `keyMu` makes the key work of one instance a sequence (`job`), while
instances interleave.

**RateLimit, FixedWindow.** An attempt reads the clock once and counts later, for
one rule after the other. The key of a row is operation, scope and subject
(`RowOf`) and names no rule: rules of one operation and scope share it, an attempt
counts in it once for each of them, and the rule with the shortest window
(`Shortest`) starts it anew for all. A bucket is a rule with a subject, what a
grant is counted for. `FixedWindow` knows only when the latest window of a
subject began and what was granted in it.

**Schema, Migrations.** A statement is known by the object it creates. The
tables, indexes and units are those of the repository; `OrderTables` is the
renderer's order. The statements that an instance has to run are a set of places
in that order, of which the first is next. `Exec` and `Record` are the two
statements of Apply, `Up` and `Down` the host's tool on exported files, `Serve` the
check at the start of an instance. `RendererSound` says what the renderer gives:
TLC evaluates it on each of the 64 sets of plugins, once, as part of `InOrder`.

## Runs

| Run | Shows |
|---|---|
| `PrincipalCache_bound` | no request begun `MaxDelay + CacheTTL` after a revocation, a Disable, the end of the lifetime or of the idle timeout is accepted; no step restores a revoked row |
| `Accounts_flows` | all ten flows in pairs, revocations may fail: rows have owners, older sessions end, a replaced password signs in no more |
| `Totp` | each code, recovery code and challenge counts once; a confirmed factor is asked for and, unless a failed revocation was logged, ends the older sessions |
| `AdminGuard` | three administrators, Postgres with parallel demotions and disables, SQLite with every operation: one remains |
| `Organizations_members` | an owner remains, an invitation counts once, nothing outlives the organization, the pages of a list lose nobody, who left is not active |
| `Organizations_access` | no grant gives what its own actor did not hold, unless its custom role was made anew under it; nobody holds a permission, by role or by team, that no actor both held and gave |
| `OAuthGrants` | one chain of tokens for a code; nothing that begins after the revocation of a grant is answered or accepted; scopes only shrink and keys stay bound |
| `OAuthResource` | every signed token verifies on every instance; a proof counts once although its row is removed |
| `ApiKeys` | authority that the rows no longer support ends in the bound; keys go with their organization |
| `Registration` | everybody keeps a way in; states, identities and Bootstrap count once; a Bootstrap race ends with an administrator (liveness) |
| `RateLimit` | both limiters implement the fixed window whose length is the shortest of the rules in a row; a burst is at most twice the limit; no refused caller succeeds before the time it was told, less the excess of the rule's window over that shortest one |
| `Migrations` | statements come in order for every older database; what is recorded exists; repeated deploys complete (liveness) |

A type invariant is a conjunct of one property per module.

**Bounds.** Two requests meet in every pair of the races above, in `ApiKeys` in
both of its parts. One user is enough in `Accounts` and `Totp`, whose rows
belong to one user; three in `AdminGuard` and `Organizations_members`, for an
actor, a target and a third. `PrincipalCache_bound` and `ApiKeys` have one
instance: instances meet in the rows only, no cache acts on another, and an
instance that lacks an entry does what one does whose entry has ended; the
proofs have any number of instances. `PrincipalCache_bound` runs one session for
7 ticks, which reaches the lifetime plus the bound (5 + 2) and, while the
lifetime runs, the idle timeout plus the bound (2 + 2); with two sessions of one
user and one request at a time it stops at `PairTime = 3`, one bound after a
revocation at 1. `MaxEra = 2` lets one flow move the era; one that began before
it still finishes. `Totp` uses the five endpoints of an enrolled user at one
time step and the three that look at steps at two; a user who enrols gets one
challenge, which nobody answers. `RateLimit` has three rules, with windows of 3,
2 and 3 ticks and limits of 1, 3 and 2, of which the last two share their row,
three attempts and a clock to 4: windows begin while others are open, and the
shorter window of the shared row ends within the longer. `Organizations_access`
runs four mixes (`MCAccess`), in each of which two requests give, take away or
redefine at the same time. `OAuthGrants` has one flow and three refresh tokens:
a token, its successor, and one that must not exist beside it. `OAuthResource`
has three instances and three keys, as mutual retirement needs two of each and a
witness. `Migrations` starts from no database or one of two older releases, with
one fault; two instances of two releases. Counters of the bounds are guards of
the actions (`MaxEra`, `MaxMail`, `MaxSet`, `MaxStep`, `MaxTime`, `MaxAttempts`,
`MaxKey`, `MaxFaults`, `PairTime`, the finite sets of identifiers).

Symmetry is used where no definition orders the values and `Init` does not tell
them apart, and not in the runs with liveness properties. Most runs use up their
identifiers and may then stop, so they say `CHECK_DEADLOCK FALSE`; only
`PrincipalCache_bound` checks deadlock. `AdminGuard` does not: an
operation that waits for a row lock may always be rolled back, so the check
would say nothing.

**Fairness.** `Registration` assumes weak fairness of `Continue(q)` for each
request: a handler that has begun runs to its end unless `Abort` ends it. Go
schedules every goroutine, and the store answers or fails. Nothing is assumed of
users, providers or browsers. `Migrations` assumes weak fairness of `Step(i)`:
a deploy proceeds, and one that failed is started again, which is what the error
of Check tells the operator to do. Crashes and failed reads are bounded by
`MaxFaults`, since no progress is promised to a deploy that never stops
crashing. The other modules state no liveness: their handlers wait for nobody.

**Refinement.** `RateLimit` implements `FixedWindow`: `Implements` is its
specification over the histories `last` and `granted`, with the limit of each rule
and, as its window, the shortest of the rules that share its row. Where no two
rules have one operation and scope, these are the configured windows. It says that
rollover, late counting, failed
statements and Cleanup never open two windows within one window length and never
grant above the limit.

## Proofs

TLAPS checks the following for every value of the constants that satisfies the
assumption named in each module (`TimeAssumption`, `AdminAssumption` and so on);
TLC evaluates them on the runs. They say that null values are not identifiers,
that bounds are numbers, and what follows from the code or is a duty of the host:

* `RateLimitAssumption`: the age at which Cleanup takes counters is at least
  each window plus `MaxDelay`; the one rule of `Memory` shares no counter with
  the others. `OAuthResourceAssumption`: a claimed proof is kept for
  `ProofWindow + MaxDelay`.
* `OrganizationsAssumption`: an organization that exists at the start has an
  active owner, and its members have declared roles, as `CreateOrganization`
  leaves it.
* `TotpAssumption`: every scene has a secret.

The proofs of one module share an inductive invariant. It is named `Inv` (or
after what it bounds), and what a run checks follows from it. Besides types it
says what a request in flight *carries* from one statement to the next, because
the properties speak of tables only, and a table alone does not tell what a
request that read it earlier will still write. Each action has a lemma
(`...Keeps`) that it preserves the invariant; frame lemmas (`QuietKeeps`,
`MoveKeeps`) say it once for the steps that leave the tables alone or move only
forward.

`PrincipalCacheProofs`:

* `TypeCorrect`, and `BoundInvariant`: `BoundInv` is inductive. Acceptance alone
  is not: one has to know what a request in flight has seen. `RequestTime` says
  that a request past its read began before its session ended and its user was
  disabled, and passed the deadlines before the end of the lifetime; `CacheTime`
  says that an entry ends within `MaxDelay + CacheTTL` of whatever ended its
  session. A put moves the first into the second.
* From it `RevocationBound`, `DisableBound`, `LifetimeBound` and, with the lemma
  that every step changes a row in one of four ways, `NeverRestored`.
* `IdleInvariant` and `IdleBound`. Touches move the idle deadline, so more is
  needed: `UseTimes` bounds row, entries and requests by the last use, and
  `GapSelf`/`GapPair` say of a request that came after a gap that no other
  request of the session can pass the check and touch the row, unless it began
  before the gap and so writes a time from before it.

On `ApiKeys`, which the same module instantiates (so its assumption is a
hypothesis of the theorems), for any number of keys, instances and requests and
any declared roles: `KeyInvariant`, and from it `KeyBound` and `KeysGoToo`. `Fresh`
says of a request between two reads that everything it claims, and everything it
is about to claim from what it has read, was supported by the rows within its
age; `Cached` says the same of an entry, by what is left of it. That the claims of
an organization key rest on five reads is where the proof has work: the
permissions of the owner's role and of the key's role are each what the rows
supported when they were read, and the intersection lies within the first
(`NarrowedToOwner`). A request that saw the custom role change between its reads is
`torn` and the exception, here as in the property.

`RegistrationProofs`, on `Registration`, for any number of users, providers,
browsers and requests and any flows at once: `RegistrationInvariant`, then
`StatesCountOnce`, `OneAdministrator`, `AccountBehindSession` and
`EverybodyKeepsAWayIn`. The last is the one that needs an argument. `Ways` says
that who lives and has no way in is the `Half` of a Bootstrap or a CreateUser, and
each removal has to leave another way: an unlink, because `Carries` says that the
request past its check holds the lock of the users row, and has seen a password or
an account of another provider which nothing takes away under that lock (`Others`
lists what a step leaves to the requests it is not of); a proof of the address,
because it writes the row as verified when it takes the password. That the row it
writes back does not take the administrator's role from, or give it to, anybody is
the conjunct on `guard`. `Backed` keeps the account of a sign-in, or the reason why
there is none any more. The assumption on the constants includes `Consistent`: the
rows at the start are some that the code leaves.

On `AdminGuard`, which the same module instantiates (its assumption is a
hypothesis of the theorems): `AdminTypeCorrect`, `ParallelGuard` (with demotions and
disables only, `AdminRemains`) and `SerialGuard` (one connection, every operation of
the plugin). The first needs `LocksHold`, that a counted administrator stays one
until its holder ends, and `ReadsAreAbove`, that a row read as not an
administrator has not become one, which promotions break. The second needs that
the row a transaction read is still the row. `CountedRowsStay` proves `LocksHold`
for every mix of operations, since a row that was counted is locked. They have any
number of users and transactions, where the run has three and two.

`RateLimitProofs`: `ImplementsFixedWindow`, for every set of rules, those that share
a row included, every number of callers, instances and attempts and all limits and
windows. A row alone does not show that the next window of a rule begins late
enough, because Cleanup removes rows and because other rules count in them.
`WindowsRemembered` proves `WindowInv` inductive: a row that exists knows the
latest window in which each of its rules granted its subject, and counted at
least what was granted in it; where there is none, that window ended at least
`MaxDelay` ago (`Remembered`). As an attempt counts with a clock it read at most
`MaxDelay` ago (`Recent`), the window it opens begins after that end.
`RateLimitAssumption` has the one condition on the host: the age at which Cleanup
takes rows is at least each window plus `MaxDelay`.

`RetryAfterHonest`: an attempt that begins after a refusal and passes every rule
does so no earlier than the time its caller was told, but for what `Overdue`
allows: `MaxDelay`, since a caller counts from the answer and the code from its
clock read, and the excess of a rule's window over the shortest of its row.
`Waits` says of each time that a caller was told or is about to be told that it
is over, or that a rule which the attempt has not yet counted refuses the caller
until then.

`BurstAtMostTwice`: `Spent` says that the grants of a rule to a subject are those of
windows which begin a full window (the shortest of the row) apart, at most the
limit in each, and that a grant comes at most `MaxDelay` after the end of its
window. The grants in a span shorter than such a window by `MaxDelay` are then those
of two windows (`TwoWindows`): the first and the last of three begin two windows
apart. The grants are a numbered set, so that each counts (`EveryGrantCounts`).
`TypeInv` has the types with the bounds of a run.

`OAuthResourceProofs`, for any number of instances, keys, proofs and requests:
`TokensStayVerifiable` (no operation deletes the row of a key that signed, and a
signer in memory has a row), `SigningKeyFound` (`signingKey` returns neither key
nor error only after two rotations overlapped: without an overlap, a rotation
that retires the others has a live key of its own, so whoever reloads finds one)
and `ProofAcceptedOnce` (`ClaimsKept`: a request between the check and the claim
is at most `MaxDelay` old, so the row that Cleanup takes belongs to a proof that
nobody can present in time any more).

`OAuthGrantsProofs`, for any number of flows, clients, refresh tokens and requests
and any mix of operations: `ChainInvariant`, and from it `OneChainPerGrant`,
`ScopesNarrow`, `NothingAfterTheEnd`. The chain of a grant has one end
(`OneTip`): its unspent code, one request that has spent the code or the token
before, or one live row. `Reserved` says that the identifier a rotation has
written into a row belongs to one request until the successor exists, `OneMaker`
that one request makes the grant and code of a flow, and `Late` how far a
request gets that began after the end of its grant. Rows may still be inserted for
a grant after its rows were revoked, by requests that were under way, and they are
live: what `NothingAfterTheEnd` says is that a call which begins after the
revocation is neither answered with a token nor accepted with one, since it
meets the check of the grant. A crash anywhere leaves no
end at all, which the invariant allows.

`TotpProofs`: `FactorInvariant`, then `FactorsCountOnce`, `PasswordAloneIsOld`
and `UpgradeRevokes`. `StepKept` relates `last_step` to every code that was ever
accepted, also of secrets that are no longer in the row (`proven`); `SetKept` says
that a recovery code in the table, or one that is in no set yet, was not
accepted; `OneHolder` that a consumed challenge is with one request or became one
session. `Predates` is inductive because whatever confirms an enrolment counts
up `confirms`. `UpgradeRevokes` is about a confirmation that logged no failure:
`Left` says that what has not ended is on its list.

`AccountsProofs`: `AccountsInvariant`, then `RowsEndWithUser`,
`EarlierSessionsEnd` and `ReplacedPasswordsStayDead`. `Kept` says of a request that
the row it will write back was read of a user who existed, and that it opens no
session on a password older than its beginning. `Ended` lists what a flow has yet
to revoke: between its commit and its answer every older session of the user is on
its list, is the one it keeps, or has ended. `EndedStaysEnded` is about the
whole-row writes of `users.go:114`, which may undo a verification or a Disable: they
bring back no deleted user and no ended session.

On `Migrations`, which the same module instantiates, for any number of processes,
any releases, older databases and faults: `RecordedIsThere`, `StatementsInOrder` and
`ServesCompleteSchema`.

* `Recording` says that a process whose statement has run is about to record an
  object that is there, and that nothing is recorded where the host has a tool of
  its own, which is where objects are dropped. `RecordedIsThere` needs no more.
* `RunOk` says of a process that what is not pending in the order of `Render` is
  there, whoever created it; so the tables that the next statement names are there
  (`NothingMissing`), although another process may have planned otherwise and a
  plan may be older than the database.
* `Ordered` adds that the tool of the host leaves whole files: `objects` is what
  the applied files have made (`Made`). `FileRuns` and `FileReverts` show that the
  next file runs, that the last one reverts, and that nothing else goes with it;
  the latter needs that a statement names only objects of its file or of an
  earlier one (`NeedsMadeBefore`).
* `CheckedIsComplete`: all recorded statements, or all catalogued columns, stand
  for the whole schema; the catalog lists no index, so whole files are needed.

`StatementsInOrder` and `ServesCompleteSchema` assume `RendererSound`, which has no
variable and no parameter: it is about the 27 tables and the units of the library,
and TLC finds it true. The theorems carry it from the lists of statements to every
interleaving of deploys, crashes and restarts.

`OrganizationsProofs`, first on `Permissions`, for any resources and actions of
which none is the wildcard: `CoversMatchesTable` (`Set.Covers` lets a concrete
check through only by a statement to which the table of the package comment gives
that meaning, and lets all of those through if the set has no `*:*`, which
`Covers` does not look up), `CoveredReachesNoMore` (a set that covers every
statement of another reaches at least as much, which is what `authorizeGrant`
relies on) and `IntersectionIsBounded` (a key narrowed to its owner reaches no
more than either). Then on the plugin, for any number of users, organizations,
invitations, teams and requests, any page size and any set of operations:
`OrganizationsInvariant` and from it the six properties of the two runs.

* `AnOwnerRemains`: `Locking` says that who has passed `guardOwner` holds the rows
  of active owners, one of them not its target, and that nobody else holds locks in
  that organization. The exceptions are those of the code, in `unguarded`.
* `NobodyAboveTheGivers`: `Holds` says of a request past its authorization that its
  actor held all that the request gives and, unless the role was made anew
  (`remade`), that the custom role is at most what was read, since a role that is
  there changes only by its deletion. `AskKeeps` and `DecideKeeps` establish it once
  for every operation; the step from the statements compared to what they reach
  is `CoveredReachesNoMore`. `Gives` follows a role from there to the row, and needs
  no exception, because a custom role that is made anew was itself given.
* `NothingStaysBehind`, `InvitationsSpentOnce`, `LeaversAreInactive`: conditions on
  rows (`MembersOk`, `TeamsOk`, `InvitesOk`, `Unspent`, `ActiveOk`), together with
  `Carries`, that a request under way names an organization that exists or did.
* `PagesSkipNobody`: `Listing` says that a member who was there throughout is
  beyond the cursor or was listed. It needs that the page is an initial segment of
  the rows after the cursor (`PageIsInitial`), which rests on finite sets of
  numbers having a least and a largest element.

Model-checked only: `RendererSound`, what the renderer of `Schema` computes for
lists of tables, which would need induction over data and is evaluated for each
set of plugins instead. Liveness under fairness (`BootstrapCompletes`,
`Progress`) is out of the prover's reach and left to TLC.

## Where code, comments and guides part

What follows is in the models as the code has it. The properties name it as
their exception, or it is outside of them.

* *Accounts.* A sign-in that verified the old password of a weak hash writes a
  hash of it back after the replacement (`operations.go:134`); `reverted` marks
  such users. `Users().Update` writes every column from an earlier read
  (`users.go:114`), so proving an address may enable a user that was disabled
  meanwhile. A sign-in that passed its check before a reset inserts its session
  after it.
* *Totp.* Enrolment may replace a confirmed row while its confirmation is in
  flight (`handlers_totp.go:161`), and `AdvanceStep` does not ask which secret
  the row holds. A request that ends after the confirmation leaves no recovery
  codes. A confirmation whose revocation of the older sessions fails logs it and
  answers success (`handlers_account.go:418`), and those sessions, which a password
  alone opened, live on: `logged`.
* *PrincipalCache.* The documented consistency bound is the cache time; an entry
  counts from when it is stored, so the bound is longer by the time a request
  takes (`principalcache.go:85`).
* *AdminGuard.* The guard is asked according to an unlocked read
  (`plugins/admin/operations.go:170`): a demotion that overtakes a promotion is
  not guarded. SI-05 therefore holds of parallel demotions and disables, and of
  SQLite; with promotions on Postgres `AdminRemains` fails, so those are left out of
  the run of `AdminGuard`.
* *Organizations.* The owner guard, too, is asked according to an unlocked read,
  and the deletion of an account asks nobody: `unguarded` (ORG SI-03,
  `docs/guides/security-model.md:401`). The member limit is counted without a
  lock (`members.go:309`, against `docs/guides/organizations.md:125`).
  `setActiveSession` may name an organization that its user left meanwhile. That
  a member never gives a permission that it does not hold (ORG SI-02,
  `security-model.md:397`; `docs/guides/organizations.md:100`, `members.go:36`,
  `teams.go:42`) is decided on reads: `knownRole`, `authorize` and the write are
  statements of their own and no lock spans them. A custom role that is deleted
  and created with more between them gives what the actor of the grant never
  held, though the actor who created it did. `OwnGrants` excepts exactly that,
  as `remade`, and the other half of `Ceiling` says what still holds then. A
  removed member keeps its rows in `org_team_members`, and to put someone in a
  team asks for `team:write` only. A set with `*:*` allows no concrete
  statement.
* *ApiKeys.* The owner of an organization key gives it the whole of its role and
  the intersection is taken afterwards (ORG SI-08, `security-model.md:413`). A key
  authorized before the deletion of the organization is inserted after it and
  stays as a row that authenticates nothing (ORG SI-10). The reads of
  `KeyCredential` may see the custom role in two states.
* *OAuthGrants.* A withdrawal between consent and decision leaves a code for the
  withdrawn consent; a narrower consent replaces a wider one; a decision may
  race Disable (SI-04). Introspection of a refresh token looks at the token and
  not at its grant (`resource.go:190`), and userinfo does not look at
  `disabled_at` (`resource.go:116`), so it answers until the hook has revoked the
  grants. A crash between Rotate and Create ends the chain, and the client needs
  a new authorization. The deletion of a client revokes no grant
  (`register.go:331`), and `verifyAccessToken` looks up the token and its grant
  but not the client (`resource.go:24`): the access tokens of a deleted client
  are accepted at resources and at userinfo until they expire, while the token
  endpoint and introspection no longer know the client. The comment of
  `replayRotation` speaks of the same successor; the answer has no refresh token
  (`token.go:186`), and the access token of a replay is not bound to a key. A
  comment in `routes.go` has deleted users revoke their grants; only Disable has
  a hook (foreign keys remove the rows).
* *OAuthResource.* Two instances that rotate at once retire each other's key, and
  `signingKey` returns neither key nor error (`keys.go:156`): `overlapped`.
* *RateLimit.* `Rule` says that its limit is the number of accepted attempts in
  one window (`ratelimit.go:107`), as does `docs/guides/rate-limits.md:25`.
  `New` accepts rules of one operation and scope, which share a row
  (`storelimit.go:54`, `storelimit.go:100`): an attempt counts once for each,
  and the shortest window starts the row anew, so over its own longer window a
  rule grants its limit again and again. `Implements` and `BurstBound` therefore
  have the shortest window of the row. The time to wait is computed from the
  clock that the attempt read, and the client counts it from the answer.
  `RetryAfter` counts for the rule that refused; with two rules the other may
  still refuse then (`ratelimit.go:117`), so `RetryHonest` is about the time
  before which no attempt succeeds. The comment of Cleanup says that the window
  ended, the code compares its beginning (`storelimit.go:120`): an age of at
  least the window and the delay is the duty of the host, and an assumption
  here.
* *Registration.* A crash of Bootstrap between `Users().Create` and its
  transaction leaves a row, and Bootstrap answers false from then on: `leftover`,
  `hindered`. The same holds of an administrator's CreateUser
  (`plugins/admin/operations.go:129`). While Bootstraps race, two rows exist
  for a moment (`bootstrap.go:62` promises one). The write of unlink is a whole
  row and may take back a proof of the address.
* *Migrations.* A process that ends between ADD COLUMN and its record makes every
  later Apply fail on the column (`Stuck`). A failed read of the record table
  counts as "nothing applied" (`migrator.go:86`). Racing deploys fail on a
  duplicate record and have to be run again. The catalog check sees no index
  (`authall.go:640`). A table of the host without a unit gets a version before
  the units of organizations and OAuth (`schema.go:121`), so it cannot reference
  them on Postgres, and the number shifts when plugins are added. A field that
  the host adds to the user later belongs to a CREATE TABLE that is already
  recorded and is never added (`core.go:210`). `docs/guides/deployment.md` names a
  `--database-url` flag; the command has `--driver` and `--dsn`.

## Not modelled

* Hooks and events: callbacks of the host without state; a hook that refuses is
  one of the causes of `Rollback` and `Abort`.
* HTTP: parsing, origin checks, headers, cookies (but for the cookie that names a
  state or a session), the JSON of answers, pages and redirects.
* Cryptography: a hash, a token and a signature are their own identity.
* The text and transport of mails; the protocol of external providers (external:
  any identity may come back).
* ID tokens, claims, metadata, redirect matching, and introspection of refresh
  tokens in the authorization server.
* The change of name and slug of an organization, and its member limit.
* SQL text, scanning and binding; the columns of CREATE TABLE statements.
  Concurrent CREATE TABLE IF NOT EXISTS, which on Postgres may itself fail.
* The command line beyond `migrate`, the client generator, the TypeScript client
  (tools and generated code), test support and conformance tests.

Races that two listed hazards already stand for have no property of their own: two
`issueToken` with replacement under READ COMMITTED leave two live tokens
(`tokens.go:38`), and the deletion of recovery codes may miss those that a
regeneration in flight inserts.

## Plan

The models of the plan are written, and every safety property is proved, those of
`Migrations` from what TLC evaluates of the renderer. What is left is to
state for `Registration` what `EndedStaysEnded` states for `Accounts`, and to tell
the columns of a CREATE TABLE apart in `Schema`.
