--------------------------- MODULE PrincipalCache ---------------------------
(***************************************************************************)
(* How one request is authenticated by a session token: resolvePrincipal   *)
(* (principal.go) asks the principal cache of its own instance, and on a   *)
(* miss runs lookupSession (sessions.go), which reads the session row      *)
(* joined with its user, compares three deadlines with the clock, deletes  *)
(* or touches the row, and lets the cache keep the answer.                 *)
(*                                                                         *)
(* Every store statement and every cache operation is one step, so the     *)
(* steps of several requests, on several instances that share one          *)
(* database, interleave with each other and with the changes that end a    *)
(* session: sign-out, revocation, Disable, Cleanup.                        *)
(*                                                                         *)
(* Time is discrete.  A request that has begun ends within MaxDelay (the   *)
(* time limit the host puts on a request): the clock does not pass that    *)
(* point while the request is in flight.                                   *)
(***************************************************************************)
EXTENDS Integers

CONSTANTS
    Instances,      \* processes, each with its own cache
    Sessions,       \* session identifiers; a token names exactly one
    Users,
    Owner,          \* Owner[s]: the user_id column of session s
    Requests,       \* slots for requests in flight
    SessionTTL, IdleTimeout, TouchInterval,     \* SessionOptions
    CacheTTL,       \* WithPrincipalCache; 0 means no cache
    MaxDelay,       \* bound: how long one request may be in flight
    MaxTime         \* bound: the clock stops here

ASSUME OwnerAssumption ==
    /\ Instances # {} /\ Sessions # {}
    /\ Owner \in [Sessions -> Users]

ASSUME TimeAssumption ==
    /\ SessionTTL \in Nat \ {0}
    /\ IdleTimeout \in 1..SessionTTL          \* normalizeConfig refuses more
    /\ TouchInterval \in Nat \ {0}
    /\ {CacheTTL, MaxDelay, MaxTime} \subseteq Nat

VARIABLES
    now,
    row,            \* row[s]: the sessions table
    disabledAt,     \* disabledAt[u]: the disabled_at column of the user
    cache,          \* cache[i][s]: the deadline of the entry, or Never
    req,            \* req[r]: the local state of a request
    goneAt,         \* history: when the row of s was deleted
    lastUse         \* history: when s was last presented (or created)

vars == <<now, row, disabledAt, cache, req, goneAt, lastUse>>

-----------------------------------------------------------------------------
Never == -1

Times == Int

\* A row keeps its columns after the delete, for the properties only.
Row == [live : BOOLEAN, created : Times, expires : Times, lastSeen : Times]

Steps == {"idle", "read", "check", "expire", "touch", "put", "done"}

\* prev: lastUse when the request began.  at: the clock lookupSession read.
Request == [pc : Steps, inst : Instances, sess : Sessions, start : Times,
            prev : Times, seen : Row, at : Times, ok : BOOLEAN]

NoRow == [live |-> FALSE, created |-> Never, expires |-> Never, lastSeen |-> Never]

Unborn(s) == ~row[s].live /\ goneAt[s] = Never

InFlight(r) == req[r].pc \notin {"idle", "done"}

\* Delete the rows of the sessions in S.  A DELETE that matches no row is
\* ErrNotFound, which every caller ignores.
DeleteRows(S) ==
    LET dead == {s \in S : row[s].live} IN
    /\ row' = [s \in Sessions |-> IF s \in dead THEN [row[s] EXCEPT !.live = FALSE]
                                                ELSE row[s]]
    /\ goneAt' = [s \in Sessions |-> IF s \in dead THEN now ELSE goneAt[s]]

SessionsOf(u) == {s \in Sessions : Owner[s] = u}

\* Mutant: only the idle timeout ends a session.
ExpiredIdleOnly(seen, t) == t >= seen.lastSeen + IdleTimeout

\* Mutant: the idle timeout is not looked at.
ExpiredNoIdle(seen, t) == t >= seen.expires \/ t >= seen.created + SessionTTL

\* The three deadlines of lookupSession, against the row that was read.
Expired(seen, t) ==
    \/ t >= seen.expires
    \/ t >= seen.created + SessionTTL
    \/ t >= seen.lastSeen + IdleTimeout

-----------------------------------------------------------------------------
Init ==
    /\ now = 0
    /\ row = [s \in Sessions |-> NoRow]
    /\ disabledAt = [u \in Users |-> Never]
    /\ cache = [i \in Instances |-> [s \in Sessions |-> Never]]
    /\ req \in [Requests ->
                  [pc : {"idle"}, inst : Instances, sess : Sessions, start : {Never},
                   prev : {Never}, seen : {NoRow}, at : {Never}, ok : {FALSE}]]
    /\ goneAt = [s \in Sessions |-> Never]
    /\ lastUse = [s \in Sessions |-> Never]

\* The clock moves unless a request would exceed its time limit.
Tick ==
    /\ now < MaxTime
    /\ \A r \in Requests : InFlight(r) => now + 1 <= req[r].start + MaxDelay
    /\ now' = now + 1
    /\ UNCHANGED <<row, disabledAt, cache, req, goneAt, lastUse>>

\* createSession for the owner of s.  The session of the token that the request
\* carried, if any, is deleted first (a request that stops between the two is
\* RevokeSession); createSession itself does not look at disabled_at.
CreateSession(s, previous) ==
    /\ Unborn(s)
    /\ LET dead == {p \in previous : row[p].live} IN
       /\ row' = [x \in Sessions |->
                    IF x = s THEN [live |-> TRUE, created |-> now,
                                   expires |-> now + SessionTTL, lastSeen |-> now]
                    ELSE IF x \in dead THEN [row[x] EXCEPT !.live = FALSE]
                    ELSE row[x]]
       /\ goneAt' = [x \in Sessions |-> IF x \in dead THEN now ELSE goneAt[x]]
    /\ lastUse' = [lastUse EXCEPT ![s] = now]
    /\ UNCHANGED <<now, disabledAt, cache, req>>

-----------------------------------------------------------------------------
(* One request.                                                            *)

\* The request returns, with a principal or without one.
Answer(r, ok) ==
    req' = [req EXCEPT ![r] = [@ EXCEPT !.pc = "done", !.ok = ok,
                                        !.seen = NoRow, !.at = Never]]

\* Mutant: the deadline of an entry is not compared with the clock.
CacheHitForever(i, s) == cache[i][s] # Never

\* The body of principalCache.get: an entry whose deadline has come is no hit.
CacheHit(i, s) == cache[i][s] # Never /\ now < cache[i][s]

\* resolvePrincipal, up to the answer of the cache.  A hit ends the request; an
\* ended entry is removed from the map.
Begin(r, i, s) ==
    /\ ~InFlight(r)
    /\ ~Unborn(s)
    /\ req' = [req EXCEPT ![r] =
                 [pc |-> IF CacheHit(i, s) THEN "done" ELSE "read",
                  inst |-> i, sess |-> s, start |-> now, prev |-> lastUse[s],
                  seen |-> NoRow, at |-> Never, ok |-> CacheHit(i, s)]]
    /\ cache' = IF CacheHit(i, s) THEN cache ELSE [cache EXCEPT ![i][s] = Never]
    /\ lastUse' = [lastUse EXCEPT ![s] = now]
    /\ UNCHANGED <<now, row, disabledAt, goneAt>>

\* Mutant: the user of the session may be disabled.
ReadSessionOnly(r) ==
    LET s == req[r].sess IN
    /\ req[r].pc = "read"
    /\ IF row[s].live THEN req' = [req EXCEPT ![r].pc = "check", ![r].seen = row[s]]
                      ELSE Answer(r, FALSE)
    /\ UNCHANGED <<now, row, disabledAt, cache, goneAt, lastUse>>

\* readSessionAndUser: one joined SELECT.  No row, or a disabled user, is a
\* request without a principal.
ReadSession(r) ==
    LET s == req[r].sess IN
    /\ req[r].pc = "read"
    /\ IF row[s].live /\ disabledAt[Owner[s]] = Never
         THEN req' = [req EXCEPT ![r].pc = "check", ![r].seen = row[s]]
         ELSE Answer(r, FALSE)
    /\ UNCHANGED <<now, row, disabledAt, cache, goneAt, lastUse>>

\* lookupSession reads the clock and compares the deadlines of the row it read.
CheckDeadlines(r) ==
    /\ req[r].pc = "check"
    /\ req' = [req EXCEPT ![r].at = now,
                          ![r].pc = IF Expired(req[r].seen, now) THEN "expire"
                                    ELSE IF now - req[r].seen.lastSeen >= TouchInterval
                                      THEN "touch" ELSE "put"]
    /\ UNCHANGED <<now, row, disabledAt, cache, goneAt, lastUse>>

\* An expired session is removed eagerly and authenticates nobody.
ExpireSession(r) ==
    /\ req[r].pc = "expire"
    /\ DeleteRows({req[r].sess})
    /\ Answer(r, FALSE)
    /\ UNCHANGED <<now, disabledAt, cache, lastUse>>

\* Mutant: the touch is an upsert, which restores a deleted row.
TouchUpsert(r) ==
    /\ req[r].pc = "touch"
    /\ row' = [row EXCEPT ![req[r].sess] = [req[r].seen EXCEPT !.lastSeen = req[r].at]]
    /\ req' = [req EXCEPT ![r].pc = "put"]
    /\ UNCHANGED <<now, disabledAt, cache, goneAt, lastUse>>

\* Sessions().Touch: an UPDATE ... WHERE id = ?, which matches no row once the
\* session was revoked.  The request goes on either way.
TouchSession(r) ==
    LET s == req[r].sess IN
    /\ req[r].pc = "touch"
    /\ row' = IF row[s].live THEN [row EXCEPT ![s].lastSeen = req[r].at] ELSE row
    /\ req' = [req EXCEPT ![r].pc = "put"]
    /\ UNCHANGED <<now, disabledAt, cache, goneAt, lastUse>>

\* principalCache.put reads the clock again; the entry ends CacheTTL later.
CachePut(r) ==
    /\ req[r].pc = "put"
    /\ cache' = IF CacheTTL = 0 THEN cache
                ELSE [cache EXCEPT ![req[r].inst][req[r].sess] = now + CacheTTL]
    /\ Answer(r, TRUE)
    /\ UNCHANGED <<now, row, disabledAt, goneAt, lastUse>>

-----------------------------------------------------------------------------
(* What ends a session.                                                    *)

\* SignOut, SignOutToken, RevokeSession, handleRevokeSession and each delete of
\* handleRevokeAllSessions.
RevokeSession(s) ==
    /\ row[s].live
    /\ DeleteRows({s})
    /\ UNCHANGED <<now, disabledAt, cache, req, lastUse>>

\* RevokeUserSessions.
RevokeUserSessions(u) ==
    /\ \E s \in SessionsOf(u) : row[s].live
    /\ DeleteRows(SessionsOf(u))
    /\ UNCHANGED <<now, disabledAt, cache, req, lastUse>>

\* RevokeOtherSessions: one DELETE finds the owner of s and spares s.
RevokeOtherSessions(s) ==
    LET others == SessionsOf(Owner[s]) \ {s} IN
    /\ row[s].live /\ \E o \in others : row[o].live
    /\ DeleteRows(others)
    /\ UNCHANGED <<now, disabledAt, cache, req, lastUse>>

\* admin.Disable: the flag and the rows go in one transaction.
Disable(u) ==
    /\ disabledAt[u] = Never
    /\ disabledAt' = [disabledAt EXCEPT ![u] = now]
    /\ DeleteRows(SessionsOf(u))
    /\ UNCHANGED <<now, cache, req, lastUse>>

\* admin.Enable.
Enable(u) ==
    /\ disabledAt[u] # Never
    /\ disabledAt' = [disabledAt EXCEPT ![u] = Never]
    /\ UNCHANGED <<now, row, cache, req, goneAt, lastUse>>

\* Cleanup: DELETE ... WHERE expires_at <= now.
Cleanup ==
    LET ended == {s \in Sessions : row[s].live /\ row[s].expires <= now} IN
    /\ ended # {}
    /\ DeleteRows(ended)
    /\ UNCHANGED <<now, disabledAt, cache, req, lastUse>>

Next ==
    \/ Tick
    \/ \E s \in Sessions : CreateSession(s, {}) \/ RevokeSession(s) \/ RevokeOtherSessions(s)
    \/ \E s, p \in Sessions : s # p /\ CreateSession(s, {p})
    \/ \E r \in Requests :
          \/ \E i \in Instances, s \in Sessions : Begin(r, i, s)
          \/ ReadSession(r) \/ CheckDeadlines(r) \/ ExpireSession(r)
          \/ TouchSession(r) \/ CachePut(r)
    \/ \E u \in Users : RevokeUserSessions(u) \/ Disable(u) \/ Enable(u)
    \/ Cleanup

Spec == Init /\ [][Next]_vars

-----------------------------------------------------------------------------
(* Properties.                                                             *)

TypeOK ==
    /\ now \in Nat
    /\ row \in [Sessions -> Row]
    /\ disabledAt \in [Users -> Times]
    /\ cache \in [Instances -> [Sessions -> Times]]
    /\ req \in [Requests -> Request]
    /\ goneAt \in [Sessions -> Times]
    /\ lastUse \in [Sessions -> Times]

Accepted(r) == req[r].pc = "done" /\ req[r].ok

\* A request that begins at b was accepted although the credential ended at e:
\* b lies before e, or within bound of it.
InsideBound(b, e, bound) == e = Never \/ b <= e \/ b < e + bound

\* A deleted session (sign-out, revocation, expiry, disable) authenticates no
\* request that begins MaxDelay + CacheTTL or more after the delete, on any
\* instance, whatever reads were in flight when it was deleted.
RevokedEndsInBound ==
    \A r \in Requests : Accepted(r) =>
        InsideBound(req[r].start, goneAt[req[r].sess], MaxDelay + CacheTTL)

\* The same for a user disabled since disabledAt: also a session that a sign-in
\* in flight created after the Disable authenticates nobody (the second guard
\* of lookupSession).
DisabledEndsInBound ==
    \A r \in Requests : Accepted(r) =>
        InsideBound(req[r].start, disabledAt[Owner[req[r].sess]], MaxDelay + CacheTTL)

\* No session authenticates past its absolute lifetime, however often it is
\* touched; the cache adds at most its own bound.
LifetimeEnds ==
    \A r \in Requests : Accepted(r) =>
        req[r].start < row[req[r].sess].created + SessionTTL + MaxDelay + CacheTTL

\* A session that saw no request for the idle timeout authenticates nobody,
\* although touches are rationed by TouchInterval, may be written late and in
\* any order.
IdleEnds ==
    \A r \in Requests : Accepted(r) =>
        req[r].start < req[r].prev + IdleTimeout + MaxDelay + CacheTTL

\* A revoked session never comes back: a touch, an expiry delete or a cache
\* write that was decided before the revocation does not restore the row.
RevokedStaysRevoked ==
    [][\A s \in Sessions : goneAt[s] # Never => ~row'[s].live /\ goneAt'[s] = goneAt[s]]_vars

\* principalcache.go: the consistency bound is "the maximum time between a
\* committed change and its effect on every instance", and the cache time is at
\* most that bound.
ConsistencyBound ==
    \A r \in Requests : Accepted(r) =>
        /\ InsideBound(req[r].start, goneAt[req[r].sess], CacheTTL)
        /\ InsideBound(req[r].start, disabledAt[Owner[req[r].sess]], CacheTTL)

-----------------------------------------------------------------------------
(* The inductive invariant behind the four bounds.                         *)

Bound == MaxDelay + CacheTTL

\* Ended later than b, or not at all.
NotBefore(b, e) == e = Never \/ b <= e

\* A deadline d lies within the bound of an end at e.
Within(d, e) == e = Never \/ d <= e + Bound

RowTimes ==
    /\ \A s \in Sessions : (row[s].live => goneAt[s] = Never) /\ goneAt[s] <= now
    /\ \A u \in Users : disabledAt[u] <= now

\* What a request in flight knows: it read the row after it began, so the row was
\* live and the user enabled then.
RequestTime(r) ==
    LET q == req[r] IN q.pc # "idle" =>
        /\ q.start <= now /\ ~Unborn(q.sess)
        /\ InFlight(r) => now <= q.start + MaxDelay
        /\ q.pc \in {"check", "touch", "put"} =>
              /\ NotBefore(q.start, goneAt[q.sess])
              /\ NotBefore(q.start, disabledAt[Owner[q.sess]])
        /\ q.pc = "check" => q.seen.created = row[q.sess].created
        /\ q.pc \in {"touch", "put"} =>
              q.start <= q.at /\ q.at < row[q.sess].created + SessionTTL

\* A cache entry ends within the bound of whatever ended its session.
CacheTime(i, s) ==
    LET d == cache[i][s] IN d # Never =>
        /\ ~Unborn(s) /\ d <= now + CacheTTL
        /\ Within(d, goneAt[s]) /\ Within(d, disabledAt[Owner[s]])
        /\ d < row[s].created + SessionTTL + Bound

\* The inductive invariant: with it, a request is accepted only within the bound
\* of the end of its session, its user or its lifetime (lookupSession and
\* principalCache).
BoundInv ==
    /\ TypeOK /\ RowTimes
    /\ \A r \in Requests : RequestTime(r)
    /\ \A i \in Instances, s \in Sessions : CacheTime(i, s)
    /\ RevokedEndsInBound /\ DisabledEndsInBound /\ LifetimeEnds

\* The clock of the last use bounds what the row, the caches and the requests say.
UseTimes ==
    /\ \A s \in Sessions : row[s].lastSeen <= lastUse[s] + MaxDelay /\ lastUse[s] <= now
    /\ \A i \in Instances, s \in Sessions :
          cache[i][s] # Never => cache[i][s] <= lastUse[s] + Bound
    /\ \A r \in Requests : LET q == req[r] IN q.pc # "idle" =>
          /\ q.start <= lastUse[q.sess]
          /\ q.pc = "check" => q.seen.lastSeen <= lastUse[q.sess] + MaxDelay
          /\ q.pc \in {"touch", "put"} => q.at <= q.start + MaxDelay

\* A request that came after a gap longer than the idle timeout and the bound:
\* nothing later than prev can revive its session.
AfterGap(r) == req[r].pc # "idle" /\ req[r].start >= req[r].prev + IdleTimeout + Bound

GapSelf(r) ==
    LET s == req[r].sess IN
    AfterGap(r) =>
        /\ ~Accepted(r)
        /\ row[s].lastSeen <= req[r].prev + MaxDelay
        /\ \A i \in Instances : cache[i][s] # Never => cache[i][s] <= req[r].prev + Bound

\* Another request of the session began before the gap or after it, and one that
\* began after it is not accepted.
GapPair(r, o) ==
    LET p == req[r].prev IN
    (AfterGap(r) /\ req[o].pc # "idle" /\ req[o].sess = req[r].sess) =>
        /\ req[o].start <= p \/ req[r].start <= req[o].start
        /\ req[o].pc = "check" => req[o].seen.lastSeen <= p + MaxDelay
        /\ req[o].pc \in {"touch", "put"} => req[o].start <= p

\* The inductive invariant of the idle timeout: touches that are written late or
\* out of order (lookupSession, Sessions().Touch) do not revive an idle session.
IdleInv ==
    /\ BoundInv /\ UseTimes
    /\ \A r \in Requests : GapSelf(r)
    /\ \A r, o \in Requests : GapPair(r, o)
=============================================================================
