------------------------ MODULE PrincipalCacheProofs ------------------------
(***************************************************************************)
(* For any number of instances, sessions, users and requests, and any      *)
(* timing parameters: a session that was revoked, whose user was disabled, *)
(* whose lifetime ended or that was not used authenticates no request that *)
(* begins MaxDelay + CacheTTL or more after that.                          *)
(* The same bound for the API keys, which share that cache (module ApiKeys).*)
(***************************************************************************)
EXTENDS PrincipalCache, TLAPS

\* The values that Init and a new request put into the records.
LEMMA Defaults ==
    /\ Never \in Times /\ NoRow \in Row
BY DEF Never, Times, NoRow, Row

LEMMA Constants ==
    /\ SessionTTL \in Nat /\ IdleTimeout \in Nat /\ TouchInterval \in Nat
    /\ CacheTTL \in Nat /\ MaxDelay \in Nat /\ MaxTime \in Nat /\ Bound \in Nat
    /\ Bound = MaxDelay + CacheTTL
BY TimeAssumption DEF Bound

\* What a deletion does to one row: nothing, or it ends the row now.
Ended(s) ==
    /\ row'[s].created = row[s].created /\ row'[s].lastSeen = row[s].lastSeen
    /\ \/ row'[s] = row[s] /\ goneAt'[s] = goneAt[s]
       \/ row[s].live /\ ~row'[s].live /\ goneAt'[s] = now

LEMMA DeleteRowsEnds ==
    ASSUME TypeOK, NEW S \in SUBSET Sessions, DeleteRows(S)
    PROVE  /\ row' \in [Sessions -> Row] /\ goneAt' \in [Sessions -> Times]
           /\ \A s \in Sessions : Ended(s)
<1>. DEFINE dead == {s \in S : row[s].live}
<1>1. /\ row' = [s \in Sessions |-> IF s \in dead THEN [row[s] EXCEPT !.live = FALSE] ELSE row[s]]
      /\ goneAt' = [s \in Sessions |-> IF s \in dead THEN now ELSE goneAt[s]]
  BY DEF DeleteRows
<1>2. \A s \in Sessions : row[s] \in Row /\ [row[s] EXCEPT !.live = FALSE] \in Row
  BY DEF TypeOK, Row
<1>3. row' \in [Sessions -> Row] /\ goneAt' \in [Sessions -> Times]
  BY <1>1, <1>2 DEF TypeOK, Times
<1>4. ASSUME NEW s \in Sessions PROVE Ended(s)
  <2>1. CASE s \in dead
    <3>1. row'[s] = [row[s] EXCEPT !.live = FALSE] /\ goneAt'[s] = now /\ row[s].live
      BY <1>1, <2>1
    <3>2. /\ row'[s].live = FALSE
          /\ row'[s].created = row[s].created /\ row'[s].lastSeen = row[s].lastSeen
      BY <3>1, <1>2 DEF Row
    <3>. QED  BY <3>1, <3>2 DEF Ended
  <2>2. CASE s \notin dead
    BY <1>1, <2>2 DEF Ended
  <2>. QED  BY <2>1, <2>2
<1>. QED  BY <1>3, <1>4

LEMMA SessionsOfType == ASSUME NEW u PROVE SessionsOf(u) \in SUBSET Sessions
BY DEF SessionsOf

LEMMA OthersType == ASSUME NEW u, NEW s PROVE SessionsOf(u) \ {s} \in SUBSET Sessions
BY DEF SessionsOf

\* Type correctness is kept by every step.
LEMMA TypeStep == TypeOK /\ [Next]_vars => TypeOK'
<1>. SUFFICES ASSUME TypeOK, [Next]_vars PROVE TypeOK'
  OBVIOUS
<1>. USE DEF Times
<1>1. CASE UNCHANGED vars
  BY <1>1 DEF TypeOK, vars
<1>2. CASE Tick
  BY <1>2 DEF TypeOK, Tick
<1>3. ASSUME NEW s \in Sessions, NEW previous \in SUBSET Sessions, CreateSession(s, previous)
      PROVE  TypeOK'
  <2>. DEFINE fresh == [live |-> TRUE, created |-> now, expires |-> now + SessionTTL, lastSeen |-> now]
              dead == {p \in previous : row[p].live}
  <2>1. fresh \in Row
    BY Constants DEF TypeOK, Row
  <2>2. \A x \in Sessions : row[x] \in Row /\ [row[x] EXCEPT !.live = FALSE] \in Row
    BY DEF TypeOK, Row
  <2>3. /\ row' = [x \in Sessions |-> IF x = s THEN fresh
                                      ELSE IF x \in dead THEN [row[x] EXCEPT !.live = FALSE]
                                      ELSE row[x]]
        /\ goneAt' = [x \in Sessions |-> IF x \in dead THEN now ELSE goneAt[x]]
    BY <1>3 DEF CreateSession
  <2>4. row' \in [Sessions -> Row]
    BY <2>1, <2>2, <2>3
  <2>5. goneAt' \in [Sessions -> Times]
    BY <2>3 DEF TypeOK
  <2>6. lastUse' = [lastUse EXCEPT ![s] = now] /\ UNCHANGED <<now, disabledAt, cache, req>>
    BY <1>3 DEF CreateSession
  <2>. QED  BY <2>4, <2>5, <2>6 DEF TypeOK
<1>4. ASSUME NEW r \in Requests, NEW i \in Instances, NEW s \in Sessions, Begin(r, i, s)
      PROVE  TypeOK'
  <2>1. [pc |-> IF CacheHit(i, s) THEN "done" ELSE "read",
         inst |-> i, sess |-> s, start |-> now, prev |-> lastUse[s],
         seen |-> NoRow, at |-> Never, ok |-> CacheHit(i, s)] \in Request
    BY Defaults DEF TypeOK, Request, Steps, CacheHit
  <2>2. cache' \in [Instances -> [Sessions -> Times]]
    BY <1>4, Defaults DEF Begin, TypeOK
  <2>. QED  BY <1>4, <2>1, <2>2 DEF Begin, TypeOK
<1>5. ASSUME NEW r \in Requests, NEW ok \in BOOLEAN, Answer(r, ok)
      PROVE  req' \in [Requests -> Request]
  <2>1. [req[r] EXCEPT !.pc = "done", !.ok = ok, !.seen = NoRow, !.at = Never] \in Request
    <3>1. req[r] \in Request /\ ok \in BOOLEAN
      BY <1>5 DEF TypeOK
    <3>. QED  BY <3>1, Defaults DEF Request, Steps
  <2>2. req' = [req EXCEPT ![r] = [req[r] EXCEPT !.pc = "done", !.ok = ok, !.seen = NoRow, !.at = Never]]
    BY <1>5 DEF Answer
  <2>. QED  BY <2>1, <2>2 DEF TypeOK
<1>6. ASSUME NEW r \in Requests, ReadSession(r) PROVE TypeOK'
  <2>1. CASE Answer(r, FALSE)
    BY <1>5, <1>6, <2>1 DEF ReadSession, TypeOK
  <2>2. CASE ~Answer(r, FALSE)
    <3>1. req[r].sess \in Sessions /\ row[req[r].sess] \in Row
      BY DEF TypeOK, Request
    <3>2. req' = [req EXCEPT ![r].pc = "check", ![r].seen = row[req[r].sess]]
      BY <1>6, <2>2 DEF ReadSession
    <3>3. req' \in [Requests -> Request]
      <4>1. req[r] \in Request
        BY DEF TypeOK
      <4>2. [req[r] EXCEPT !.pc = "check", !.seen = row[req[r].sess]] \in Request
        BY <3>1, <4>1 DEF Request, Steps
      <4>3. req' = [req EXCEPT ![r] = [req[r] EXCEPT !.pc = "check", !.seen = row[req[r].sess]]]
        BY <3>2
      <4>. QED  BY <4>2, <4>3 DEF TypeOK
    <3>. QED  BY <1>6, <3>3 DEF ReadSession, TypeOK
  <2>. QED  BY <2>1, <2>2
<1>7. ASSUME NEW r \in Requests, CheckDeadlines(r) PROVE TypeOK'
  <2>1. req' \in [Requests -> Request]
    BY <1>7 DEF CheckDeadlines, TypeOK, Request, Steps
  <2>. QED  BY <1>7, <2>1 DEF CheckDeadlines, TypeOK
<1>8. ASSUME NEW r \in Requests, ExpireSession(r) PROVE TypeOK'
  <2>1. {req[r].sess} \in SUBSET Sessions
    BY DEF TypeOK, Request
  <2>. QED  BY <1>5, <1>8, <2>1, DeleteRowsEnds DEF ExpireSession, TypeOK
<1>9. ASSUME NEW r \in Requests, TouchSession(r) PROVE TypeOK'
  <2>1. req[r].sess \in Sessions /\ req[r].at \in Int
    BY DEF TypeOK, Request
  <2>2. [row EXCEPT ![req[r].sess].lastSeen = req[r].at] \in [Sessions -> Row]
    BY <2>1 DEF TypeOK, Row
  <2>3. req' \in [Requests -> Request]
    BY <1>9 DEF TouchSession, TypeOK, Request, Steps
  <2>. QED  BY <1>9, <2>2, <2>3 DEF TouchSession, TypeOK
<1>10. ASSUME NEW r \in Requests, CachePut(r) PROVE TypeOK'
  <2>1. cache' \in [Instances -> [Sessions -> Times]]
    BY <1>10, Constants DEF CachePut, TypeOK, Request
  <2>. QED  BY <1>5, <1>10, <2>1 DEF CachePut, TypeOK
<1>11. ASSUME NEW s \in Sessions, RevokeSession(s) PROVE TypeOK'
  BY <1>11, DeleteRowsEnds DEF RevokeSession, TypeOK
<1>12. ASSUME NEW u \in Users, RevokeUserSessions(u) PROVE TypeOK'
  BY <1>12, SessionsOfType, DeleteRowsEnds DEF RevokeUserSessions, TypeOK
<1>13. ASSUME NEW u \in Users, Disable(u) PROVE TypeOK'
  BY <1>13, SessionsOfType, DeleteRowsEnds DEF Disable, TypeOK
<1>14. ASSUME NEW u \in Users, Enable(u) PROVE TypeOK'
  BY <1>14, Defaults DEF Enable, TypeOK
<1>15. CASE Cleanup
  <2>. DEFINE ended == {s \in Sessions : row[s].live /\ row[s].expires <= now}
  <2>1. ended \in SUBSET Sessions
    OBVIOUS
  <2>. QED  BY <1>15, <2>1, DeleteRowsEnds DEF Cleanup, TypeOK
<1>16. ASSUME NEW s \in Sessions, NEW p \in Sessions, CreateSession(s, {p}) PROVE TypeOK'
  <2>1. {p} \in SUBSET Sessions
    OBVIOUS
  <2>. QED  BY <1>3, <1>16, <2>1
<1>17. ASSUME NEW s \in Sessions, CreateSession(s, {}) PROVE TypeOK'
  <2>1. {} \in SUBSET Sessions
    OBVIOUS
  <2>. QED  BY <1>3, <1>17, <2>1
<1>18. ASSUME NEW s \in Sessions, RevokeOtherSessions(s) PROVE TypeOK'
  BY <1>18, OthersType, DeleteRowsEnds DEF RevokeOtherSessions, TypeOK
<1>. QED
  BY <1>1, <1>2, <1>16, <1>17, <1>18, <1>4, <1>6, <1>7, <1>8, <1>9, <1>10, <1>11, <1>12, <1>13, <1>14,
     <1>15 DEF Next

LEMMA TypeInit == Init => TypeOK
<1>. SUFFICES ASSUME Init PROVE TypeOK
  OBVIOUS
<1>1. req \in [Requests -> Request]
  <2>1. ASSUME NEW r \in Requests PROVE req[r] \in Request
    BY Defaults DEF Init, Request, Steps
  <2>. QED  BY <2>1 DEF Init
<1>. QED  BY <1>1, Defaults DEF Init, TypeOK, Times

\* The types of the tables, the caches and the requests in flight.
THEOREM TypeCorrect == Spec => []TypeOK
BY TypeInit, TypeStep, PTL DEF Spec

-----------------------------------------------------------------------------
(* The bounds.                                                             *)

\* The three bounds of one request.
AcceptTime(r) ==
    Accepted(r) =>
        /\ InsideBound(req[r].start, goneAt[req[r].sess], Bound)
        /\ InsideBound(req[r].start, disabledAt[Owner[req[r].sess]], Bound)
        /\ req[r].start < row[req[r].sess].created + SessionTTL + Bound

\* BoundInv, request by request and entry by entry.
Parts ==
    /\ TypeOK /\ RowTimes
    /\ \A r \in Requests : RequestTime(r) /\ AcceptTime(r)
    /\ \A i \in Instances, s \in Sessions : CacheTime(i, s)

LEMMA BoundParts == BoundInv <=> Parts
<1>1. RevokedEndsInBound /\ DisabledEndsInBound /\ LifetimeEnds
        <=> \A r \in Requests : Accepted(r) =>
              /\ InsideBound(req[r].start, goneAt[req[r].sess], MaxDelay + CacheTTL)
              /\ InsideBound(req[r].start, disabledAt[Owner[req[r].sess]], MaxDelay + CacheTTL)
              /\ req[r].start < row[req[r].sess].created + SessionTTL + MaxDelay + CacheTTL
  BY DEF RevokedEndsInBound, DisabledEndsInBound, LifetimeEnds
<1>2. ASSUME TypeOK, NEW r \in Requests
      PROVE  row[req[r].sess].created + SessionTTL + MaxDelay + CacheTTL
               = row[req[r].sess].created + SessionTTL + Bound
  BY <1>2, Constants DEF TypeOK, Request, Row, Times
<1>. QED  BY <1>1, <1>2 DEF Parts, BoundInv, AcceptTime, Bound

LEMMA BoundPartsNext == Parts' => BoundInv'
BY BoundParts, PTL

\* Rows and users that a step leaves alone, or ends now.
Aged(s) ==
    /\ row'[s].created = row[s].created
    /\ \/ row'[s].live = row[s].live /\ goneAt'[s] = goneAt[s]
       \/ row[s].live /\ ~row'[s].live /\ goneAt'[s] = now

AgedUser(u) == disabledAt'[u] = disabledAt[u] \/ disabledAt'[u] = Never \/ disabledAt'[u] = now

LEMMA EndedIsAged == ASSUME NEW s, Ended(s) PROVE Aged(s)
BY DEF Ended, Aged

\* What a step that does not move the clock leaves true of the requests and cache
\* entries it does not touch.
LEMMA Frame ==
    ASSUME BoundInv, TypeOK', now' = now, NEW s \in Sessions, Aged(s), AgedUser(Owner[s])
    PROVE  /\ \A r \in Requests : (req[r].sess = s /\ req'[r] = req[r]) =>
                  RequestTime(r)' /\ AcceptTime(r)'
           /\ \A i \in Instances : (cache'[i][s] = cache[i][s] \/ cache'[i][s] = Never) =>
                  CacheTime(i, s)'
           /\ (row[s].live => goneAt[s] = Never) /\ goneAt[s] <= now
           /\ (row'[s].live => goneAt'[s] = Never) /\ goneAt'[s] <= now'
<1>. DEFINE u == Owner[s]
<1>0. /\ TypeOK /\ now \in Nat /\ u \in Users /\ Never = -1
      /\ goneAt[s] \in Int /\ goneAt'[s] \in Int /\ disabledAt[u] \in Int /\ disabledAt'[u] \in Int
      /\ row[s].created \in Int /\ row[s].live \in BOOLEAN /\ row'[s].live \in BOOLEAN
  BY OwnerAssumption DEF BoundInv, TypeOK, Times, Row, Never
<1>1. (row[s].live => goneAt[s] = Never) /\ goneAt[s] <= now /\ disabledAt[u] <= now
  BY <1>0 DEF BoundInv, RowTimes
<1>2. (row'[s].live => goneAt'[s] = Never) /\ goneAt'[s] <= now'
  BY <1>0, <1>1 DEF Aged
<1>3. ~Unborn(s) => ~Unborn(s)'
  BY <1>0, <1>1 DEF Aged, Unborn
<1>4. ASSUME NEW b \in Int, b <= now
      PROVE  /\ NotBefore(b, goneAt[s]) => NotBefore(b, goneAt'[s])
             /\ NotBefore(b, disabledAt[u]) => NotBefore(b, disabledAt'[u])
             /\ InsideBound(b, goneAt[s], Bound) => InsideBound(b, goneAt'[s], Bound)
             /\ InsideBound(b, disabledAt[u], Bound) => InsideBound(b, disabledAt'[u], Bound)
  BY <1>0, <1>1, <1>4 DEF Aged, AgedUser, NotBefore, InsideBound
<1>5. ASSUME NEW d \in Int, d <= now + CacheTTL
      PROVE  /\ Within(d, goneAt[s]) => Within(d, goneAt'[s])
             /\ Within(d, disabledAt[u]) => Within(d, disabledAt'[u])
  BY <1>0, <1>1, <1>5, Constants DEF Aged, AgedUser, Within
<1>6. ASSUME NEW r \in Requests, req[r].sess = s, req'[r] = req[r]
      PROVE  RequestTime(r)' /\ AcceptTime(r)'
  <2>0. req[r].start \in Int /\ req[r].at \in Int
    BY <1>0 DEF TypeOK, Request, Times
  <2>1. RequestTime(r) /\ AcceptTime(r)
    BY BoundParts DEF Parts
  <2>2. RequestTime(r)'
    BY <1>3, <1>4, <1>6, <2>0, <2>1 DEF RequestTime, InFlight, Aged
  <2>3. AcceptTime(r)'
    BY <1>4, <1>6, <2>0, <2>1 DEF RequestTime, AcceptTime, Accepted, Aged
  <2>. QED  BY <2>2, <2>3
<1>7. ASSUME NEW i \in Instances, cache'[i][s] = cache[i][s] \/ cache'[i][s] = Never
      PROVE  CacheTime(i, s)'
  <2>1. cache[i][s] \in Int /\ CacheTime(i, s)
    BY <1>0 DEF TypeOK, BoundInv, Times
  <2>2. CASE cache'[i][s] = Never
    BY <2>2 DEF CacheTime
  <2>3. CASE cache'[i][s] = cache[i][s]
    BY <1>3, <1>5, <2>1, <2>3 DEF CacheTime, Aged
  <2>. QED  BY <1>7, <2>2, <2>3
<1>. QED  BY <1>1, <1>2, <1>6, <1>7

\* A step that changes the record of at most one request and at most one cache
\* entry, and ends or leaves alone every row and user.
LEMMA OneRequest ==
    ASSUME BoundInv, TypeOK', now' = now, \A s \in Sessions : Aged(s), \A u \in Users : AgedUser(u),
           \A r \in Requests : req'[r] = req[r] \/ (RequestTime(r)' /\ AcceptTime(r)'),
           \A i \in Instances, s \in Sessions :
              cache'[i][s] = cache[i][s] \/ cache'[i][s] = Never \/ CacheTime(i, s)'
    PROVE  BoundInv'
<1>0. \A s \in Sessions : Owner[s] \in Users
  BY OwnerAssumption
<1>1. RowTimes'
  <2>1. \A s \in Sessions : (row'[s].live => goneAt'[s] = Never) /\ goneAt'[s] <= now'
    BY Frame, <1>0
  <2>2. \A u \in Users : disabledAt[u] \in Int /\ disabledAt[u] <= now /\ now \in Nat
    BY DEF BoundInv, RowTimes, TypeOK, Times
  <2>3. \A u \in Users : disabledAt'[u] <= now'
    BY <2>2 DEF AgedUser, Never
  <2>. QED  BY <2>1, <2>3 DEF RowTimes
<1>2. ASSUME NEW r \in Requests PROVE RequestTime(r)' /\ AcceptTime(r)'
  <2>1. req[r].sess \in Sessions
    BY DEF BoundInv, TypeOK, Request
  <2>2. CASE req'[r] = req[r]
    BY <1>0, <2>1, <2>2, Frame
  <2>. QED  BY <2>2
<1>3. ASSUME NEW i \in Instances, NEW s \in Sessions PROVE CacheTime(i, s)'
  BY <1>0, Frame
<1>4. TypeOK'
  OBVIOUS
<1>5. Parts'
  BY <1>1, <1>2, <1>3, <1>4 DEF Parts
<1>. QED  BY <1>5, BoundPartsNext

\* The clock: no request outlives its time limit, every end stays in the past.
LEMMA TickBound == ASSUME BoundInv, Tick PROVE BoundInv'
<1>0. /\ TypeOK /\ now \in Nat /\ now' = now + 1
      /\ UNCHANGED <<row, disabledAt, cache, req, goneAt, lastUse>>
      /\ \A r \in Requests : InFlight(r) => now + 1 <= req[r].start + MaxDelay
  BY DEF Tick, BoundInv, TypeOK
<1>1. TypeOK'
  BY <1>0 DEF TypeOK
<1>2. RowTimes'
  BY <1>0 DEF BoundInv, RowTimes, TypeOK, Times
<1>3. ASSUME NEW r \in Requests PROVE RequestTime(r)' /\ AcceptTime(r)'
  <2>1. RequestTime(r) /\ AcceptTime(r) /\ req[r].start \in Int
    BY BoundParts, <1>0 DEF Parts, TypeOK, Request, Times
  <2>2. RequestTime(r)'
    BY <1>0, <2>1, Constants DEF RequestTime, InFlight, Unborn
  <2>3. AcceptTime(r)'
    BY <1>0, <2>1 DEF AcceptTime, Accepted
  <2>. QED  BY <2>2, <2>3
<1>4. ASSUME NEW i \in Instances, NEW s \in Sessions PROVE CacheTime(i, s)'
  <2>1. CacheTime(i, s) /\ cache[i][s] \in Int
    BY <1>0 DEF BoundInv, TypeOK, Times
  <2>. QED  BY <1>0, <2>1, Constants DEF CacheTime, Unborn
<1>5. Parts'
  BY <1>1, <1>2, <1>3, <1>4 DEF Parts
<1>. QED  BY <1>5, BoundPartsNext

\* A new session: no request and no cache entry knows it yet.
LEMMA CreateBound ==
    ASSUME BoundInv, TypeOK', NEW s \in Sessions, NEW previous \in SUBSET Sessions,
           CreateSession(s, previous)
    PROVE  BoundInv'
<1>. DEFINE dead == {p \in previous : row[p].live}
<1>0. /\ Unborn(s) /\ now' = now /\ UNCHANGED <<disabledAt, cache, req>>
      /\ row'[s].live = TRUE /\ s \notin dead /\ goneAt'[s] = goneAt[s]
  BY DEF CreateSession, BoundInv, TypeOK, Unborn
<1>1. ASSUME NEW x \in Sessions, x # s PROVE Aged(x)
  <2>1. row[x] \in Row
    BY DEF BoundInv, TypeOK
  <2>2. CASE x \in dead
    <3>1. row'[x] = [row[x] EXCEPT !.live = FALSE] /\ goneAt'[x] = now /\ row[x].live
      BY <1>1, <2>2 DEF CreateSession
    <3>2. row'[x].live = FALSE /\ row'[x].created = row[x].created
      BY <2>1, <3>1 DEF Row
    <3>. QED  BY <3>1, <3>2 DEF Aged
  <2>3. CASE x \notin dead
    <3>1. row'[x] = row[x] /\ goneAt'[x] = goneAt[x]
      BY <1>1, <2>3 DEF CreateSession
    <3>. QED  BY <3>1 DEF Aged
  <2>. QED  BY <2>2, <2>3
<1>2. \A x \in Sessions : AgedUser(Owner[x])
  BY <1>0 DEF AgedUser
<1>3. RowTimes'
  <2>1. \A x \in Sessions : (row'[x].live => goneAt'[x] = Never) /\ goneAt'[x] <= now'
    <3>1. ASSUME NEW x \in Sessions, x # s
          PROVE  (row'[x].live => goneAt'[x] = Never) /\ goneAt'[x] <= now'
      BY <1>0, <1>1, <1>2, <3>1, Frame
    <3>2. goneAt'[s] = Never /\ goneAt'[s] <= now'
      BY <1>0 DEF Unborn, BoundInv, RowTimes
    <3>. QED  BY <3>1, <3>2
  <2>. QED  BY <1>0, <2>1 DEF RowTimes, BoundInv
<1>4. ASSUME NEW r \in Requests PROVE RequestTime(r)' /\ AcceptTime(r)'
  <2>0. req[r].sess \in Sessions /\ req'[r] = req[r] /\ RequestTime(r)
    BY <1>0 DEF BoundInv, TypeOK, Request
  <2>1. CASE req[r].sess = s
    <3>1. req[r].pc = "idle"
      BY <1>0, <2>0, <2>1 DEF RequestTime
    <3>. QED  BY <2>0, <3>1 DEF RequestTime, AcceptTime, Accepted
  <2>2. CASE req[r].sess # s
    BY <1>0, <1>1, <1>2, <2>0, <2>2, Frame
  <2>. QED  BY <2>1, <2>2
<1>5. ASSUME NEW i \in Instances, NEW x \in Sessions PROVE CacheTime(i, x)'
  <2>1. CASE x = s
    <3>1. cache[i][s] = Never
      BY <1>0 DEF BoundInv, CacheTime
    <3>. QED  BY <1>0, <2>1, <3>1 DEF CacheTime
  <2>2. CASE x # s
    BY <1>0, <1>1, <1>2, <2>2, Frame
  <2>. QED  BY <2>1, <2>2
<1>6. TypeOK'
  OBVIOUS
<1>7. Parts'
  BY <1>3, <1>4, <1>5, <1>6 DEF Parts
<1>. QED  BY <1>7, BoundPartsNext

\* What ends sessions changes no request and no cache entry.
LEMMA EndBound ==
    ASSUME BoundInv, TypeOK', UNCHANGED <<now, cache, req>>,
           \A s \in Sessions : Ended(s), \A u \in Users : AgedUser(u)
    PROVE  BoundInv'
<1>1. \A s \in Sessions : Aged(s)
  BY EndedIsAged
<1>. QED  BY <1>1, OneRequest

\* A request without a principal is within every bound.
LEMMA RefusedIsFine ==
    ASSUME BoundInv, TypeOK', now' = now, NEW r \in Requests, InFlight(r), Answer(r, FALSE),
           \A s \in Sessions : Aged(s)
    PROVE  RequestTime(r)' /\ AcceptTime(r)'
<1>0. /\ req[r] \in Request /\ req[r].sess \in Sessions /\ now \in Nat
      /\ req'[r] = [req[r] EXCEPT !.pc = "done", !.ok = FALSE, !.seen = NoRow, !.at = Never]
  BY DEF BoundInv, TypeOK, Request, Answer
<1>1. /\ req'[r].pc = "done" /\ req'[r].ok = FALSE
      /\ req'[r].sess = req[r].sess /\ req'[r].start = req[r].start
  BY <1>0 DEF Request
<1>2. req[r].start <= now /\ ~Unborn(req[r].sess)
  BY DEF BoundInv, RequestTime, InFlight
<1>3. ~Unborn(req[r].sess)'
  BY <1>0, <1>2 DEF Aged, Unborn, Never, BoundInv, RowTimes
<1>4. RequestTime(r)'
  BY <1>1, <1>2, <1>3 DEF RequestTime, InFlight
<1>5. AcceptTime(r)'
  BY <1>1 DEF AcceptTime, Accepted
<1>. QED  BY <1>4, <1>5

\* A hit: the entry had not ended, so it began within the bound.
LEMMA BeginBound ==
    ASSUME BoundInv, TypeOK', NEW r \in Requests, NEW i \in Instances, NEW s \in Sessions,
           Begin(r, i, s)
    PROVE  BoundInv'
<1>. DEFINE hit == CacheHit(i, s)
<1>0. /\ UNCHANGED <<now, row, disabledAt, goneAt>> /\ now \in Nat /\ ~Unborn(s)
      /\ \A o \in Requests \ {r} : req'[o] = req[o]
      /\ req'[r].pc = (IF hit THEN "done" ELSE "read") /\ req'[r].sess = s
      /\ req'[r].start = now /\ req'[r].ok = hit
      /\ \A j \in Instances, x \in Sessions : cache'[j][x] = cache[j][x] \/ cache'[j][x] = Never
  BY DEF Begin, BoundInv, TypeOK
<1>1. RequestTime(r)'
  BY <1>0, Constants DEF RequestTime, InFlight, Unborn
<1>2. AcceptTime(r)'
  <2>. SUFFICES ASSUME Accepted(r)' PROVE AcceptTime(r)'
    BY DEF AcceptTime
  <2>1. hit
    BY <1>0 DEF Accepted
  <2>2. cache[i][s] \in Int /\ goneAt[s] \in Int /\ disabledAt[Owner[s]] \in Int
        /\ row[s].created \in Int
    BY OwnerAssumption DEF BoundInv, TypeOK, Times, Row
  <2>3. /\ now < cache[i][s]
        /\ Within(cache[i][s], goneAt[s]) /\ Within(cache[i][s], disabledAt[Owner[s]])
        /\ cache[i][s] < row[s].created + SessionTTL + Bound
    BY <2>1 DEF CacheHit, BoundInv, CacheTime
  <2>. QED  BY <1>0, <2>2, <2>3, Constants DEF AcceptTime, InsideBound, Within
<1>3. (\A x \in Sessions : Aged(x)) /\ (\A u \in Users : AgedUser(u))
  BY <1>0 DEF Aged, AgedUser
<1>. QED  BY <1>0, <1>1, <1>2, <1>3, OneRequest

\* The read: the row is live and the user enabled, now.
LEMMA ReadBound == ASSUME BoundInv, TypeOK', NEW r \in Requests, ReadSession(r) PROVE BoundInv'
<1>. DEFINE s == req[r].sess
<1>0. /\ UNCHANGED <<now, row, disabledAt, cache, goneAt>> /\ req[r].pc = "read"
      /\ req[r] \in Request /\ s \in Sessions
  BY DEF ReadSession, BoundInv, TypeOK, Request
<1>1. (\A x \in Sessions : Aged(x)) /\ (\A u \in Users : AgedUser(u))
  BY <1>0 DEF Aged, AgedUser
<1>2. CASE Answer(r, FALSE)
  <2>1. \A o \in Requests \ {r} : req'[o] = req[o]
    BY <1>2 DEF Answer, BoundInv, TypeOK
  <2>2. RequestTime(r)' /\ AcceptTime(r)'
    BY <1>0, <1>1, <1>2, RefusedIsFine DEF InFlight
  <2>. QED  BY <1>0, <1>1, <2>1, <2>2, OneRequest
<1>3. CASE ~Answer(r, FALSE)
  <2>1. /\ row[s].live /\ disabledAt[Owner[s]] = Never
        /\ req' = [req EXCEPT ![r].pc = "check", ![r].seen = row[s]]
    BY <1>3 DEF ReadSession
  <2>2. /\ \A o \in Requests \ {r} : req'[o] = req[o]
        /\ req'[r].pc = "check" /\ req'[r].seen = row[s]
        /\ req'[r].sess = s /\ req'[r].start = req[r].start
    BY <1>0, <2>1 DEF BoundInv, TypeOK, Request
  <2>3. goneAt[s] = Never
    BY <1>0, <2>1 DEF BoundInv, RowTimes
  <2>4. RequestTime(r)
    BY DEF BoundInv
  <2>5. RequestTime(r)'
    BY <1>0, <2>1, <2>2, <2>3, <2>4 DEF RequestTime, InFlight, Unborn, NotBefore
  <2>6. AcceptTime(r)'
    BY <2>2 DEF AcceptTime, Accepted
  <2>. QED  BY <1>0, <1>1, <2>2, <2>5, <2>6, OneRequest
<1>. QED  BY <1>2, <1>3

\* The check: a row that is not expired is before its absolute lifetime.
LEMMA CheckBound == ASSUME BoundInv, TypeOK', NEW r \in Requests, CheckDeadlines(r) PROVE BoundInv'
<1>. DEFINE s == req[r].sess
<1>0. /\ UNCHANGED <<now, row, disabledAt, cache, goneAt>> /\ req[r].pc = "check"
      /\ req[r] \in Request /\ s \in Sessions /\ now \in Nat
      /\ req[r].start \in Int /\ row[s].created \in Int
  BY DEF CheckDeadlines, BoundInv, TypeOK, Request, Row, Times
<1>1. (\A x \in Sessions : Aged(x)) /\ (\A u \in Users : AgedUser(u))
  BY <1>0 DEF Aged, AgedUser
<1>2. /\ \A o \in Requests \ {r} : req'[o] = req[o]
      /\ req'[r].sess = s /\ req'[r].start = req[r].start /\ req'[r].at = now
      /\ \/ req'[r].pc = "expire"
         \/ req'[r].pc \in {"touch", "put"} /\ ~Expired(req[r].seen, now)
  BY DEF CheckDeadlines, BoundInv, TypeOK, Request
<1>3. RequestTime(r)
  BY DEF BoundInv
<1>4. RequestTime(r)'
  <2>1. ~Expired(req[r].seen, now) => now < row[s].created + SessionTTL
    BY <1>0, <1>3, Constants DEF Expired, RequestTime
  <2>. QED  BY <1>0, <1>2, <1>3, <2>1 DEF RequestTime, InFlight, Unborn
<1>5. AcceptTime(r)'
  BY <1>2 DEF AcceptTime, Accepted
<1>. QED  BY <1>0, <1>1, <1>2, <1>4, <1>5, OneRequest

LEMMA ExpireBound == ASSUME BoundInv, TypeOK', NEW r \in Requests, ExpireSession(r) PROVE BoundInv'
<1>1. {req[r].sess} \in SUBSET Sessions /\ TypeOK
  BY DEF BoundInv, TypeOK, Request
<1>2. \A s \in Sessions : Aged(s)
  BY <1>1, DeleteRowsEnds, EndedIsAged DEF ExpireSession
<1>3. UNCHANGED <<now, disabledAt, cache>> /\ Answer(r, FALSE) /\ InFlight(r)
  BY DEF ExpireSession, InFlight
<1>4. RequestTime(r)' /\ AcceptTime(r)'
  BY <1>2, <1>3, RefusedIsFine
<1>5. \A o \in Requests \ {r} : req'[o] = req[o]
  BY <1>1, <1>3 DEF Answer, TypeOK
<1>6. \A u \in Users : AgedUser(u)
  BY <1>3 DEF AgedUser
<1>. QED  BY <1>2, <1>3, <1>4, <1>5, <1>6, OneRequest

LEMMA TouchBound == ASSUME BoundInv, TypeOK', NEW r \in Requests, TouchSession(r) PROVE BoundInv'
<1>. DEFINE s == req[r].sess
<1>0. /\ UNCHANGED <<now, disabledAt, cache, goneAt>> /\ req[r].pc = "touch"
      /\ req[r] \in Request /\ s \in Sessions
      /\ \A x \in Sessions : row'[x].created = row[x].created /\ row'[x].live = row[x].live
  BY DEF TouchSession, BoundInv, TypeOK, Request, Row
<1>1. (\A x \in Sessions : Aged(x)) /\ (\A u \in Users : AgedUser(u))
  BY <1>0 DEF Aged, AgedUser
<1>2. /\ \A o \in Requests \ {r} : req'[o] = req[o]
      /\ req'[r].pc = "put" /\ req'[r].sess = s
      /\ req'[r].start = req[r].start /\ req'[r].at = req[r].at
  BY <1>0 DEF TouchSession, BoundInv, TypeOK, Request
<1>3. RequestTime(r)
  BY DEF BoundInv
<1>4. RequestTime(r)'
  BY <1>0, <1>2, <1>3 DEF RequestTime, InFlight, Unborn
<1>5. AcceptTime(r)'
  BY <1>2 DEF AcceptTime, Accepted
<1>. QED  BY <1>0, <1>1, <1>2, <1>4, <1>5, OneRequest

\* The entry ends CacheTTL after now, and now is at most MaxDelay after the request
\* began, which was before whatever ended the session.
LEMMA PutBound == ASSUME BoundInv, TypeOK', NEW r \in Requests, CachePut(r) PROVE BoundInv'
<1>. DEFINE s == req[r].sess
            b == req[r].start
            u == Owner[s]
<1>0. /\ UNCHANGED <<now, row, disabledAt, goneAt>> /\ req[r].pc = "put"
      /\ req[r] \in Request /\ s \in Sessions /\ req[r].inst \in Instances /\ u \in Users
      /\ now \in Nat /\ b \in Int /\ req[r].at \in Int
      /\ row[s].created \in Int /\ goneAt[s] \in Int /\ disabledAt[u] \in Int
  BY OwnerAssumption DEF CachePut, BoundInv, TypeOK, Request, Row, Times
<1>1. (\A x \in Sessions : Aged(x)) /\ (\A v \in Users : AgedUser(v))
  BY <1>0 DEF Aged, AgedUser
<1>2. /\ b <= now /\ now <= b + MaxDelay /\ ~Unborn(s)
      /\ NotBefore(b, goneAt[s]) /\ NotBefore(b, disabledAt[u])
      /\ b < row[s].created + SessionTTL
  BY <1>0, Constants DEF BoundInv, RequestTime, InFlight
<1>3. /\ \A o \in Requests \ {r} : req'[o] = req[o]
      /\ req'[r].pc = "done" /\ req'[r].sess = s /\ req'[r].start = b
  BY <1>0 DEF CachePut, Answer, BoundInv, TypeOK, Request
<1>4. RequestTime(r)'
  BY <1>0, <1>2, <1>3 DEF RequestTime, InFlight, Unborn
<1>5. AcceptTime(r)'
  BY <1>0, <1>2, <1>3, Constants DEF AcceptTime, NotBefore, InsideBound
<1>6. ASSUME NEW i \in Instances, NEW x \in Sessions, cache'[i][x] # cache[i][x]
      PROVE  CacheTime(i, x)'
  <2>1. x = s /\ cache'[i][x] = now + CacheTTL
    BY <1>0, <1>6 DEF CachePut, BoundInv, TypeOK
  <2>2. /\ Within(now + CacheTTL, goneAt[s]) /\ Within(now + CacheTTL, disabledAt[u])
        /\ now + CacheTTL < row[s].created + SessionTTL + Bound
    BY <1>0, <1>2, Constants DEF Within, NotBefore
  <2>. QED  BY <1>0, <1>2, <2>1, <2>2, Constants DEF CacheTime, Unborn
<1>. QED  BY <1>0, <1>1, <1>3, <1>4, <1>5, <1>6, OneRequest

LEMMA BoundStep == BoundInv /\ [Next]_vars => BoundInv'
<1>. SUFFICES ASSUME BoundInv, [Next]_vars PROVE BoundInv'
  OBVIOUS
<1>0. TypeOK' /\ TypeOK
  BY TypeStep DEF BoundInv
<1>1. CASE UNCHANGED vars
  <2>1. UNCHANGED <<now, cache, req>> /\ (\A s \in Sessions : Ended(s)) /\ (\A u \in Users : AgedUser(u))
    BY <1>1 DEF vars, Ended, AgedUser
  <2>. QED  BY <1>0, <2>1, EndBound
<1>2. CASE Tick
  BY <1>2, TickBound
<1>3. ASSUME NEW s \in Sessions, CreateSession(s, {}) PROVE BoundInv'
  <2>1. {} \in SUBSET Sessions
    OBVIOUS
  <2>. QED  BY <1>0, <1>3, <2>1, CreateBound
<1>4. ASSUME NEW s \in Sessions, NEW p \in Sessions, CreateSession(s, {p}) PROVE BoundInv'
  <2>1. {p} \in SUBSET Sessions
    OBVIOUS
  <2>. QED  BY <1>0, <1>4, <2>1, CreateBound
<1>5. ASSUME NEW r \in Requests, NEW i \in Instances, NEW s \in Sessions, Begin(r, i, s)
      PROVE  BoundInv'
  BY <1>0, <1>5, BeginBound
<1>6. ASSUME NEW r \in Requests,
             ReadSession(r) \/ CheckDeadlines(r) \/ ExpireSession(r) \/ TouchSession(r) \/ CachePut(r)
      PROVE  BoundInv'
  BY <1>0, <1>6, ReadBound, CheckBound, ExpireBound, TouchBound, PutBound
<1>7. ASSUME NEW s \in Sessions, RevokeSession(s) PROVE BoundInv'
  <2>1. {s} \in SUBSET Sessions /\ DeleteRows({s}) /\ UNCHANGED <<now, disabledAt, cache, req>>
    BY <1>7 DEF RevokeSession
  <2>2. (\A x \in Sessions : Ended(x)) /\ (\A u \in Users : AgedUser(u))
    BY <1>0, <2>1, DeleteRowsEnds DEF AgedUser
  <2>. QED  BY <1>0, <2>1, <2>2, EndBound
<1>8. ASSUME NEW u \in Users, RevokeUserSessions(u) \/ Disable(u) PROVE BoundInv'
  <2>1. DeleteRows(SessionsOf(u)) /\ UNCHANGED <<now, cache, req>>
    BY <1>8 DEF RevokeUserSessions, Disable
  <2>2. \A v \in Users : AgedUser(v)
    BY <1>0, <1>8 DEF RevokeUserSessions, Disable, AgedUser, TypeOK
  <2>3. \A x \in Sessions : Ended(x)
    BY <1>0, <2>1, SessionsOfType, DeleteRowsEnds
  <2>. QED  BY <1>0, <2>1, <2>2, <2>3, EndBound
<1>9. ASSUME NEW u \in Users, Enable(u) PROVE BoundInv'
  <2>1. UNCHANGED <<now, row, cache, req, goneAt>> /\ \A v \in Users : AgedUser(v)
    BY <1>0, <1>9 DEF Enable, AgedUser, TypeOK
  <2>2. \A x \in Sessions : Ended(x)
    BY <2>1 DEF Ended
  <2>. QED  BY <1>0, <2>1, <2>2, EndBound
<1>10. CASE Cleanup
  <2>. DEFINE ended == {s \in Sessions : row[s].live /\ row[s].expires <= now}
  <2>1. ended \in SUBSET Sessions /\ DeleteRows(ended) /\ UNCHANGED <<now, disabledAt, cache, req>>
    BY <1>10 DEF Cleanup
  <2>2. (\A x \in Sessions : Ended(x)) /\ (\A u \in Users : AgedUser(u))
    BY <1>0, <2>1, DeleteRowsEnds DEF AgedUser
  <2>. QED  BY <1>0, <2>1, <2>2, EndBound
<1>11. ASSUME NEW s \in Sessions, RevokeOtherSessions(s) PROVE BoundInv'
  <2>1. DeleteRows(SessionsOf(Owner[s]) \ {s}) /\ UNCHANGED <<now, disabledAt, cache, req>>
    BY <1>11 DEF RevokeOtherSessions
  <2>2. (\A x \in Sessions : Ended(x)) /\ (\A u \in Users : AgedUser(u))
    BY <1>0, <2>1, OthersType, DeleteRowsEnds DEF AgedUser
  <2>. QED  BY <1>0, <2>1, <2>2, EndBound
<1>. QED  BY <1>1, <1>2, <1>3, <1>4, <1>5, <1>6, <1>7, <1>8, <1>9, <1>10, <1>11 DEF Next

LEMMA BoundInit == Init => BoundInv
<1>. SUFFICES ASSUME Init PROVE BoundInv
  OBVIOUS
<1>1. TypeOK
  BY TypeInit
<1>2. RowTimes
  BY OwnerAssumption DEF Init, RowTimes, Never, NoRow
<1>3. \A r \in Requests : req[r].pc = "idle"
  BY DEF Init
<1>4. \A r \in Requests : RequestTime(r) /\ AcceptTime(r)
  BY <1>3 DEF RequestTime, AcceptTime, Accepted
<1>5. \A i \in Instances, s \in Sessions : CacheTime(i, s)
  BY DEF Init, CacheTime
<1>. QED  BY <1>1, <1>2, <1>4, <1>5, BoundParts DEF Parts

\* The inductive invariant of lookupSession and the principal cache holds.
THEOREM BoundInvariant == Spec => []BoundInv
BY BoundInit, BoundStep, PTL DEF Spec

\* A deleted session authenticates no request that begins MaxDelay + CacheTTL or
\* more after the delete, on any instance (resolvePrincipal, principalCache).
THEOREM RevocationBound == Spec => []RevokedEndsInBound
<1>1. BoundInv => RevokedEndsInBound
  BY DEF BoundInv
<1>. QED  BY <1>1, BoundInvariant, PTL

\* The same for a disabled user (SI-04), also for a session created after Disable.
THEOREM DisableBound == Spec => []DisabledEndsInBound
<1>1. BoundInv => DisabledEndsInBound
  BY DEF BoundInv
<1>. QED  BY <1>1, BoundInvariant, PTL

\* No touch extends a session past its absolute lifetime (lookupSession).
THEOREM LifetimeBound == Spec => []LifetimeEnds
<1>1. BoundInv => LifetimeEnds
  BY DEF BoundInv
<1>. QED  BY <1>1, BoundInvariant, PTL

-----------------------------------------------------------------------------
(* A revoked session never comes back.                                     *)

\* What any step does to one row and its end: they stay, the row is touched, the
\* row ends, or it is created.
RowStep(s) ==
    \/ row'[s].live = row[s].live /\ goneAt'[s] = goneAt[s]
    \/ row[s].live /\ ~row'[s].live /\ goneAt'[s] = now
    \/ Unborn(s) /\ row'[s].live /\ goneAt'[s] = goneAt[s]

LEMMA EndedIsRowStep == ASSUME NEW s, Ended(s) PROVE RowStep(s)
BY DEF Ended, RowStep

LEMMA CreateRowStep ==
    ASSUME TypeOK, NEW s \in Sessions, NEW previous \in SUBSET Sessions,
           CreateSession(s, previous), NEW x \in Sessions
    PROVE  RowStep(x)
<1>. DEFINE dead == {p \in previous : row[p].live}
<1>1. row[x] \in Row /\ Unborn(s)
  BY DEF TypeOK, CreateSession
<1>2. CASE x = s
  <2>1. row'[s].live = TRUE /\ goneAt'[s] = goneAt[s]
    BY <1>1 DEF CreateSession, Unborn
  <2>. QED  BY <1>1, <1>2, <2>1 DEF RowStep
<1>3. CASE x # s /\ x \in dead
  <2>1. row'[x] = [row[x] EXCEPT !.live = FALSE] /\ goneAt'[x] = now /\ row[x].live
    BY <1>3 DEF CreateSession
  <2>2. row'[x].live = FALSE
    BY <1>1, <2>1 DEF Row
  <2>. QED  BY <2>1, <2>2 DEF RowStep
<1>4. CASE x # s /\ x \notin dead
  <2>1. row'[x] = row[x] /\ goneAt'[x] = goneAt[x]
    BY <1>4 DEF CreateSession
  <2>. QED  BY <2>1 DEF RowStep
<1>. QED  BY <1>2, <1>3, <1>4

LEMMA EveryRowStep == ASSUME TypeOK, [Next]_vars, NEW x \in Sessions PROVE RowStep(x)
<1>1. CASE row' = row /\ goneAt' = goneAt
  BY <1>1 DEF RowStep
<1>2. ASSUME NEW S \in SUBSET Sessions, DeleteRows(S) PROVE RowStep(x)
  BY <1>2, DeleteRowsEnds, EndedIsRowStep
<1>3. ASSUME NEW s \in Sessions, CreateSession(s, {}) PROVE RowStep(x)
  <2>1. {} \in SUBSET Sessions
    OBVIOUS
  <2>. QED  BY <1>3, <2>1, CreateRowStep
<1>4. ASSUME NEW s \in Sessions, NEW p \in Sessions, CreateSession(s, {p}) PROVE RowStep(x)
  <2>1. {p} \in SUBSET Sessions
    OBVIOUS
  <2>. QED  BY <1>4, <2>1, CreateRowStep
<1>5. ASSUME NEW r \in Requests, TouchSession(r) PROVE RowStep(x)
  BY <1>5 DEF TouchSession, TypeOK, Row, RowStep
<1>6. ASSUME NEW r \in Requests, ExpireSession(r) PROVE RowStep(x)
  <2>1. {req[r].sess} \in SUBSET Sessions
    BY DEF TypeOK, Request
  <2>. QED  BY <1>2, <1>6, <2>1 DEF ExpireSession
<1>7. ASSUME NEW s \in Sessions, RevokeSession(s) PROVE RowStep(x)
  <2>1. {s} \in SUBSET Sessions
    OBVIOUS
  <2>. QED  BY <1>2, <1>7, <2>1 DEF RevokeSession
<1>8. ASSUME NEW u \in Users, RevokeUserSessions(u) \/ Disable(u) PROVE RowStep(x)
  BY <1>2, <1>8, SessionsOfType DEF RevokeUserSessions, Disable
<1>9. CASE Cleanup
  <2>. DEFINE ended == {s \in Sessions : row[s].live /\ row[s].expires <= now}
  <2>1. ended \in SUBSET Sessions /\ DeleteRows(ended)
    BY <1>9 DEF Cleanup
  <2>. QED  BY <1>2, <2>1
<1>10. ASSUME NEW r \in Requests,
              (\E i \in Instances, s \in Sessions : Begin(r, i, s))
              \/ ReadSession(r) \/ CheckDeadlines(r) \/ CachePut(r)
       PROVE  RowStep(x)
  BY <1>1, <1>10 DEF Begin, ReadSession, CheckDeadlines, CachePut
<1>11. CASE Tick \/ (\E u \in Users : Enable(u)) \/ UNCHANGED vars
  BY <1>1, <1>11 DEF Tick, Enable, vars
<1>12. ASSUME NEW s \in Sessions, RevokeOtherSessions(s) PROVE RowStep(x)
  BY <1>2, <1>12, OthersType DEF RevokeOtherSessions
<1>. QED  BY <1>3, <1>4, <1>5, <1>6, <1>7, <1>8, <1>9, <1>10, <1>11, <1>12 DEF Next

\* No touch, expiry delete or cache write that was decided before a revocation
\* restores the row (Sessions().Touch, Sessions().Delete).
THEOREM NeverRestored == Spec => RevokedStaysRevoked
<1>1. BoundInv /\ [Next]_vars =>
        [\A s \in Sessions : goneAt[s] # Never => ~row'[s].live /\ goneAt'[s] = goneAt[s]]_vars
  <2>. SUFFICES ASSUME BoundInv, [Next]_vars, NEW s \in Sessions, goneAt[s] # Never
                PROVE  ~row'[s].live /\ goneAt'[s] = goneAt[s]
    OBVIOUS
  <2>1. ~row[s].live /\ row[s] \in Row /\ TypeOK
    BY DEF BoundInv, RowTimes, TypeOK
  <2>2. RowStep(s)
    BY <2>1, EveryRowStep
  <2>. QED  BY <2>1, <2>2 DEF RowStep, Unborn
<1>. QED  BY <1>1, BoundInvariant, PTL DEF Spec, RevokedStaysRevoked

-----------------------------------------------------------------------------
(* The idle timeout.                                                       *)

\* The facts about numbers that the proofs below use, of one request and of one
\* session.
LEMMA RequestTypes ==
    ASSUME TypeOK, NEW r \in Requests
    PROVE  /\ req[r].sess \in Sessions /\ req[r].inst \in Instances
           /\ req[r].start \in Int /\ req[r].prev \in Int /\ req[r].at \in Int
           /\ req[r].seen.lastSeen \in Int /\ req[r].ok \in BOOLEAN
           /\ lastUse[req[r].sess] \in Int /\ row[req[r].sess].lastSeen \in Int
BY DEF TypeOK, Request, Row, Times

LEMMA SessionTypes ==
    ASSUME TypeOK, NEW s \in Sessions
    PROVE  /\ row[s].lastSeen \in Int /\ lastUse[s] \in Int /\ now \in Nat
           /\ \A i \in Instances : cache[i][s] \in Int
BY DEF TypeOK, Row, Times

\* Steps that leave the requests, the last uses and the touches alone.
LEMMA IdleFrame ==
    ASSUME IdleInv, BoundInv', now <= now', UNCHANGED <<cache, req, lastUse>>,
           \A s \in Sessions : row'[s].lastSeen = row[s].lastSeen
    PROVE  IdleInv'
<1>0. TypeOK /\ TypeOK'
  BY DEF IdleInv, BoundInv
<1>1. UseTimes'
  <2>1. \A s \in Sessions : row'[s].lastSeen <= lastUse'[s] + MaxDelay /\ lastUse'[s] <= now'
    <3>. SUFFICES ASSUME NEW s \in Sessions
                  PROVE  row'[s].lastSeen <= lastUse'[s] + MaxDelay /\ lastUse'[s] <= now'
      OBVIOUS
    <3>1. row[s].lastSeen <= lastUse[s] + MaxDelay /\ lastUse[s] <= now /\ now \in Nat /\ now' \in Nat
          /\ lastUse[s] \in Int
      BY <1>0, SessionTypes DEF IdleInv, UseTimes, TypeOK
    <3>. QED  BY <3>1
  <2>. QED  BY <2>1 DEF IdleInv, UseTimes
<1>2. \A r \in Requests : GapSelf(r)'
  <2>1. \A r \in Requests : req[r].sess \in Sessions
    BY <1>0, RequestTypes
  <2>. QED  BY <2>1 DEF IdleInv, GapSelf, AfterGap, Accepted
<1>3. \A r, o \in Requests : GapPair(r, o)'
  BY DEF IdleInv, GapPair, AfterGap
<1>. QED  BY <1>1, <1>2, <1>3 DEF IdleInv

\* A new session starts with the use that created it, and no request knows it.
LEMMA IdleCreate ==
    ASSUME IdleInv, BoundInv', NEW s \in Sessions, NEW previous \in SUBSET Sessions,
           CreateSession(s, previous)
    PROVE  IdleInv'
<1>0. /\ TypeOK /\ Unborn(s) /\ now' = now /\ UNCHANGED <<cache, req>>
      /\ lastUse' = [lastUse EXCEPT ![s] = now]
  BY DEF CreateSession, IdleInv, BoundInv
<1>1. row'[s].lastSeen = now
  BY DEF CreateSession
<1>2. ASSUME NEW x \in Sessions, x # s PROVE row'[x].lastSeen = row[x].lastSeen /\ lastUse'[x] = lastUse[x]
  <2>1. row'[x] = row[x] \/ row'[x] = [row[x] EXCEPT !.live = FALSE]
    BY <1>2 DEF CreateSession
  <2>. QED  BY <1>0, <1>2, <2>1 DEF TypeOK, Row
<1>3. lastUse'[s] = now /\ now \in Nat
  BY <1>0 DEF TypeOK
<1>4. \A r \in Requests : req[r].pc # "idle" => req[r].sess \in Sessions /\ req[r].sess # s
  BY <1>0, RequestTypes DEF IdleInv, BoundInv, RequestTime
<1>5. \A i \in Instances : cache[i][s] = Never
  BY <1>0 DEF IdleInv, BoundInv, CacheTime
<1>6. UseTimes'
  <2>1. ASSUME NEW x \in Sessions
        PROVE  row'[x].lastSeen <= lastUse'[x] + MaxDelay /\ lastUse'[x] <= now'
    <3>1. CASE x = s
      BY <1>0, <1>1, <1>3, <3>1, Constants
    <3>2. CASE x # s
      BY <1>0, <1>2, <3>2 DEF IdleInv, UseTimes
    <3>. QED  BY <3>1, <3>2
  <2>2. ASSUME NEW i \in Instances, NEW x \in Sessions, cache'[i][x] # Never
        PROVE  cache'[i][x] <= lastUse'[x] + Bound
    <3>1. x # s
      BY <1>0, <1>5, <2>2
    <3>. QED  BY <1>0, <1>2, <2>2, <3>1 DEF IdleInv, UseTimes
  <2>3. ASSUME NEW r \in Requests, req[r].pc # "idle"
        PROVE  lastUse'[req[r].sess] = lastUse[req[r].sess]
    BY <1>2, <1>4, <2>3
  <2>. QED  BY <1>0, <2>1, <2>2, <2>3 DEF IdleInv, UseTimes
<1>7. \A r \in Requests : GapSelf(r)'
  BY <1>0, <1>2, <1>4 DEF IdleInv, GapSelf, AfterGap, Accepted
<1>8. \A r, o \in Requests : GapPair(r, o)'
  BY <1>0 DEF IdleInv, GapPair, AfterGap
<1>. QED  BY <1>6, <1>7, <1>8 DEF IdleInv

\* A request that begins after the gap finds no entry that has not ended, and
\* every earlier request of its session began by prev.
LEMMA IdleBegin ==
    ASSUME IdleInv, BoundInv', NEW r \in Requests, NEW i \in Instances, NEW s \in Sessions,
           Begin(r, i, s)
    PROVE  IdleInv'
<1>. DEFINE hit == CacheHit(i, s)
<1>0. /\ TypeOK /\ UNCHANGED <<now, row, disabledAt, goneAt>> /\ now \in Nat
      /\ \A o \in Requests \ {r} : req'[o] = req[o]
      /\ req'[r].pc = (IF hit THEN "done" ELSE "read") /\ req'[r].sess = s
      /\ req'[r].start = now /\ req'[r].ok = hit /\ req'[r].prev = lastUse[s]
      /\ \A j \in Instances, x \in Sessions : cache'[j][x] = cache[j][x] \/ cache'[j][x] = Never
      /\ lastUse' = [lastUse EXCEPT ![s] = now]
  BY DEF Begin, IdleInv, BoundInv, TypeOK
<1>1. \A x \in Sessions : /\ lastUse[x] \in Int /\ row[x].lastSeen \in Int
                          /\ \A j \in Instances : cache[j][x] \in Int
                          /\ row[x].lastSeen <= lastUse[x] + MaxDelay /\ lastUse[x] <= now
                          /\ \A j \in Instances : cache[j][x] # Never => cache[j][x] <= lastUse[x] + Bound
  BY <1>0, SessionTypes DEF IdleInv, UseTimes
<1>2. \A x \in Sessions : lastUse'[x] \in Int /\ lastUse[x] <= lastUse'[x] /\ lastUse'[x] <= now'
  BY <1>0, <1>1 DEF TypeOK
<1>3. lastUse'[s] = now
  BY <1>0 DEF TypeOK
<1>4. \A o \in Requests : /\ req[o].sess \in Sessions /\ req[o].start \in Int /\ req[o].prev \in Int
                          /\ req[o].seen.lastSeen \in Int
                          /\ req[o].pc # "idle" => req[o].start <= now
  BY <1>0, RequestTypes DEF IdleInv, BoundInv, RequestTime
<1>5. UseTimes'
  <2>1. ASSUME NEW x \in Sessions
        PROVE  row'[x].lastSeen <= lastUse'[x] + MaxDelay /\ lastUse'[x] <= now'
    BY <1>0, <1>1, <1>2, Constants
  <2>2. ASSUME NEW j \in Instances, NEW x \in Sessions, cache'[j][x] # Never
        PROVE  cache'[j][x] <= lastUse'[x] + Bound
    BY <1>0, <1>1, <1>2, <2>2, Constants
  <2>3. ASSUME NEW o \in Requests, req'[o].pc # "idle"
        PROVE  /\ req'[o].start <= lastUse'[req'[o].sess]
               /\ req'[o].pc = "check" => req'[o].seen.lastSeen <= lastUse'[req'[o].sess] + MaxDelay
               /\ req'[o].pc \in {"touch", "put"} => req'[o].at <= req'[o].start + MaxDelay
    <3>1. CASE o = r
      BY <1>0, <1>3, <3>1
    <3>2. CASE o # r
      <4>1. /\ req[o].start <= lastUse[req[o].sess]
            /\ req[o].pc = "check" => req[o].seen.lastSeen <= lastUse[req[o].sess] + MaxDelay
            /\ req[o].pc \in {"touch", "put"} => req[o].at <= req[o].start + MaxDelay
        BY <1>0, <2>3, <3>2 DEF IdleInv, UseTimes
      <4>2. req'[o] = req[o]
        BY <1>0, <3>2
      <4>3. /\ lastUse[req[o].sess] \in Int /\ lastUse'[req[o].sess] \in Int
            /\ lastUse[req[o].sess] <= lastUse'[req[o].sess]
            /\ req[o].start \in Int /\ req[o].seen.lastSeen \in Int
        BY <1>1, <1>2, <1>4
      <4>4. req[o].start <= lastUse'[req[o].sess]
        BY <4>1, <4>3
      <4>5. req[o].pc = "check" => req[o].seen.lastSeen <= lastUse'[req[o].sess] + MaxDelay
        BY <4>1, <4>3, Constants
      <4>. QED  BY <4>1, <4>2, <4>4, <4>5
    <3>. QED  BY <3>1, <3>2
  <2>. QED  BY <2>1, <2>2, <2>3 DEF UseTimes
<1>6. ASSUME NEW o \in Requests PROVE GapSelf(o)'
  <2>1. CASE o = r
    <3>1. ASSUME now >= lastUse[s] + IdleTimeout + Bound PROVE ~hit
      BY <1>0, <1>1, <3>1, Constants DEF CacheHit
    <3>. QED  BY <1>0, <1>1, <2>1, <3>1 DEF GapSelf, AfterGap, Accepted
  <2>2. CASE o # r
    <3>1. req'[o] = req[o] /\ req[o].sess \in Sessions /\ row' = row
      BY <1>0, <1>4, <2>2
    <3>2. \A j \in Instances : \/ cache'[j][req[o].sess] = cache[j][req[o].sess]
                               \/ cache'[j][req[o].sess] = Never
      BY <1>0, <3>1
    <3>3. GapSelf(o)
      BY DEF IdleInv
    <3>. QED  BY <3>1, <3>2, <3>3 DEF GapSelf, AfterGap, Accepted
  <2>. QED  BY <2>1, <2>2
<1>7. ASSUME NEW q \in Requests, NEW o \in Requests PROVE GapPair(q, o)'
  <2>1. CASE o = r
    <3>1. req'[q].pc # "idle" => req'[q].start <= req'[r].start
      <4>1. CASE q = r
        BY <1>0, <4>1
      <4>2. CASE q # r
        BY <1>0, <1>4, <4>2
      <4>. QED  BY <4>1, <4>2
    <3>2. req'[r].pc \notin {"check", "touch", "put"}
      BY <1>0
    <3>. QED  BY <2>1, <3>1, <3>2 DEF GapPair, AfterGap
  <2>2. CASE o # r /\ q = r
    BY <1>0, <1>4, <2>2 DEF IdleInv, UseTimes, GapPair, AfterGap
  <2>3. CASE o # r /\ q # r
    BY <1>0, <2>3 DEF IdleInv, GapPair, AfterGap
  <2>. QED  BY <2>1, <2>2, <2>3
<1>. QED  BY <1>5, <1>6, <1>7 DEF IdleInv

\* A later step of one request.  Touches and entries it writes are dated from its
\* start, and it passes the check only if it began by the prev of every gap.
LEMMA IdleOne ==
    ASSUME IdleInv, BoundInv', UNCHANGED <<now, lastUse>>, NEW r \in Requests, InFlight(r),
           \A o \in Requests \ {r} : req'[o] = req[o],
           req'[r].pc # "idle", req'[r].sess = req[r].sess, req'[r].start = req[r].start,
           req'[r].prev = req[r].prev,
           \A x \in Sessions : \/ row'[x].lastSeen = row[x].lastSeen
                               \/ /\ x = req[r].sess /\ req[r].pc = "touch"
                                  /\ row'[x].lastSeen <= req[r].start + MaxDelay,
           \A i \in Instances, x \in Sessions :
              \/ cache'[i][x] = cache[i][x]
              \/ /\ x = req[r].sess /\ req[r].pc = "put"
                 /\ cache'[i][x] <= req[r].start + Bound,
           req'[r].pc = "check" => req'[r].seen.lastSeen = row[req[r].sess].lastSeen,
           req'[r].pc \in {"touch", "put"} =>
              /\ req'[r].at <= req[r].start + MaxDelay
              /\ \/ req[r].pc \in {"touch", "put"}
                 \/ req[r].pc = "check" /\ now < req[r].seen.lastSeen + IdleTimeout,
           Accepted(r)' => req[r].pc = "put"
    PROVE  IdleInv'
<1>. DEFINE s == req[r].sess
            b == req[r].start
<1>0. /\ TypeOK /\ TypeOK' /\ now \in Nat /\ s \in Sessions /\ b \in Int /\ req[r].prev \in Int
      /\ req[r].seen.lastSeen \in Int
      /\ req[r].pc # "idle" /\ b <= now /\ b <= lastUse[s]
  BY RequestTypes DEF IdleInv, BoundInv, UseTimes, RequestTime, InFlight, TypeOK
<1>1. \A x \in Sessions : /\ lastUse[x] \in Int /\ row[x].lastSeen \in Int
                          /\ row'[x].lastSeen \in Int
                          /\ \A j \in Instances : cache[j][x] \in Int /\ cache'[j][x] \in Int
                          /\ row[x].lastSeen <= lastUse[x] + MaxDelay /\ lastUse[x] <= now
                          /\ \A j \in Instances : cache[j][x] # Never => cache[j][x] <= lastUse[x] + Bound
  BY <1>0, SessionTypes DEF IdleInv, UseTimes, TypeOK, Row, Times
<1>2. \A o \in Requests : req[o].sess \in Sessions /\ req[o].start \in Int /\ req[o].prev \in Int
  BY <1>0, RequestTypes
<1>3. UseTimes'
  <2>1. ASSUME NEW x \in Sessions
        PROVE  row'[x].lastSeen <= lastUse'[x] + MaxDelay /\ lastUse'[x] <= now'
    <3>1. lastUse'[x] = lastUse[x] /\ now' = now
      OBVIOUS
    <3>2. CASE row'[x].lastSeen = row[x].lastSeen
      BY <1>1, <3>1, <3>2
    <3>3. CASE x = s /\ row'[x].lastSeen <= b + MaxDelay
      BY <1>0, <1>1, <3>1, <3>3, Constants
    <3>. QED  BY <3>2, <3>3
  <2>2. ASSUME NEW j \in Instances, NEW x \in Sessions, cache'[j][x] # Never
        PROVE  cache'[j][x] <= lastUse'[x] + Bound
    BY <1>0, <1>1, <2>2, Constants
  <2>3. ASSUME NEW o \in Requests, req'[o].pc # "idle"
        PROVE  /\ req'[o].start <= lastUse'[req'[o].sess]
               /\ req'[o].pc = "check" => req'[o].seen.lastSeen <= lastUse'[req'[o].sess] + MaxDelay
               /\ req'[o].pc \in {"touch", "put"} => req'[o].at <= req'[o].start + MaxDelay
    <3>1. CASE o = r
      <4>1. req'[r].start <= lastUse'[req'[r].sess]
        BY <1>0
      <4>2. req'[r].pc = "check" => req'[r].seen.lastSeen <= lastUse'[req'[r].sess] + MaxDelay
        BY <1>0, <1>1
      <4>3. req'[r].pc \in {"touch", "put"} => req'[r].at <= req'[r].start + MaxDelay
        OBVIOUS
      <4>. QED  BY <3>1, <4>1, <4>2, <4>3
    <3>2. CASE o # r
      BY <2>3, <3>2 DEF IdleInv, UseTimes
    <3>. QED  BY <3>1, <3>2
  <2>. QED  BY <2>1, <2>2, <2>3 DEF UseTimes
\* Of every gap of the session: r passed the check only if it began by prev.
<1>4. ASSUME NEW q \in Requests, AfterGap(q), req[q].sess = s, req'[r].pc \in {"touch", "put"} \/ req[r].pc \in {"touch", "put"}
      PROVE  b <= req[q].prev
  <2>1. GapPair(q, r)
    BY DEF IdleInv
  <2>2. CASE req[r].pc \in {"touch", "put"}
    BY <1>0, <1>4, <2>1, <2>2 DEF GapPair
  <2>3. CASE req[r].pc = "check" /\ now < req[r].seen.lastSeen + IdleTimeout
    <3>1. req[r].seen.lastSeen <= req[q].prev + MaxDelay
          /\ (b <= req[q].prev \/ req[q].start <= b)
      BY <1>0, <1>4, <2>1, <2>3 DEF GapPair
    <3>2. req[q].start >= req[q].prev + IdleTimeout + Bound
      BY <1>4 DEF AfterGap
    <3>. QED  BY <1>0, <1>2, <2>3, <3>1, <3>2, Constants
  <2>. QED  BY <1>4, <2>2, <2>3
<1>5. \A q \in Requests : /\ req'[q].sess = req[q].sess /\ req'[q].start = req[q].start
                          /\ req'[q].prev = req[q].prev
                          /\ (req'[q].pc # "idle") = (req[q].pc # "idle")
  BY <1>0
<1>6. \A q \in Requests : AfterGap(q)' = AfterGap(q)
  BY <1>5 DEF AfterGap
<1>7. ASSUME NEW q \in Requests PROVE GapSelf(q)'
  <2>. SUFFICES ASSUME AfterGap(q)
                PROVE  /\ ~Accepted(q)'
                       /\ row'[req[q].sess].lastSeen <= req[q].prev + MaxDelay
                       /\ \A j \in Instances : cache'[j][req[q].sess] # Never =>
                             cache'[j][req[q].sess] <= req[q].prev + Bound
    BY <1>5, <1>6 DEF GapSelf
  <2>0. /\ ~Accepted(q) /\ row[req[q].sess].lastSeen <= req[q].prev + MaxDelay
        /\ \A j \in Instances : cache[j][req[q].sess] # Never =>
              cache[j][req[q].sess] <= req[q].prev + Bound
    BY DEF IdleInv, GapSelf
  <2>1. ~Accepted(q)'
    <3>1. CASE q # r
      BY <2>0, <3>1 DEF Accepted
    <3>2. CASE q = r
      <4>1. req[r].pc = "put" => b <= req[r].prev
        BY <1>4, <3>2
      <4>2. b >= req[r].prev + IdleTimeout + Bound /\ IdleTimeout >= 1
        BY <3>2, TimeAssumption DEF AfterGap
      <4>3. req[r].pc # "put"
        BY <1>0, <4>1, <4>2, Constants
      <4>. QED  BY <3>2, <4>3
    <3>. QED  BY <3>1, <3>2
  <2>2. row'[req[q].sess].lastSeen <= req[q].prev + MaxDelay
    <3>1. CASE row'[req[q].sess].lastSeen = row[req[q].sess].lastSeen
      BY <2>0, <3>1
    <3>2. CASE /\ req[q].sess = s /\ req[r].pc = "touch"
               /\ row'[req[q].sess].lastSeen <= b + MaxDelay
      <4>1. b <= req[q].prev
        BY <1>4, <3>2
      <4>. QED  BY <1>0, <1>1, <1>2, <3>2, <4>1, Constants
    <3>. QED  BY <1>2, <3>1, <3>2
  <2>3. ASSUME NEW j \in Instances, cache'[j][req[q].sess] # Never
        PROVE  cache'[j][req[q].sess] <= req[q].prev + Bound
    <3>1. CASE cache'[j][req[q].sess] = cache[j][req[q].sess]
      BY <2>0, <2>3, <3>1
    <3>2. CASE /\ req[q].sess = s /\ req[r].pc = "put"
               /\ cache'[j][req[q].sess] <= b + Bound
      <4>1. b <= req[q].prev
        BY <1>4, <3>2
      <4>. QED  BY <1>0, <1>1, <1>2, <3>2, <4>1, Constants
    <3>. QED  BY <1>2, <3>1, <3>2
  <2>. QED  BY <2>1, <2>2, <2>3
<1>8. ASSUME NEW q \in Requests, NEW o \in Requests PROVE GapPair(q, o)'
  <2>. SUFFICES ASSUME AfterGap(q), req[o].pc # "idle", req[o].sess = req[q].sess
                PROVE  /\ req[o].start <= req[q].prev \/ req[q].start <= req[o].start
                       /\ req'[o].pc = "check" => req'[o].seen.lastSeen <= req[q].prev + MaxDelay
                       /\ req'[o].pc \in {"touch", "put"} => req[o].start <= req[q].prev
    BY <1>5, <1>6 DEF GapPair
  <2>0. GapPair(q, o) /\ GapSelf(q)
    BY DEF IdleInv
  <2>1. CASE o # r
    BY <2>0, <2>1 DEF GapPair
  <2>2. CASE o = r
    BY <1>0, <1>4, <2>0, <2>2 DEF GapPair, GapSelf
  <2>. QED  BY <2>1, <2>2
<1>. QED  BY <1>3, <1>7, <1>8 DEF IdleInv

\* Every later step of a request keeps the invariant.
LEMMA IdleRequest ==
    ASSUME IdleInv, BoundInv', NEW r \in Requests,
           \/ ReadSession(r) \/ CheckDeadlines(r) \/ ExpireSession(r)
           \/ TouchSession(r) \/ CachePut(r)
    PROVE  IdleInv'
<1>0. /\ TypeOK /\ now \in Nat /\ req \in [Requests -> Request] /\ req[r] \in Request
      /\ req[r].sess \in Sessions /\ req[r].start \in Int /\ req[r].at \in Int
      /\ row \in [Sessions -> Row]
  BY RequestTypes DEF IdleInv, BoundInv, TypeOK
<1>1. CASE ReadSession(r)
  <2>1. /\ InFlight(r) /\ UNCHANGED <<now, row, cache, lastUse>>
        /\ \A o \in Requests \ {r} : req'[o] = req[o]
    BY <1>0, <1>1 DEF ReadSession, Answer, InFlight
  <2>2. /\ req'[r].pc \in {"check", "done"}
        /\ req'[r].sess = req[r].sess /\ req'[r].start = req[r].start
        /\ req'[r].prev = req[r].prev
        /\ req'[r].pc = "check" => req'[r].seen = row[req[r].sess]
        /\ req'[r].pc = "done" => ~req'[r].ok
    <3>1. CASE req' = [req EXCEPT ![r].pc = "check", ![r].seen = row[req[r].sess]]
      BY <1>0, <3>1 DEF Request
    <3>2. CASE Answer(r, FALSE)
      BY <1>0, <3>2 DEF Answer, Request
    <3>. QED  BY <1>1, <3>1, <3>2 DEF ReadSession
  <2>. QED  BY <2>1, <2>2, IdleOne DEF Accepted
<1>2. CASE CheckDeadlines(r)
  <2>1. /\ InFlight(r) /\ req[r].pc = "check" /\ UNCHANGED <<now, row, cache, lastUse>>
        /\ \A o \in Requests \ {r} : req'[o] = req[o]
    BY <1>0, <1>2 DEF CheckDeadlines, InFlight
  <2>2. /\ req'[r].pc \in {"expire", "touch", "put"} /\ req'[r].at = now
        /\ req'[r].sess = req[r].sess /\ req'[r].start = req[r].start
        /\ req'[r].prev = req[r].prev
        /\ req'[r].pc \in {"touch", "put"} => ~Expired(req[r].seen, now)
    BY <1>0, <1>2 DEF CheckDeadlines, Request
  <2>3. now <= req[r].start + MaxDelay
    BY <2>1 DEF IdleInv, BoundInv, RequestTime
  <2>4. req'[r].pc \in {"touch", "put"} => now < req[r].seen.lastSeen + IdleTimeout
    BY <1>0, <2>2, RequestTypes, Constants DEF Expired
  <2>. QED  BY <2>1, <2>2, <2>3, <2>4, IdleOne DEF Accepted
<1>3. CASE ExpireSession(r)
  <2>1. /\ InFlight(r) /\ UNCHANGED <<now, cache, lastUse>>
        /\ \A o \in Requests \ {r} : req'[o] = req[o]
        /\ DeleteRows({req[r].sess})
    BY <1>0, <1>3 DEF ExpireSession, Answer, InFlight
  <2>2. /\ req'[r].pc = "done" /\ ~req'[r].ok
        /\ req'[r].sess = req[r].sess /\ req'[r].start = req[r].start
        /\ req'[r].prev = req[r].prev
    BY <1>0, <1>3 DEF ExpireSession, Answer, Request
  <2>3. {req[r].sess} \in SUBSET Sessions
    BY <1>0
  <2>4. \A x \in Sessions : row'[x].lastSeen = row[x].lastSeen
    BY <1>0, <2>1, <2>3, DeleteRowsEnds DEF Ended
  <2>. QED  BY <2>1, <2>2, <2>4, IdleOne DEF Accepted
<1>4. CASE TouchSession(r)
  <2>1. /\ InFlight(r) /\ req[r].pc = "touch" /\ UNCHANGED <<now, cache, lastUse>>
        /\ \A o \in Requests \ {r} : req'[o] = req[o]
    BY <1>0, <1>4 DEF TouchSession, InFlight
  <2>2. /\ req'[r].pc = "put" /\ req'[r].at = req[r].at
        /\ req'[r].sess = req[r].sess /\ req'[r].start = req[r].start
        /\ req'[r].prev = req[r].prev
    BY <1>0, <1>4 DEF TouchSession, Request
  <2>3. req[r].at <= req[r].start + MaxDelay
    BY <2>1 DEF IdleInv, UseTimes
  <2>4. \A x \in Sessions : \/ row'[x].lastSeen = row[x].lastSeen
                            \/ x = req[r].sess /\ row'[x].lastSeen = req[r].at
    BY <1>0, <1>4 DEF TouchSession, Row
  <2>. QED  BY <2>1, <2>2, <2>3, <2>4, IdleOne DEF Accepted
<1>5. CASE CachePut(r)
  <2>1. /\ InFlight(r) /\ req[r].pc = "put" /\ UNCHANGED <<now, row, lastUse>>
        /\ \A o \in Requests \ {r} : req'[o] = req[o]
    BY <1>0, <1>5 DEF CachePut, Answer, InFlight
  <2>2. /\ req'[r].pc = "done"
        /\ req'[r].sess = req[r].sess /\ req'[r].start = req[r].start
        /\ req'[r].prev = req[r].prev
    BY <1>0, <1>5 DEF CachePut, Answer, Request
  <2>3. now <= req[r].start + MaxDelay
    BY <2>1 DEF IdleInv, BoundInv, RequestTime
  <2>4. now + CacheTTL <= req[r].start + Bound
    BY <1>0, <2>3, Constants
  <2>5. \A i \in Instances, x \in Sessions :
           \/ cache'[i][x] = cache[i][x]
           \/ x = req[r].sess /\ cache'[i][x] = now + CacheTTL
    BY <1>0, <1>5 DEF CachePut, TypeOK
  <2>. QED  BY <2>1, <2>2, <2>4, <2>5, IdleOne DEF Accepted
<1>. QED  BY <1>1, <1>2, <1>3, <1>4, <1>5

LEMMA IdleStep == IdleInv /\ [Next]_vars => IdleInv'
<1>. SUFFICES ASSUME IdleInv, [Next]_vars PROVE IdleInv'
  OBVIOUS
<1>0. TypeOK /\ now \in Nat /\ BoundInv'
  BY BoundStep DEF IdleInv, BoundInv, TypeOK
<1>1. ASSUME NEW S \in SUBSET Sessions, DeleteRows(S), UNCHANGED <<now, cache, req, lastUse>>
      PROVE  IdleInv'
  <2>1. \A x \in Sessions : row'[x].lastSeen = row[x].lastSeen
    BY <1>0, <1>1, DeleteRowsEnds DEF Ended
  <2>. QED  BY <1>0, <1>1, <2>1, IdleFrame
<1>2. CASE Tick \/ (\E u \in Users : Enable(u)) \/ UNCHANGED vars
  <2>1. now <= now' /\ UNCHANGED <<row, cache, req, lastUse>>
    BY <1>0, <1>2 DEF Tick, Enable, vars
  <2>. QED  BY <1>0, <2>1, IdleFrame
<1>3. ASSUME NEW s \in Sessions, CreateSession(s, {}) PROVE IdleInv'
  <2>1. {} \in SUBSET Sessions
    OBVIOUS
  <2>. QED  BY <1>0, <1>3, <2>1, IdleCreate
<1>4. ASSUME NEW s \in Sessions, NEW p \in Sessions, CreateSession(s, {p}) PROVE IdleInv'
  <2>1. {p} \in SUBSET Sessions
    OBVIOUS
  <2>. QED  BY <1>0, <1>4, <2>1, IdleCreate
<1>5. ASSUME NEW r \in Requests, NEW i \in Instances, NEW s \in Sessions, Begin(r, i, s)
      PROVE  IdleInv'
  BY <1>0, <1>5, IdleBegin
<1>6. ASSUME NEW r \in Requests,
             \/ ReadSession(r) \/ CheckDeadlines(r) \/ ExpireSession(r)
             \/ TouchSession(r) \/ CachePut(r)
      PROVE  IdleInv'
  BY <1>0, <1>6, IdleRequest
<1>7. ASSUME NEW s \in Sessions, RevokeSession(s) PROVE IdleInv'
  <2>1. {s} \in SUBSET Sessions
    OBVIOUS
  <2>. QED  BY <1>1, <1>7, <2>1 DEF RevokeSession
<1>8. ASSUME NEW u \in Users, RevokeUserSessions(u) \/ Disable(u) PROVE IdleInv'
  BY <1>1, <1>8, SessionsOfType DEF RevokeUserSessions, Disable
<1>9. CASE Cleanup
  <2>. DEFINE ended == {s \in Sessions : row[s].live /\ row[s].expires <= now}
  <2>1. /\ ended \in SUBSET Sessions /\ DeleteRows(ended)
        /\ UNCHANGED <<now, cache, req, lastUse>>
    BY <1>9 DEF Cleanup
  <2>. QED  BY <1>1, <2>1
<1>10. ASSUME NEW s \in Sessions, RevokeOtherSessions(s) PROVE IdleInv'
  BY <1>1, <1>10, OthersType DEF RevokeOtherSessions
<1>. QED  BY <1>2, <1>3, <1>4, <1>5, <1>6, <1>7, <1>8, <1>9, <1>10 DEF Next

LEMMA IdleInit == Init => IdleInv
<1>. SUFFICES ASSUME Init PROVE IdleInv
  OBVIOUS
<1>1. BoundInv
  BY BoundInit
<1>0. \A r \in Requests : req[r].pc = "idle"
  BY DEF Init
<1>2. UseTimes
  <2>1. \A s \in Sessions : row[s].lastSeen = -1 /\ lastUse[s] = -1 /\ now = 0
    BY DEF Init, NoRow, Never
  <2>2. \A i \in Instances, s \in Sessions : cache[i][s] = Never
    BY DEF Init
  <2>. QED  BY <1>0, <2>1, <2>2, Constants DEF UseTimes
<1>3. \A r \in Requests : GapSelf(r)
  BY <1>0 DEF GapSelf, AfterGap
<1>4. \A r, o \in Requests : GapPair(r, o)
  BY <1>0 DEF GapPair, AfterGap
<1>. QED  BY <1>1, <1>2, <1>3, <1>4 DEF IdleInv

\* The idle invariant holds always (lookupSession, Sessions().Touch).
THEOREM IdleInvariant == Spec => []IdleInv
BY IdleInit, IdleStep, PTL DEF Spec

\* No session idle for the timeout plus the bound authenticates a request, however
\* late and in whatever order its touches are written (lookupSession).
THEOREM IdleBound == Spec => []IdleEnds
<1>1. IdleInv => IdleEnds
  <2>. SUFFICES ASSUME IdleInv, NEW r \in Requests, Accepted(r)
                PROVE  req[r].start < req[r].prev + IdleTimeout + MaxDelay + CacheTTL
    BY DEF IdleEnds
  <2>1. ~AfterGap(r)
    BY DEF IdleInv, GapSelf
  <2>2. req[r].start \in Int /\ req[r].prev \in Int
    BY RequestTypes DEF IdleInv, BoundInv
  <2>. QED  BY <2>1, <2>2, Constants DEF AfterGap, Accepted
<1>. QED  BY <1>1, IdleInvariant, PTL

-----------------------------------------------------------------------------
(* The same bound for API keys.  The keys have tables and requests of      *)
(* their own; the instances and the times are those of the sessions.       *)

CONSTANTS Resources, Actions, Keys, KeyParts, Busy, TopRank, BuiltIn, Declarable, RankOf
VARIABLES owner, key, org, member, custom, keyCache, keyReq, part, watch, lost, late, wrong

K == INSTANCE ApiKeys WITH Parts <- KeyParts, cache <- keyCache, req <- keyReq

\* The watched claim is supported, or was since a request of that age began.
Recent(age) == lost = K!Never \/ lost <= age

Reads == {"key", "org", "member", "live", "granted", "touch", "put"}

\* What a request carries from one statement to the next.
Carries(l) ==
    /\ l.pc \in Reads => l.inst \in Instances /\ l.key \in Keys
    /\ l.pc = "revoke" => l.key \in Keys
    /\ l.pc = "insert" => l.row.st = "live"
    /\ l.pc \notin Reads => l.claims = {}
    /\ l.pc \in {"live", "granted"} => l.role \in K!OrgRoles
    /\ l.pc = "granted" /\ l.role \in DOMAIN BuiltIn => l.live = BuiltIn[l.role]

\* What it claims, or is about to claim from the membership that it has read.
Claimed(l) ==
    \/ watch \in l.claims
    \/ l.pc = "live" /\ \E c \in K!Reach(K!PermissionsOf(l.role)) : watch = <<"perm", c>>
    \/ l.pc = "granted" /\ \E c \in K!Reach(l.live) : watch = <<"perm", c>>

Fresh(l) == ~l.torn /\ Claimed(l) => Recent(l.age)

Cached(e) == e.left > 0 /\ ~e.torn /\ watch \in e.claims => lost = K!Never \/ lost + e.left <= K!Bound

KeyInv ==
    /\ K!TypeOK
    /\ \A q \in Requests : Carries(keyReq[q]) /\ Fresh(keyReq[q])
    /\ \A i \in Instances : \A k \in Keys : Cached(keyCache[i][k])
    /\ K!Supported(watch) => lost = K!Never
    /\ member # K!NoRole => org
    /\ \A k \in Keys : key[k].st = "none" => ~key[k].org
    /\ K!KeysGoWithOrganization
    /\ wrong = FALSE

-----------------------------------------------------------------------------
\* The bounds are numbers.
LEMMA KeyTimes ==
    ASSUME K!ApiKeysAssumption
    PROVE  CacheTTL \in Nat /\ MaxDelay \in Nat /\ K!Bound = CacheTTL + MaxDelay /\ K!Never = -1
BY DEF K!ApiKeysAssumption, K!Bound, K!Never

\* What KeyPermissions keeps of the statements of a key lets nothing through that
\* the statements of the owner do not.
LEMMA NarrowedToOwner ==
    ASSUME NEW role, NEW live, NEW granted, role \in DOMAIN BuiltIn => live = BuiltIn[role],
           NEW c \in K!Reach(K!KeyPermissions(role, live, granted))
    PROVE  c \in K!Reach(live)
<1>. DEFINE S == K!KeyPermissions(role, live, granted)
<1>1. c \in K!Concrete /\ K!Covers(S, c)
  BY DEF K!Reach
<1>2. \A stmt \in S : stmt \in live \/ K!Covers(live, stmt)
  BY DEF K!KeyPermissions, K!Intersect
<1>. HIDE DEF S
<1>3. \A stmt \in S : K!Covers(live, stmt)
  BY <1>2 DEF K!Covers
<1>. SUFFICES K!Covers(live, c)
  BY <1>1 DEF K!Reach
<1>4. CASE K!All \in S
  BY <1>3, <1>4 DEF K!Covers, K!All
<1>5. CASE c \in S
  BY <1>3, <1>5
<1>6. CASE ~c.all /\ c.resource # K!Wildcard /\ K!Stmt(c.resource, K!Wildcard) \in S
  <2>1. K!Covers(live, K!Stmt(c.resource, K!Wildcard))
    BY <1>3, <1>6
  <2>2. K!All \in live \/ K!Stmt(c.resource, K!Wildcard) \in live
    BY <2>1 DEF K!Covers, K!Stmt
  <2>. QED  BY <1>6, <2>2 DEF K!Covers
<1>7. CASE ~c.all /\ c.action # K!Wildcard /\ K!Stmt(K!Wildcard, c.action) \in S
  <2>1. K!Covers(live, K!Stmt(K!Wildcard, c.action))
    BY <1>3, <1>7
  <2>2. K!All \in live \/ K!Stmt(K!Wildcard, c.action) \in live
    BY <2>1 DEF K!Covers, K!Stmt
  <2>. QED  BY <1>7, <2>2 DEF K!Covers
<1>. QED  BY <1>1, <1>4, <1>5, <1>6, <1>7 DEF K!Covers

LEMMA IdleKeyRequest ==
    ASSUME K!ApiKeysAssumption
    PROVE  /\ K!NoKey \in K!KeyRow
           /\ K!Idle \in K!Local /\ K!Idle.pc = "idle" /\ K!Idle.claims = {}
<1>1. 0 \in K!Ranks /\ 0 \in 0 .. MaxDelay
  BY DEF K!ApiKeysAssumption, K!Ranks
<1>2. K!NoKey \in K!KeyRow
  BY <1>1 DEF K!NoKey, K!KeyRow
<1>. QED  BY <1>1, <1>2 DEF K!Idle, K!Local

\* The history of the watched claim: a step of the clock aside, a claim that was
\* recent stays so, and one that the rows support is not lost.
LEMMA WatchMoves ==
    ASSUME K!ApiKeysAssumption, KeyInv, K!History
    PROVE  /\ part' = part /\ watch' = watch /\ watch' \in K!Claims /\ lost' \in K!Never .. K!Bound + 1
           /\ K!Supported(watch)' => lost' = K!Never
           /\ \A n \in Nat : Recent(n) => Recent(n)'
           /\ \A e \in K!Entry : Cached(e) => Cached(e)'
<1>1. /\ part' = part /\ watch' = watch
      /\ K!Supported(watch)' => lost' = K!Never
      /\ \/ lost' \in {K!Never, lost}
         \/ lost = K!Never /\ lost' = 0
  BY DEF K!History
<1>2. watch \in K!Claims /\ lost \in K!Never .. K!Bound + 1
  BY DEF KeyInv, K!TypeOK
<1>3. lost' \in K!Never .. K!Bound + 1
  BY <1>1, <1>2, KeyTimes
<1>4. \A n \in Nat : Recent(n) => Recent(n)'
  BY <1>1, <1>2, KeyTimes DEF Recent
<1>5. ASSUME NEW e \in K!Entry, Cached(e) PROVE Cached(e)'
  <2>1. e.left \in Nat /\ e.left <= CacheTTL
    BY KeyTimes DEF K!Entry
  <2>. QED  BY <1>1, <1>2, <1>5, <2>1, KeyTimes DEF Cached
<1>. QED  BY <1>1, <1>2, <1>3, <1>4, <1>5

\* A request that does not move keeps what is known of it, if the custom role is
\* the same or gone.
LEMMA FreshStays ==
    ASSUME K!ApiKeysAssumption, KeyInv, K!History, custom' \in {custom, {}}, NEW l \in K!Local, Fresh(l)
    PROVE  Fresh(l)'
<1>1. l.age \in Nat
  BY KeyTimes DEF K!Local
<1>2. K!Reach({}) = {}
  BY DEF K!Reach, K!Covers
<1>3. \A c : c \in K!Reach(K!PermissionsOf(l.role))' => c \in K!Reach(K!PermissionsOf(l.role))
  <2>1. K!PermissionsOf(l.role)' \in {K!PermissionsOf(l.role), {}}
    BY DEF K!PermissionsOf
  <2>2. K!Reach(K!PermissionsOf(l.role))' = K!Reach(K!PermissionsOf(l.role)')
    BY DEF K!Reach, K!Covers
  <2>. QED  BY <1>2, <2>1, <2>2
<1>4. Claimed(l)' => Claimed(l)
  BY <1>3, WatchMoves DEF Claimed
<1>. QED  BY <1>1, <1>4, WatchMoves DEF Fresh

\* A request moves and the tables of keys and roles stay, or lose the custom role.
LEMMA RequestMoves ==
    ASSUME K!ApiKeysAssumption, KeyInv, K!History, custom' \in {custom, {}},
           NEW q \in Requests, NEW m \in K!Local, keyReq' = [keyReq EXCEPT ![q] = m], Carries(m), Fresh(m)'
    PROVE  /\ keyReq' \in [Requests -> K!Local]
           /\ \A p \in Requests : Carries(keyReq'[p]) /\ Fresh(keyReq[p])'
<1>1. keyReq \in [Requests -> K!Local] /\ \A p \in Requests : Carries(keyReq[p]) /\ Fresh(keyReq[p])
  BY DEF KeyInv, K!TypeOK
<1>2. \A p \in Requests : keyReq'[p] = IF p = q THEN m ELSE keyReq[p]
  BY <1>1
<1>3. keyReq' \in [Requests -> K!Local]
  BY <1>1
<1>4. ASSUME NEW p \in Requests PROVE Carries(keyReq'[p]) /\ Fresh(keyReq[p])'
  <2>1. CASE p = q
    <3>1. keyReq'[p] = m
      BY <1>2, <2>1
    <3>2. Claimed(keyReq[p])' <=> Claimed(m)'
      BY <3>1 DEF Claimed
    <3>. QED  BY <3>1, <3>2 DEF Fresh, Recent
  <2>2. CASE p # q
    <3>. DEFINE l == keyReq[p]
    <3>1. PICK n \in K!Local : n = keyReq[p]
      BY <1>1
    <3>2. keyReq'[p] = n /\ Fresh(n)' /\ Carries(n)
      BY <1>1, <1>2, <2>2, <3>1, FreshStays
    <3>3. Claimed(keyReq[p])' <=> Claimed(n)'
      BY <3>2 DEF Claimed
    <3>. QED  BY <3>2, <3>3 DEF Fresh, Recent
  <2>. QED  BY <2>1, <2>2
<1>. QED  BY <1>3, <1>4

\* Steps that leave the tables and the caches alone.
LEMMA MoveKeeps ==
    ASSUME K!ApiKeysAssumption, KeyInv, K!History, UNCHANGED <<K!tables, keyCache, late, wrong>>,
           NEW q \in Requests, NEW m \in K!Local, keyReq' = [keyReq EXCEPT ![q] = m], Carries(m), Fresh(m)'
    PROVE  KeyInv'
<1>1. /\ owner' = owner /\ key' = key /\ org' = org /\ member' = member /\ custom' = custom
      /\ keyCache' = keyCache /\ late' = late /\ wrong' = wrong
  BY DEF K!tables
<1>2. /\ keyReq' \in [Requests -> K!Local]
      /\ \A p \in Requests : Carries(keyReq'[p]) /\ Fresh(keyReq[p])'
  BY <1>1, RequestMoves
<1>3. K!TypeOK'
  BY <1>1, <1>2, WatchMoves DEF KeyInv, K!TypeOK
<1>4. \A i \in Instances : \A k \in Keys : Cached(keyCache[i][k])'
  <2>1. \A i \in Instances : \A k \in Keys : keyCache[i][k] \in K!Entry /\ Cached(keyCache[i][k])
    BY DEF KeyInv, K!TypeOK
  <2>2. ASSUME NEW i \in Instances, NEW k \in Keys PROVE Cached(keyCache[i][k])'
    <3>1. PICK e \in K!Entry : e = keyCache[i][k]
      BY <2>1
    <3>2. Cached(e)'
      BY <2>1, <3>1, WatchMoves
    <3>. QED  BY <1>1, <3>1, <3>2 DEF Cached
  <2>. QED  BY <2>2
<1>5. K!KeysGoWithOrganization'
  BY <1>1, <1>3 DEF KeyInv, K!KeysGoWithOrganization
<1>. QED  BY <1>1, <1>2, <1>3, <1>4, <1>5, WatchMoves DEF KeyInv, Carries

\* A request that ends without an answer.
LEMMA ReturnKeyKeeps ==
    ASSUME K!ApiKeysAssumption, KeyInv, K!History, UNCHANGED <<K!tables, keyCache, late, wrong>>,
           NEW q \in Requests, K!Return(q)
    PROVE  KeyInv'
<1>1. Carries(K!Idle) /\ Fresh(K!Idle)'
  BY IdleKeyRequest DEF Carries, Fresh, Claimed, Reads, K!Idle
<1>. QED  BY <1>1, IdleKeyRequest, MoveKeeps DEF K!Return

\* A request that begins, or that is about to write.
LEMMA CallKeeps ==
    ASSUME K!ApiKeysAssumption, KeyInv, K!History, UNCHANGED <<K!tables, keyCache, late, wrong>>,
           NEW q \in Requests, NEW m \in K!Local, keyReq' = [keyReq EXCEPT ![q] = m],
           Carries(m), m.claims = {}, m.pc \notin {"live", "granted"}
    PROVE  KeyInv'
<1>1. Fresh(m)'
  BY DEF Fresh, Claimed
<1>. QED  BY <1>1, MoveKeeps

LEMMA CreateKeyKeeps ==
    ASSUME K!ApiKeysAssumption, KeyInv, K!History, NEW q \in Requests,
           \/ \E rank \in K!Ranks : K!CreateKey(q, rank)
           \/ \E role \in K!OrgRoles \cup {K!NoRole} : K!CreateOrgKey(q, role)
    PROVE  KeyInv'
<1>1. PICK new : /\ new \in K!KeyRow /\ new.st = "live"
                 /\ keyReq' = [keyReq EXCEPT ![q] = [K!Idle EXCEPT !.pc = "insert", !.row = new]]
                 /\ UNCHANGED <<K!tables, keyCache, late, wrong>>
  <2>1. CASE \E rank \in K!Ranks : K!CreateKey(q, rank)
    <3>1. PICK rank \in K!Ranks : K!CreateKey(q, rank)
      BY <2>1
    <3>. DEFINE new == [K!NoKey EXCEPT !.st = "live", !.rank = rank]
    <3>2. new \in K!KeyRow /\ new.st = "live"
      BY DEF K!KeyRow, K!NoKey
    <3>. QED  BY <3>1, <3>2 DEF K!CreateKey
  <2>2. CASE \E role \in K!OrgRoles \cup {K!NoRole} : K!CreateOrgKey(q, role)
    <3>1. PICK role \in K!OrgRoles \cup {K!NoRole} : K!CreateOrgKey(q, role)
      BY <2>2
    <3>. DEFINE new == [K!NoKey EXCEPT !.st = "live", !.org = TRUE, !.rank = RankOf[role], !.role = role]
    <3>2. RankOf[role] \in K!Ranks \cup {-1}
      BY DEF K!ApiKeysAssumption
    <3>3. new \in K!KeyRow /\ new.st = "live"
      BY <3>2 DEF K!KeyRow, K!NoKey
    <3>. QED  BY <3>1, <3>3 DEF K!CreateOrgKey
  <2>. QED  BY <2>1, <2>2
<1>. DEFINE m == [K!Idle EXCEPT !.pc = "insert", !.row = new]
<1>2. m \in K!Local /\ m.pc = "insert" /\ m.row = new /\ m.claims = {}
  BY <1>1, IdleKeyRequest DEF K!Local
<1>3. Carries(m)
  BY <1>1, <1>2 DEF Carries, Reads
<1>. HIDE DEF m
<1>. QED  BY <1>1, <1>2, <1>3, CallKeeps DEF m

LEMMA RevokeKeeps ==
    ASSUME K!ApiKeysAssumption, KeyInv, K!History, NEW q \in Requests, NEW k \in Keys, K!Revoke(q, k)
    PROVE  KeyInv'
<1>. DEFINE m == [K!Idle EXCEPT !.pc = "revoke", !.key = k]
<1>1. m \in K!Local /\ m.pc = "revoke" /\ m.key = k /\ m.claims = {}
  BY IdleKeyRequest DEF K!Local
<1>2. Carries(m)
  BY <1>1 DEF Carries, Reads
<1>3. keyReq' = [keyReq EXCEPT ![q] = m] /\ UNCHANGED <<K!tables, keyCache, late, wrong>>
  BY DEF K!Revoke
<1>. HIDE DEF m
<1>. QED  BY <1>1, <1>2, <1>3, CallKeeps

LEMMA BeginKeeps ==
    ASSUME K!ApiKeysAssumption, KeyInv, K!History, NEW q \in Requests, NEW i \in Instances, NEW k \in Keys,
           K!Begin(q, i, k)
    PROVE  KeyInv'
<1>. DEFINE m == [K!Idle EXCEPT !.pc = "key", !.inst = i, !.key = k]
<1>1. m \in K!Local /\ m.pc = "key" /\ m.inst = i /\ m.key = k /\ m.claims = {}
  BY IdleKeyRequest DEF K!Local
<1>2. Carries(m)
  BY <1>1 DEF Carries, Reads
<1>3. keyReq' = [keyReq EXCEPT ![q] = m] /\ UNCHANGED <<K!tables, keyCache, late, wrong>>
  BY DEF K!Begin
<1>. HIDE DEF m
<1>. QED  BY <1>1, <1>2, <1>3, CallKeeps

\* What the rows support at this moment is recent for a request of any age.
LEMMA SupportedIsRecent ==
    ASSUME K!ApiKeysAssumption, KeyInv, K!History, UNCHANGED K!tables, K!Supported(watch)
    PROVE  lost' = K!Never
<1>1. watch' = watch /\ (K!Supported(watch)' => lost' = K!Never)
  BY WatchMoves
<1>2. K!Supported(watch)'
  BY <1>1 DEF K!Supported, K!Valid, K!tables, K!Reach, K!Covers, K!PermissionsOf
<1>. QED  BY <1>1, <1>2

LEMMA ReadKeyKeeps ==
    ASSUME K!ApiKeysAssumption, KeyInv, K!History, NEW q \in Requests, K!ReadKey(q) PROVE KeyInv'
<1>. DEFINE k == keyReq[q].key
<1>1. keyReq[q] \in K!Local /\ k \in Keys /\ keyReq[q].inst \in Instances /\ key[k] \in K!KeyRow
  BY DEF KeyInv, K!TypeOK, Carries, Reads, K!ReadKey
<1>2. CASE ~K!Valid(k)
  BY <1>2, ReturnKeyKeeps DEF K!ReadKey
<1>3. CASE K!Valid(k)
  <2>. DEFINE roles == 0 .. K!Smaller(key[k].rank, owner.rank)
              claims == {<<"key", k>>} \cup {<<"role", r>> : r \in roles}
              l == [keyReq[q] EXCEPT !.row = key[k], !.pc = IF key[k].org THEN "org" ELSE "touch", !.claims = claims]
  <2>1. owner.rank \in K!Ranks /\ key[k].rank \in K!Ranks \cup {-1} /\ TopRank \in Nat
    BY <1>1 DEF KeyInv, K!TypeOK, K!KeyRow, K!ApiKeysAssumption
  <2>2. \A r \in roles : r \in K!Ranks /\ r <= owner.rank
    BY <2>1 DEF K!Smaller, K!Ranks
  <2>3. claims \subseteq K!Claims
    BY <1>1, <2>2 DEF K!Claims
  <2>4. \A c \in claims : K!Supported(c)
    BY <1>3, <2>2 DEF K!Supported
  <2>. HIDE DEF claims
  <2>5. l \in K!Local /\ l.claims = claims /\ l.pc \in {"org", "touch"} /\ l.inst = keyReq[q].inst /\ l.key = k
    BY <1>1, <2>3 DEF K!Local
  <2>6. keyReq' = [keyReq EXCEPT ![q] = l] /\ UNCHANGED <<K!tables, keyCache, late, wrong>>
    BY <1>3 DEF K!ReadKey, claims
  <2>. HIDE DEF l, k
  <2>7. PICK m \in K!Local : m = l
    BY <2>5
  <2>8. Carries(m)
    BY <1>1, <2>5, <2>7 DEF Carries, Reads
  <2>9. Fresh(m)'
    <3>1. watch' = watch
      BY WatchMoves
    <3>2. watch \in claims => lost' = K!Never
      BY <2>4, <2>6, SupportedIsRecent
    <3>3. m.claims = claims /\ m.pc \in {"org", "touch"}
      BY <2>5, <2>7
    <3>. QED  BY <3>1, <3>2, <3>3 DEF Fresh, Claimed, Recent
  <2>. QED  BY <2>6, <2>8, <2>9, <2>7, MoveKeeps
<1>. QED  BY <1>2, <1>3

\* Requests that go on with what they have.
LEMMA GoOnKeeps ==
    ASSUME K!ApiKeysAssumption, KeyInv, K!History, UNCHANGED <<K!tables, keyCache, late, wrong>>,
           NEW q \in Requests, keyReq[q].pc \in Reads, NEW pc \in {"member", "put"},
           keyReq' = [keyReq EXCEPT ![q].pc = pc]
    PROVE  KeyInv'
<1>. DEFINE l == keyReq[q]
<1>1. l \in K!Local /\ Carries(l) /\ Fresh(l) /\ l.age \in Nat
  BY KeyTimes DEF KeyInv, K!TypeOK, K!Local
<1>2. PICK m \in K!Local : m = [l EXCEPT !.pc = pc]
  BY <1>1 DEF K!Local
<1>3. /\ keyReq' = [keyReq EXCEPT ![q] = m] /\ m.pc = pc /\ m.inst = l.inst /\ m.key = l.key
      /\ m.claims = l.claims /\ m.torn = l.torn /\ m.age = l.age
  BY <1>1, <1>2 DEF K!Local
<1>4. Carries(m)
  BY <1>1, <1>3 DEF Carries, Reads
<1>5. Fresh(m)'
  <2>1. m.age \in Nat /\ watch' = watch
    BY <1>1, <1>3, WatchMoves
  <2>2. Recent(m.age) => Recent(m.age)'
    <3>1. PICK n \in Nat : n = m.age
      BY <2>1
    <3>2. Recent(n) => Recent(n)'
      BY WatchMoves
    <3>. QED  BY <3>1, <3>2 DEF Recent
  <2>. QED  BY <1>1, <1>3, <2>1, <2>2 DEF Fresh, Claimed, Recent
<1>. QED  BY <1>3, <1>4, <1>5, MoveKeeps

LEMMA AgeStays ==
    ASSUME K!ApiKeysAssumption, KeyInv, K!History, NEW m \in K!Local
    PROVE  Recent(m.age) => Recent(m.age)'
<1>1. PICK n \in Nat : n = m.age
  BY KeyTimes DEF K!Local
<1>2. Recent(n) => Recent(n)'
  BY WatchMoves
<1>. QED  BY <1>1, <1>2 DEF Recent

LEMMA ReadOrganizationKeeps ==
    ASSUME K!ApiKeysAssumption, KeyInv, K!History, NEW q \in Requests, K!ReadOrganization(q) PROVE KeyInv'
<1>1. CASE org
  BY <1>1, GoOnKeeps DEF K!ReadOrganization, Reads
<1>2. CASE ~org
  BY <1>2, ReturnKeyKeeps DEF K!ReadOrganization
<1>. QED  BY <1>1, <1>2

LEMMA TouchKeyKeeps ==
    ASSUME K!ApiKeysAssumption, KeyInv, K!History, NEW q \in Requests, K!Touch(q) PROVE KeyInv'
BY GoOnKeeps DEF K!Touch, Reads

\* The membership is there, and whatever its role reaches is supported now.
LEMMA ReadMembershipKeeps ==
    ASSUME K!ApiKeysAssumption, KeyInv, K!History, NEW q \in Requests, K!ReadMembership(q) PROVE KeyInv'
<1>1. CASE member = K!NoRole
  BY <1>1, ReturnKeyKeeps DEF K!ReadMembership
<1>2. CASE member # K!NoRole
  <2>. DEFINE l == keyReq[q]
  <2>1. /\ l \in K!Local /\ Carries(l) /\ Fresh(l) /\ l.pc = "member" /\ l.inst \in Instances /\ l.key \in Keys
        /\ member \in K!OrgRoles /\ org
    BY <1>2 DEF KeyInv, K!TypeOK, K!ReadMembership, Carries, Reads
  <2>2. PICK role : role = member
    OBVIOUS
  <2>3. PICK m \in K!Local : m = [l EXCEPT !.pc = "live", !.role = role, !.claims = @ \cup {K!Membership}]
    BY <2>1, <2>2 DEF K!Local, K!Claims
  <2>4. /\ m.pc = "live" /\ m.inst = l.inst /\ m.key = l.key /\ m.claims = l.claims \cup {K!Membership}
        /\ m.role = role /\ m.torn = l.torn /\ m.age = l.age
    BY <2>1, <2>3 DEF K!Local
  <2>5. keyReq' = [keyReq EXCEPT ![q] = m] /\ UNCHANGED <<K!tables, keyCache, late, wrong>>
    BY <1>2, <2>2, <2>3 DEF K!ReadMembership
  <2>6. Carries(m)
    BY <2>1, <2>2, <2>4 DEF Carries, Reads
  <2>7. Fresh(m)'
    <3>1. watch' = watch /\ custom' = custom
      BY <2>5, WatchMoves DEF K!tables
    <3>2. CASE watch \in l.claims
      BY <2>1, <2>4, <3>1, <3>2, AgeStays DEF Fresh, Claimed, Recent
    <3>3. CASE watch = K!Membership
      <4>1. K!Supported(watch)
        BY <1>2, <2>1, <3>3 DEF K!Supported
      <4>. QED  BY <2>5, <4>1, SupportedIsRecent DEF Fresh, Recent
    <3>4. CASE \E c \in K!Reach(K!PermissionsOf(role)) : watch = <<"perm", c>>
      <4>1. K!Supported(watch)
        BY <1>2, <2>1, <2>2, <3>4 DEF K!Supported
      <4>. QED  BY <2>5, <4>1, SupportedIsRecent DEF Fresh, Recent
    <3>5. K!Reach(K!PermissionsOf(role))' = K!Reach(K!PermissionsOf(role))
      BY <3>1 DEF K!Reach, K!Covers, K!PermissionsOf
    <3>6. Claimed(m)' => watch \in m.claims \/ \E c \in K!Reach(K!PermissionsOf(role)) : watch = <<"perm", c>>
      BY <2>4, <3>1, <3>5 DEF Claimed
    <3>. QED  BY <2>4, <3>2, <3>3, <3>4, <3>6 DEF Fresh
  <2>. QED  BY <2>5, <2>6, <2>7, MoveKeeps
<1>. QED  BY <1>1, <1>2

LEMMA ReadLiveKeeps ==
    ASSUME K!ApiKeysAssumption, KeyInv, K!History, NEW q \in Requests, K!ReadLive(q) PROVE KeyInv'
<1>. DEFINE l == keyReq[q]
<1>1. /\ l \in K!Local /\ Carries(l) /\ Fresh(l) /\ l.pc = "live" /\ l.inst \in Instances /\ l.key \in Keys
      /\ l.role \in K!OrgRoles /\ custom \subseteq K!Statements
  BY DEF KeyInv, K!TypeOK, K!ReadLive, Carries, Reads
<1>2. PICK live : live = K!PermissionsOf(l.role)
  OBVIOUS
<1>3. live \subseteq K!Statements /\ (l.role \in DOMAIN BuiltIn => live = BuiltIn[l.role])
  BY <1>1, <1>2 DEF K!PermissionsOf, K!ApiKeysAssumption
<1>4. PICK m \in K!Local : m = [l EXCEPT !.pc = "granted", !.live = live]
  BY <1>1, <1>3 DEF K!Local
<1>5. /\ m.pc = "granted" /\ m.inst = l.inst /\ m.key = l.key /\ m.claims = l.claims
      /\ m.role = l.role /\ m.live = live /\ m.torn = l.torn /\ m.age = l.age
  BY <1>1, <1>4 DEF K!Local
<1>6. keyReq' = [keyReq EXCEPT ![q] = m] /\ UNCHANGED <<K!tables, keyCache, late, wrong>>
  BY <1>2, <1>4 DEF K!ReadLive
<1>7. Carries(m)
  BY <1>1, <1>3, <1>5 DEF Carries, Reads
<1>8. Fresh(m)'
  <2>1. watch' = watch
    BY WatchMoves
  <2>2. K!Reach(m.live)' = K!Reach(m.live)
    BY DEF K!Reach, K!Covers
  <2>3. Claimed(m)' => Claimed(l)
    BY <1>1, <1>2, <1>5, <2>1, <2>2 DEF Claimed
  <2>. QED  BY <1>1, <1>5, <2>3, AgeStays DEF Fresh, Recent
<1>. QED  BY <1>6, <1>7, <1>8, MoveKeeps

LEMMA ReadGrantedKeeps ==
    ASSUME K!ApiKeysAssumption, KeyInv, K!History, NEW q \in Requests, K!ReadGranted(q) PROVE KeyInv'
<1>. DEFINE l == keyReq[q]
<1>1. /\ l \in K!Local /\ Carries(l) /\ Fresh(l) /\ l.pc = "granted" /\ l.inst \in Instances /\ l.key \in Keys
      /\ l.role \in DOMAIN BuiltIn => l.live = BuiltIn[l.role]
  BY DEF KeyInv, K!TypeOK, K!ReadGranted, Carries, Reads
<1>2. PICK kept : kept = K!Reach(K!KeyPermissions(l.role, l.live, K!PermissionsOf(l.row.role)))
  OBVIOUS
<1>3. kept \subseteq K!Concrete /\ kept \subseteq K!Reach(l.live)
  <2>1. kept \subseteq K!Reach(l.live)
    BY <1>1, <1>2, NarrowedToOwner
  <2>. QED  BY <2>1 DEF K!Reach
<1>4. PICK new : new = l.claims \cup {<<"perm", c>> : c \in kept}
  OBVIOUS
<1>5. PICK m \in K!Local : m = [l EXCEPT !.pc = "touch", !.claims = new]
  <2>1. l.claims \subseteq K!Claims
    BY <1>1 DEF K!Local
  <2>2. new \subseteq K!Claims
    BY <1>3, <1>4, <2>1 DEF K!Claims
  <2>. QED  BY <1>1, <2>2 DEF K!Local
<1>6. /\ m.pc = "touch" /\ m.inst = l.inst /\ m.key = l.key /\ m.claims = new
      /\ m.torn = l.torn /\ m.age = l.age
  BY <1>1, <1>5 DEF K!Local
<1>7. keyReq' = [keyReq EXCEPT ![q] = m] /\ UNCHANGED <<K!tables, keyCache, late, wrong>>
  BY <1>2, <1>4, <1>5 DEF K!ReadGranted
<1>8. Carries(m)
  BY <1>1, <1>6 DEF Carries, Reads
<1>9. Fresh(m)'
  <2>1. watch' = watch
    BY WatchMoves
  <2>2. Claimed(m)' => Claimed(l)
    BY <1>1, <1>3, <1>4, <1>6, <2>1 DEF Claimed
  <2>. QED  BY <1>1, <1>6, <2>2, AgeStays DEF Fresh, Recent
<1>. QED  BY <1>7, <1>8, <1>9, MoveKeeps

\* The claims of an entry of the cache are those of a request that ends now.
LEMMA CachePutKeeps ==
    ASSUME K!ApiKeysAssumption, KeyInv, K!History, NEW q \in Requests, K!CachePut(q) PROVE KeyInv'
<1>. DEFINE l == keyReq[q]
<1>1. /\ l \in K!Local /\ Carries(l) /\ Fresh(l) /\ l.pc = "put" /\ l.inst \in Instances /\ l.key \in Keys
      /\ keyReq \in [Requests -> K!Local] /\ keyCache \in [Instances -> [Keys -> K!Entry]]
      /\ lost \in K!Never .. K!Bound + 1
  BY DEF KeyInv, K!TypeOK, K!CachePut, Carries, Reads
<1>2. /\ K!Return(q) /\ UNCHANGED <<K!tables, late>>
      /\ owner' = owner /\ key' = key /\ org' = org /\ member' = member /\ custom' = custom /\ late' = late
  BY DEF K!CachePut, K!tables
<1>3. ~l.torn /\ watch \in l.claims => lost = K!Never \/ lost <= MaxDelay
  <2>1. l.age \in Nat /\ l.age <= MaxDelay
    BY <1>1, KeyTimes DEF K!Local
  <2>. QED  BY <1>1, <2>1, KeyTimes DEF Fresh, Claimed, Recent
<1>4. wrong' = FALSE
  <2>1. ~(~l.torn /\ lost > K!Bound /\ watch \in l.claims)
    BY <1>1, <1>3, KeyTimes
  <2>2. wrong' = (wrong \/ (~l.torn /\ lost > K!Bound /\ watch \in l.claims))
    BY DEF K!CachePut, K!Accept
  <2>. QED  BY <2>1, <2>2 DEF KeyInv
<1>5. PICK e : e = IF CacheTTL = 0 THEN K!NoEntry ELSE [left |-> CacheTTL, claims |-> l.claims, torn |-> l.torn]
  OBVIOUS
<1>6. e \in K!Entry /\ Cached(e)
  <2>1. CASE CacheTTL = 0
    BY <1>5, <2>1, KeyTimes DEF K!NoEntry, K!Entry, Cached
  <2>2. CASE CacheTTL # 0
    <3>1. e.left = CacheTTL /\ e.claims = l.claims /\ e.torn = l.torn
      BY <1>5, <2>2
    <3>2. l.claims \subseteq K!Claims /\ l.torn \in BOOLEAN
      BY <1>1 DEF K!Local
    <3>3. e \in K!Entry
      BY <1>5, <2>2, <3>2, KeyTimes DEF K!Entry
    <3>. QED  BY <1>1, <1>3, <3>1, <3>3, KeyTimes DEF Cached
  <2>. QED  BY <2>1, <2>2
<1>7. /\ keyCache' \in [Instances -> [Keys -> K!Entry]]
      /\ \A i \in Instances : \A k \in Keys : keyCache'[i][k] = e \/ keyCache'[i][k] = keyCache[i][k]
  <2>1. keyCache' = [keyCache EXCEPT ![l.inst][l.key] = e]
    BY <1>5 DEF K!CachePut
  <2>. QED  BY <1>1, <1>6, <2>1
<1>8. ASSUME NEW i \in Instances, NEW k \in Keys PROVE Cached(keyCache[i][k])'
  <2>1. PICK d \in K!Entry : d = keyCache'[i][k]
    BY <1>7
  <2>2. Cached(d)
    BY <1>6, <1>7, <2>1 DEF KeyInv
  <2>3. Cached(d)'
    BY <2>2, WatchMoves
  <2>. QED  BY <2>1, <2>3 DEF Cached
<1>9. /\ keyReq' \in [Requests -> K!Local]
      /\ \A p \in Requests : Carries(keyReq'[p]) /\ Fresh(keyReq[p])'
  <2>1. Carries(K!Idle) /\ Fresh(K!Idle)'
    BY IdleKeyRequest DEF Carries, Fresh, Claimed, Reads, K!Idle
  <2>. QED  BY <1>2, <2>1, IdleKeyRequest, RequestMoves DEF K!Return
<1>10. K!TypeOK'
  BY <1>2, <1>4, <1>7, <1>9, WatchMoves DEF KeyInv, K!TypeOK
<1>11. K!KeysGoWithOrganization'
  BY <1>2, <1>10 DEF KeyInv, K!KeysGoWithOrganization
<1>. QED  BY <1>2, <1>4, <1>8, <1>9, <1>10, <1>11, WatchMoves DEF KeyInv, Carries

LEMMA CacheStays ==
    ASSUME K!ApiKeysAssumption, KeyInv, K!History, keyCache' = keyCache
    PROVE  /\ keyCache' \in [Instances -> [Keys -> K!Entry]]
           /\ \A i \in Instances : \A k \in Keys : Cached(keyCache[i][k])'
<1>1. keyCache \in [Instances -> [Keys -> K!Entry]] /\ \A i \in Instances : \A k \in Keys : Cached(keyCache[i][k])
  BY DEF KeyInv, K!TypeOK
<1>2. ASSUME NEW i \in Instances, NEW k \in Keys PROVE Cached(keyCache[i][k])'
  <2>1. PICK e \in K!Entry : e = keyCache[i][k]
    BY <1>1
  <2>2. Cached(e)'
    BY <1>1, <2>1, WatchMoves
  <2>. QED  BY <2>1, <2>2 DEF Cached
<1>. QED  BY <1>1, <1>2

LEMMA RequestsStay ==
    ASSUME K!ApiKeysAssumption, KeyInv, K!History, custom' \in {custom, {}}, keyReq' = keyReq
    PROVE  /\ keyReq' \in [Requests -> K!Local]
           /\ \A p \in Requests : Carries(keyReq'[p]) /\ Fresh(keyReq[p])'
<1>1. keyReq \in [Requests -> K!Local] /\ \A p \in Requests : Carries(keyReq[p]) /\ Fresh(keyReq[p])
  BY DEF KeyInv, K!TypeOK
<1>2. ASSUME NEW p \in Requests PROVE Fresh(keyReq[p])'
  <2>1. PICK n \in K!Local : n = keyReq[p]
    BY <1>1
  <2>2. Fresh(n)'
    BY <1>1, <2>1, FreshStays
  <2>3. Claimed(keyReq[p])' <=> Claimed(n)'
    BY <2>1 DEF Claimed
  <2>. QED  BY <2>1, <2>2, <2>3 DEF Fresh, Recent
<1>. QED  BY <1>1, <1>2

\* resolvePrincipal: what an entry claims was supported within the bound.
LEMMA CacheHitKeeps ==
    ASSUME K!ApiKeysAssumption, KeyInv, K!History, NEW q \in Requests, NEW i \in Instances, NEW k \in Keys,
           K!CacheHit(q, i, k)
    PROVE  KeyInv'
<1>1. UNCHANGED <<K!tables, keyCache, keyReq, late>>
  BY DEF K!CacheHit
<1>2. wrong' = FALSE
  <2>1. keyCache[i][k] \in K!Entry /\ Cached(keyCache[i][k]) /\ lost \in K!Never .. K!Bound + 1 /\ wrong = FALSE
    BY DEF KeyInv, K!TypeOK
  <2>2. keyCache[i][k].left \in Nat
    BY <2>1, KeyTimes DEF K!Entry
  <2>. DEFINE e == keyCache[i][k]
  <2>3. ~(~e.torn /\ lost > K!Bound /\ watch \in e.claims)
    BY <2>1, <2>2, KeyTimes DEF K!CacheHit, Cached
  <2>4. wrong' = (wrong \/ (~e.torn /\ lost > K!Bound /\ watch \in e.claims))
    BY DEF K!CacheHit, K!Accept
  <2>. QED  BY <2>1, <2>3, <2>4
<1>3. /\ owner' = owner /\ key' = key /\ org' = org /\ member' = member /\ custom' = custom /\ late' = late
      /\ keyCache' = keyCache /\ keyReq' = keyReq
  BY <1>1 DEF K!tables
<1>4. K!TypeOK'
  BY <1>2, <1>3, WatchMoves DEF KeyInv, K!TypeOK
<1>5. K!KeysGoWithOrganization'
  BY <1>3, <1>4 DEF KeyInv, K!KeysGoWithOrganization
<1>. QED  BY <1>2, <1>3, <1>4, <1>5, WatchMoves, CacheStays, RequestsStay DEF KeyInv, Carries

LEMMA RequestReturns ==
    ASSUME K!ApiKeysAssumption, KeyInv, K!History, custom' \in {custom, {}}, NEW q \in Requests, K!Return(q)
    PROVE  /\ keyReq' \in [Requests -> K!Local]
           /\ \A p \in Requests : Carries(keyReq'[p]) /\ Fresh(keyReq[p])'
<1>1. Carries(K!Idle) /\ Fresh(K!Idle)'
  BY IdleKeyRequest DEF Carries, Fresh, Claimed, Reads, K!Idle
<1>. QED  BY <1>1, IdleKeyRequest, RequestMoves DEF K!Return

\* Steps on the tables.
LEMMA KeyTablesKeep ==
    ASSUME K!ApiKeysAssumption, KeyInv, K!History, keyCache' = keyCache, wrong' = wrong,
           owner' \in [st : {"enabled", "disabled", "gone"}, rank : K!Ranks],
           key' \in [Keys -> K!KeyRow], org' \in BOOLEAN, member' \in K!OrgRoles \cup {K!NoRole},
           custom' \subseteq K!Statements, late' \subseteq Keys,
           member' # K!NoRole => org',
           \A k \in Keys : key'[k].st = "none" => ~key'[k].org,
           \A k \in Keys : key'[k].org /\ key'[k].st # "gone" /\ ~org' => k \in late',
           keyReq' \in [Requests -> K!Local],
           \A p \in Requests : Carries(keyReq'[p]) /\ Fresh(keyReq[p])'
    PROVE  KeyInv'
<1>1. K!TypeOK'
  BY WatchMoves, CacheStays DEF KeyInv, K!TypeOK
<1>2. K!KeysGoWithOrganization'
  BY <1>1 DEF K!KeysGoWithOrganization
<1>3. \A p \in Requests : Carries(keyReq[p])'
  BY DEF Carries
<1>. QED  BY <1>1, <1>2, <1>3, WatchMoves, CacheStays DEF KeyInv

LEMMA KeyFacts ==
    ASSUME KeyInv
    PROVE  /\ owner \in [st : {"enabled", "disabled", "gone"}, rank : K!Ranks]
           /\ key \in [Keys -> K!KeyRow] /\ org \in BOOLEAN /\ member \in K!OrgRoles \cup {K!NoRole}
           /\ custom \subseteq K!Statements /\ late \subseteq Keys
           /\ keyReq \in [Requests -> K!Local] /\ \A p \in Requests : Carries(keyReq[p])
           /\ member # K!NoRole => org
           /\ \A k \in Keys : key[k].st = "none" => ~key[k].org
           /\ \A k \in Keys : key[k].org /\ key[k].st # "gone" /\ ~org => k \in late
BY DEF KeyInv, K!TypeOK, K!KeysGoWithOrganization

LEMMA InsertKeyKeeps ==
    ASSUME K!ApiKeysAssumption, KeyInv, K!History, NEW q \in Requests, K!InsertKey(q) PROVE KeyInv'
<1>. DEFINE new == keyReq[q].row
<1>1. /\ K!Return(q)
      /\ owner' = owner /\ org' = org /\ member' = member /\ custom' = custom /\ keyCache' = keyCache /\ wrong' = wrong
  BY DEF K!InsertKey
<1>2. new \in K!KeyRow /\ new.st = "live"
  BY KeyFacts DEF K!InsertKey, Carries, K!Local
<1>3. /\ key' \in [Keys -> K!KeyRow] /\ late' \subseteq Keys
      /\ \A k \in Keys : key'[k].st = "none" => ~key'[k].org
      /\ \A k \in Keys : key'[k].org /\ key'[k].st # "gone" /\ ~org => k \in late'
  <2>1. CASE UNCHANGED <<key, late>>
    BY <2>1, KeyFacts
  <2>2. CASE \E k \in Keys : /\ key' = [key EXCEPT ![k] = new]
                             /\ late' = IF new.org /\ ~org THEN late \cup {k} ELSE late
    <3>1. PICK k \in Keys : /\ key' = [key EXCEPT ![k] = new]
                            /\ late' = IF new.org /\ ~org THEN late \cup {k} ELSE late
      BY <2>2
    <3>2. /\ key' \in [Keys -> K!KeyRow] /\ key'[k] = new /\ \A j \in Keys : j # k => key'[j] = key[j]
          /\ late' \subseteq Keys /\ late \subseteq late' /\ (new.org /\ ~org => k \in late')
      BY <1>2, <3>1, KeyFacts
    <3>. QED  BY <1>2, <3>2, KeyFacts
  <2>. QED  BY <2>1, <2>2 DEF K!InsertKey
<1>. QED  BY <1>1, <1>3, KeyFacts, RequestReturns, KeyTablesKeep

\* A row that ends keeps what it is a key of.
LEMMA KeyEnds ==
    ASSUME KeyInv, NEW k \in Keys, NEW st \in {"expired", "revoked"}, key[k].st \in {"live", "expired"},
           key' = [key EXCEPT ![k].st = st]
    PROVE  /\ key' \in [Keys -> K!KeyRow]
           /\ \A j \in Keys : key'[j].st = "none" => ~key'[j].org
           /\ \A j \in Keys : key'[j].org /\ key'[j].st # "gone" /\ ~org => j \in late
<1>1. key[k] \in K!KeyRow /\ key \in [Keys -> K!KeyRow]
  BY KeyFacts
<1>2. PICK new : new = [key[k] EXCEPT !.st = st]
  OBVIOUS
<1>3. new \in K!KeyRow /\ new.st = st /\ new.org = key[k].org
  BY <1>1, <1>2 DEF K!KeyRow
<1>4. key' = [key EXCEPT ![k] = new]
  BY <1>2
<1>5. key' \in [Keys -> K!KeyRow] /\ key'[k] = new /\ \A j \in Keys : j # k => key'[j] = key[j]
  BY <1>1, <1>3, <1>4
<1>. QED  BY <1>3, <1>5, KeyFacts

LEMMA RevokeKeyKeeps ==
    ASSUME K!ApiKeysAssumption, KeyInv, K!History, NEW q \in Requests, K!RevokeKey(q) PROVE KeyInv'
<1>. DEFINE k == keyReq[q].key
<1>1. /\ K!Return(q) /\ late' = late
      /\ owner' = owner /\ org' = org /\ member' = member /\ custom' = custom /\ keyCache' = keyCache /\ wrong' = wrong
  BY DEF K!RevokeKey
<1>2. k \in Keys
  BY KeyFacts DEF K!RevokeKey, Carries
<1>3. CASE key[k].st \in {"live", "expired"} /\ key' = [key EXCEPT ![k].st = "revoked"]
  <2>1. PICK j \in Keys : j = k
    BY <1>2
  <2>2. /\ key' \in [Keys -> K!KeyRow]
        /\ \A i \in Keys : key'[i].st = "none" => ~key'[i].org
        /\ \A i \in Keys : key'[i].org /\ key'[i].st # "gone" /\ ~org => i \in late
    BY <1>3, <2>1, KeyEnds
  <2>. QED  BY <1>1, <2>2, KeyFacts, RequestReturns, KeyTablesKeep
<1>4. CASE key' = key
  BY <1>1, <1>4, KeyFacts, RequestReturns, KeyTablesKeep
<1>. QED  BY <1>3, <1>4 DEF K!RevokeKey

LEMMA ExpireKeyKeeps ==
    ASSUME K!ApiKeysAssumption, KeyInv, K!History, NEW k \in Keys, K!Expire(k) PROVE KeyInv'
<1>1. /\ keyReq' = keyReq /\ late' = late
      /\ owner' = owner /\ org' = org /\ member' = member /\ custom' = custom /\ keyCache' = keyCache /\ wrong' = wrong
      /\ key[k].st = "live" /\ key' = [key EXCEPT ![k].st = "expired"]
  BY DEF K!Expire
<1>. QED  BY <1>1, KeyEnds, KeyFacts, RequestsStay, KeyTablesKeep

LEMMA SetUserKeeps ==
    ASSUME K!ApiKeysAssumption, KeyInv, K!History, NEW st \in {"enabled", "disabled"}, NEW r \in K!Ranks, K!SetUser(st, r)
    PROVE  KeyInv'
<1>1. /\ owner' = [st |-> st, rank |-> r] /\ key' = key /\ org' = org /\ member' = member /\ custom' = custom
      /\ keyReq' = keyReq /\ late' = late /\ keyCache' = keyCache /\ wrong' = wrong
  BY DEF K!SetUser
<1>. QED  BY <1>1, KeyFacts, RequestsStay, KeyTablesKeep

\* Deletions: the rows that are there go.
LEMMA KeysGo ==
    ASSUME KeyInv, NEW G \in SUBSET Keys,
           key' = [k \in Keys |-> IF k \in G THEN [key[k] EXCEPT !.st = "gone"] ELSE key[k]]
    PROVE  /\ key' \in [Keys -> K!KeyRow]
           /\ \A k \in Keys : IF k \in G THEN key'[k].st = "gone" ELSE key'[k] = key[k]
<1>1. \A k \in Keys : key[k] \in K!KeyRow /\ [key[k] EXCEPT !.st = "gone"] \in K!KeyRow
                      /\ [key[k] EXCEPT !.st = "gone"].st = "gone"
  BY KeyFacts DEF K!KeyRow
<1>2. \A k \in Keys : key'[k] = IF k \in G THEN [key[k] EXCEPT !.st = "gone"] ELSE key[k]
  OBVIOUS
<1>. QED  BY <1>1, <1>2

LEMMA DeleteUserKeeps ==
    ASSUME K!ApiKeysAssumption, KeyInv, K!History, K!DeleteUser PROVE KeyInv'
<1>. DEFINE G == {k \in Keys : key[k].st # "none"}
<1>1. /\ member' = K!NoRole /\ org' = org /\ custom' = custom /\ keyReq' = keyReq /\ late' = late
      /\ keyCache' = keyCache /\ wrong' = wrong /\ owner' = [owner EXCEPT !.st = "gone"]
      /\ key' = [k \in Keys |-> IF k \in G THEN [key[k] EXCEPT !.st = "gone"] ELSE key[k]]
  BY DEF K!DeleteUser
<1>. HIDE DEF G
<1>2. /\ key' \in [Keys -> K!KeyRow]
      /\ \A k \in Keys : IF k \in G THEN key'[k].st = "gone" ELSE key'[k] = key[k]
  <2>1. PICK H \in SUBSET Keys : H = G
    BY DEF G
  <2>. QED  BY <1>1, <2>1, KeysGo
<1>3. owner' \in [st : {"enabled", "disabled", "gone"}, rank : K!Ranks]
  BY <1>1, KeyFacts
<1>. QED  BY <1>1, <1>2, <1>3, KeyFacts, RequestsStay, KeyTablesKeep DEF G

LEMMA SetMembershipKeeps ==
    ASSUME K!ApiKeysAssumption, KeyInv, K!History, NEW role \in K!OrgRoles \cup {K!NoRole}, K!SetMembership(role)
    PROVE  KeyInv'
<1>1. /\ org /\ member' = role /\ owner' = owner /\ key' = key /\ org' = org /\ custom' = custom
      /\ keyReq' = keyReq /\ late' = late /\ keyCache' = keyCache /\ wrong' = wrong
  BY DEF K!SetMembership
<1>. QED  BY <1>1, KeyFacts, RequestsStay, KeyTablesKeep

\* registerOrganizationCleanup.
LEMMA DeleteOrganizationKeysKeep ==
    ASSUME K!ApiKeysAssumption, KeyInv, K!History, K!DeleteOrganization PROVE KeyInv'
<1>. DEFINE G == {k \in Keys : key[k].org /\ key[k].st # "none"}
<1>1. /\ member' = K!NoRole /\ org' = FALSE /\ custom' = {} /\ keyReq' = keyReq /\ late' = late
      /\ keyCache' = keyCache /\ wrong' = wrong /\ owner' = owner
      /\ key' = [k \in Keys |-> IF k \in G THEN [key[k] EXCEPT !.st = "gone"] ELSE key[k]]
  BY DEF K!DeleteOrganization
<1>. HIDE DEF G
<1>2. /\ key' \in [Keys -> K!KeyRow]
      /\ \A k \in Keys : IF k \in G THEN key'[k].st = "gone" ELSE key'[k] = key[k]
  <2>1. PICK H \in SUBSET Keys : H = G
    BY DEF G
  <2>. QED  BY <1>1, <2>1, KeysGo
<1>. QED  BY <1>1, <1>2, KeyFacts, RequestsStay, KeyTablesKeep DEF G

\* A request between the reads of KeyCredential is torn; the others have not read
\* the custom role, or have what they need of it.
LEMMA SetCustomRoleKeeps ==
    ASSUME K!ApiKeysAssumption, KeyInv, K!History, NEW statements \in Declarable \cup {{}}, K!SetCustomRole(statements)
    PROVE  KeyInv'
<1>1. /\ custom' = statements /\ owner' = owner /\ key' = key /\ org' = org /\ member' = member /\ late' = late
      /\ keyCache' = keyCache /\ wrong' = wrong
      /\ keyReq' = [q \in Requests |-> IF keyReq[q].pc \in {"live", "granted"}
                                         THEN [keyReq[q] EXCEPT !.torn = TRUE] ELSE keyReq[q]]
  BY DEF K!SetCustomRole
<1>2. custom' \subseteq K!Statements
  BY <1>1 DEF K!ApiKeysAssumption
<1>3. ASSUME NEW p \in Requests
      PROVE  keyReq'[p] \in K!Local /\ Carries(keyReq'[p]) /\ Fresh(keyReq[p])'
  <2>1. PICK l \in K!Local : l = keyReq[p] /\ Carries(l) /\ Fresh(l)
    BY KeyFacts DEF KeyInv
  <2>2. CASE l.pc \in {"live", "granted"}
    <3>1. keyReq'[p] = [l EXCEPT !.torn = TRUE]
      BY <1>1, <2>1, <2>2
    <3>2. /\ keyReq'[p] \in K!Local /\ keyReq'[p].torn = TRUE /\ keyReq'[p].pc = l.pc /\ keyReq'[p].inst = l.inst
          /\ keyReq'[p].key = l.key /\ keyReq'[p].claims = l.claims /\ keyReq'[p].role = l.role
          /\ keyReq'[p].live = l.live /\ keyReq'[p].row = l.row
      BY <2>1, <3>1 DEF K!Local
    <3>. QED  BY <2>1, <3>2 DEF Carries, Fresh
  <2>3. CASE l.pc \notin {"live", "granted"}
    <3>1. keyReq'[p] = l /\ watch' = watch
      BY <1>1, <2>1, <2>3, WatchMoves
    <3>2. Claimed(keyReq[p])' => Claimed(l)
      BY <2>3, <3>1 DEF Claimed
    <3>. QED  BY <2>1, <3>1, <3>2, AgeStays DEF Fresh, Recent
  <2>. QED  BY <2>2, <2>3
<1>4. keyReq' \in [Requests -> K!Local]
  BY <1>1, <1>3
<1>. QED  BY <1>1, <1>2, <1>3, <1>4, KeyFacts, KeyTablesKeep

\* The clock: what was lost, the requests and the entries grow older together.
LEMMA TickKeeps ==
    ASSUME K!ApiKeysAssumption, KeyInv, K!Tick PROVE KeyInv'
<1>. DEFINE Older(l) == [l EXCEPT !.age = @ + 1]
<1>1. /\ owner' = owner /\ key' = key /\ org' = org /\ member' = member /\ custom' = custom /\ late' = late
      /\ part' = part /\ watch' = watch /\ wrong' = wrong
      /\ lost' = IF lost \in {K!Never, K!Bound + 1} THEN lost ELSE lost + 1
      /\ keyReq' = [q \in Requests |-> IF q \in K!Reading THEN Older(keyReq[q]) ELSE keyReq[q]]
      /\ keyCache' = [i \in Instances |-> [k \in Keys |->
                        IF keyCache[i][k].left <= 1 THEN K!NoEntry ELSE [keyCache[i][k] EXCEPT !.left = @ - 1]]]
      /\ \A q \in Requests : keyReq[q].inst # "none" => keyReq[q].age < MaxDelay
  BY DEF K!Tick, K!tables, K!Reading
<1>2. lost \in K!Never .. K!Bound + 1 /\ lost' \in K!Never .. K!Bound + 1 /\ (lost = K!Never <=> lost' = K!Never)
  <2>1. lost \in K!Never .. K!Bound + 1 /\ K!Bound \in Nat /\ K!Never = -1
    BY KeyTimes DEF KeyInv, K!TypeOK
  <2>2. CASE lost \in {K!Never, K!Bound + 1}
    BY <1>1, <2>1, <2>2
  <2>3. CASE lost \notin {K!Never, K!Bound + 1}
    <3>1. lost' = lost + 1
      BY <1>1, <2>3
    <3>2. lost \in 0 .. K!Bound
      BY <2>1, <2>3
    <3>. QED  BY <2>1, <3>1, <3>2
  <2>. QED  BY <2>2, <2>3
<1>3. ASSUME NEW p \in Requests
      PROVE  keyReq'[p] \in K!Local /\ Carries(keyReq'[p]) /\ Fresh(keyReq[p])'
  <2>1. PICK l \in K!Local : l = keyReq[p] /\ Carries(l) /\ Fresh(l)
    BY KeyFacts DEF KeyInv
  <2>2. l.age \in Nat /\ l.age <= MaxDelay /\ MaxDelay <= K!Bound
    BY KeyTimes DEF K!Local
  <2>3. CASE l.inst # "none"
    <3>1. keyReq'[p] = Older(l) /\ l.age < MaxDelay
      BY <1>1, <2>1, <2>3 DEF K!Reading
    <3>2. l.age + 1 \in 0 .. MaxDelay
      BY <2>2, <3>1, KeyTimes
    <3>3. PICK m \in K!Local : m = Older(l)
      BY <2>1, <3>2 DEF K!Local
    <3>4. /\ m.age = l.age + 1 /\ m.torn = l.torn /\ m.pc = l.pc /\ m.inst = l.inst /\ m.key = l.key
          /\ m.claims = l.claims /\ m.role = l.role /\ m.live = l.live /\ m.row = l.row
      BY <2>1, <3>3 DEF K!Local
    <3>5. Recent(l.age) => Recent(m.age)'
      BY <1>1, <1>2, <2>2, <3>4, KeyTimes DEF Recent
    <3>6. Claimed(m)' => Claimed(l)
      <4>1. K!Reach(K!PermissionsOf(l.role))' = K!Reach(K!PermissionsOf(l.role)) /\ K!Reach(l.live)' = K!Reach(l.live)
        BY <1>1 DEF K!Reach, K!Covers, K!PermissionsOf
      <4>2. K!Reach(K!PermissionsOf(m.role))' = K!Reach(K!PermissionsOf(l.role))' /\ K!Reach(m.live)' = K!Reach(l.live)'
        BY <3>4
      <4>. QED  BY <1>1, <3>4, <4>1, <4>2 DEF Claimed
    <3>7. Carries(m)
      BY <2>1, <3>4 DEF Carries
    <3>8. Fresh(m)'
      BY <2>1, <3>4, <3>5, <3>6 DEF Fresh
    <3>. QED  BY <3>1, <3>3, <3>7, <3>8 DEF Fresh, Claimed, Recent
  <2>4. CASE l.inst = "none"
    <3>1. keyReq'[p] = l
      BY <1>1, <2>1, <2>4 DEF K!Reading
    <3>2. l.pc \notin Reads
      BY <2>1, <2>4 DEF Carries, K!ApiKeysAssumption
    <3>3. ~Claimed(keyReq[p])'
      BY <2>1, <3>1, <3>2 DEF Claimed, Carries, Reads
    <3>. QED  BY <2>1, <3>1, <3>3 DEF Fresh
  <2>. QED  BY <2>3, <2>4
<1>4. ASSUME NEW i \in Instances, NEW k \in Keys
      PROVE  keyCache'[i][k] \in K!Entry /\ Cached(keyCache[i][k])'
  <2>1. PICK e \in K!Entry : e = keyCache[i][k] /\ Cached(e)
    BY DEF KeyInv, K!TypeOK
  <2>2. e.left \in Nat /\ e.left <= CacheTTL
    BY KeyTimes DEF K!Entry
  <2>3. CASE e.left <= 1
    <3>1. keyCache'[i][k] = K!NoEntry
      BY <1>1, <2>1, <2>3
    <3>. QED  BY <3>1, KeyTimes DEF Cached, K!NoEntry, K!Entry
  <2>4. CASE ~(e.left <= 1)
    <3>1. keyCache'[i][k] = [e EXCEPT !.left = @ - 1]
      BY <1>1, <2>1, <2>4
    <3>2. e.left - 1 \in 0 .. CacheTTL
      BY <2>2, <2>4, KeyTimes
    <3>3. /\ keyCache'[i][k] \in K!Entry /\ keyCache'[i][k].left = e.left - 1
          /\ keyCache'[i][k].torn = e.torn /\ keyCache'[i][k].claims = e.claims
      BY <2>1, <3>1, <3>2 DEF K!Entry
    <3>. QED  BY <1>1, <1>2, <2>1, <2>2, <2>4, <3>3, KeyTimes DEF Cached
  <2>. QED  BY <2>3, <2>4
<1>5. /\ keyReq' \in [Requests -> K!Local]
      /\ keyCache' \in [Instances -> [Keys -> K!Entry]]
  BY <1>1, <1>3, <1>4
<1>6. K!TypeOK'
  BY <1>1, <1>2, <1>5 DEF KeyInv, K!TypeOK
<1>7. K!KeysGoWithOrganization'
  BY <1>1, <1>6 DEF KeyInv, K!KeysGoWithOrganization
<1>8. K!Supported(watch)' => lost' = K!Never
  <2>1. K!Supported(watch)' => K!Supported(watch)
    BY <1>1 DEF K!Supported, K!Valid, K!Reach, K!Covers, K!PermissionsOf
  <2>. QED  BY <1>2, <2>1 DEF KeyInv
<1>. QED  BY <1>1, <1>3, <1>4, <1>6, <1>7, <1>8 DEF KeyInv, Carries

-----------------------------------------------------------------------------
LEMMA KeyInit == ASSUME K!ApiKeysAssumption, K!Init PROVE KeyInv
<1>1. /\ K!NoKey \in K!KeyRow /\ K!Idle \in K!Local /\ K!NoEntry \in K!Entry /\ TopRank \in K!Ranks
      /\ K!NoKey.st = "none" /\ K!NoKey.org = FALSE /\ K!NoEntry.left = 0
  BY IdleKeyRequest, KeyTimes DEF K!NoKey, K!NoEntry, K!Entry, K!Ranks, K!ApiKeysAssumption
<1>2. /\ owner \in [st : {"enabled", "disabled", "gone"}, rank : K!Ranks]
      /\ key \in [Keys -> K!KeyRow] /\ org \in BOOLEAN /\ member \in K!OrgRoles \cup {K!NoRole}
  BY <1>1 DEF K!Init
<1>3. custom \subseteq K!Statements /\ keyCache \in [Instances -> [Keys -> K!Entry]]
  BY <1>1 DEF K!Init, K!ApiKeysAssumption
<1>4. keyReq \in [Requests -> K!Local] /\ watch \in K!Claims /\ lost \in K!Never .. K!Bound + 1
  BY <1>1, KeyTimes DEF K!Init
<1>5. late \subseteq Keys /\ wrong \in BOOLEAN
  BY DEF K!Init
<1>6. K!TypeOK
  BY <1>2, <1>3, <1>4, <1>5 DEF K!TypeOK
<1>7. \A q \in Requests : Carries(keyReq[q]) /\ Fresh(keyReq[q])
  BY IdleKeyRequest DEF K!Init, Carries, Fresh, Claimed, Reads
<1>8. \A i \in Instances : \A k \in Keys : Cached(keyCache[i][k])
  BY <1>1 DEF K!Init, Cached
<1>9. K!KeysGoWithOrganization
  BY <1>6 DEF K!Init, K!KeysGoWithOrganization
<1>. QED  BY <1>1, <1>6, <1>7, <1>8, <1>9 DEF K!Init, KeyInv

LEMMA KeyStep == ASSUME K!ApiKeysAssumption, KeyInv, [K!Next]_(K!vars) PROVE KeyInv'
<1>1. CASE K!Others /\ K!History
  <2>1. CASE \E st \in {"enabled", "disabled"}, r \in K!Ranks : K!SetUser(st, r)
    BY <1>1, <2>1, SetUserKeeps
  <2>2. CASE \E k \in Keys : K!Expire(k)
    BY <1>1, <2>2, ExpireKeyKeeps
  <2>3. CASE \E role \in K!OrgRoles \cup {K!NoRole} : K!SetMembership(role)
    BY <1>1, <2>3, SetMembershipKeeps
  <2>4. CASE \E s \in Declarable \cup {{}} : K!SetCustomRole(s)
    BY <1>1, <2>4, SetCustomRoleKeeps
  <2>5. CASE K!DeleteOrganization
    BY <1>1, <2>5, DeleteOrganizationKeysKeep
  <2>6. CASE K!DeleteUser
    BY <1>1, <2>6, DeleteUserKeeps
  <2>. QED  BY <1>1, <2>1, <2>2, <2>3, <2>4, <2>5, <2>6 DEF K!Others
<1>2. ASSUME NEW q \in Requests, K!Call(q), K!History PROVE KeyInv'
  <2>1. CASE \E r \in K!Ranks : K!CreateKey(q, r)
    BY <1>2, <2>1, CreateKeyKeeps
  <2>2. CASE \E role \in K!OrgRoles \cup {K!NoRole} : K!CreateOrgKey(q, role)
    BY <1>2, <2>2, CreateKeyKeeps
  <2>3. CASE \E k \in Keys : K!Revoke(q, k)
    BY <1>2, <2>3, RevokeKeeps
  <2>4. CASE \E i \in Instances, k \in Keys : K!CacheHit(q, i, k) \/ K!Begin(q, i, k)
    BY <1>2, <2>4, CacheHitKeeps, BeginKeeps
  <2>. QED  BY <1>2, <2>1, <2>2, <2>3, <2>4 DEF K!Call
<1>3. ASSUME NEW q \in Requests, K!Step(q), K!History PROVE KeyInv'
  BY <1>3, ReadKeyKeeps, ReadOrganizationKeeps, ReadMembershipKeeps, ReadLiveKeeps, ReadGrantedKeeps,
     TouchKeyKeeps, CachePutKeeps, InsertKeyKeeps, RevokeKeyKeeps DEF K!Step
<1>4. CASE K!Tick
  BY <1>4, TickKeeps
<1>5. CASE UNCHANGED K!vars
  <2>1. /\ owner' = owner /\ key' = key /\ org' = org /\ member' = member /\ custom' = custom /\ late' = late
        /\ part' = part /\ watch' = watch /\ wrong' = wrong /\ lost' = lost /\ keyReq' = keyReq /\ keyCache' = keyCache
    BY <1>5 DEF K!vars
  <2>2. K!TypeOK' /\ K!KeysGoWithOrganization'
    BY <2>1 DEF KeyInv, K!TypeOK, K!KeysGoWithOrganization
  <2>3. K!Supported(watch)' <=> K!Supported(watch)
    BY <2>1 DEF K!Supported, K!Valid, K!Reach, K!Covers, K!PermissionsOf
  <2>4. \A q \in Requests : Carries(keyReq'[q]) /\ Fresh(keyReq[q])'
    <3>1. ASSUME NEW q \in Requests PROVE Claimed(keyReq[q])' => Claimed(keyReq[q])
      BY <2>1 DEF Claimed, K!Reach, K!Covers, K!PermissionsOf
    <3>. QED  BY <2>1, <3>1 DEF KeyInv, Fresh, Recent
  <2>. QED  BY <2>1, <2>2, <2>3, <2>4 DEF KeyInv, Cached, Carries
<1>. QED  BY <1>1, <1>2, <1>3, <1>4, <1>5 DEF K!Next

\* The inductive invariant of the API keys, for any number of keys, instances and
\* requests: what a request or an entry of a cache claims was supported within
\* its age.
THEOREM KeyInvariant == K!ApiKeysAssumption /\ K!Spec => []KeyInv
<1>. SUFFICES ASSUME K!ApiKeysAssumption PROVE K!Spec => []KeyInv
  OBVIOUS
<1>. QED  BY KeyInit, KeyStep, PTL DEF K!Spec

\* KeyCredential and the principal cache: whatever a request with an API key is
\* accepted with, its key, its rank, its membership or a permission, the rows
\* supported within MaxDelay + CacheTTL, for any number of instances and requests
\* and any roles; a custom role that changes between the reads is the exception.
THEOREM KeyBound == K!ApiKeysAssumption /\ K!Spec => []K!AuthorityEndsInBound
<1>. SUFFICES ASSUME K!ApiKeysAssumption PROVE K!Spec => []K!AuthorityEndsInBound
  OBVIOUS
<1>1. KeyInv => K!AuthorityEndsInBound
  BY DEF KeyInv, K!AuthorityEndsInBound
<1>. QED  BY <1>1, KeyInvariant, PTL

\* registerOrganizationCleanup: the keys of a deleted organization go with it, but
\* for those that a Create inserts afterwards.
THEOREM KeysGoToo == K!ApiKeysAssumption /\ K!Spec => []K!KeysGoWithOrganization
<1>. SUFFICES ASSUME K!ApiKeysAssumption PROVE K!Spec => []K!KeysGoWithOrganization
  OBVIOUS
<1>1. KeyInv => K!KeysGoWithOrganization
  BY DEF KeyInv
<1>. QED  BY <1>1, KeyInvariant, PTL
=============================================================================
