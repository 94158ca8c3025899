-------------------------- MODULE GuardChainProofs --------------------------
(***************************************************************************)
(* Theorems of GuardChain, for any number of concurrent requests, any      *)
(* users, events, roles and permissions, and any options and routes that   *)
(* authenticate before they ask about an event.                            *)
(***************************************************************************)
EXTENDS GuardChain, TLAPS

AuthGuards  == {"HeaderAuth", "CookieAuth"}
EventGuards == {"EventRole", "EventPermission"}
Guards      == AuthGuards \cup EventGuards \cup {"Role", "ZeroTrust", "RateLimit"}

\* A request that has arrived: its route is one of the application's.
Arrived(r) ==
    /\ DOMAIN request[r] = {"route", "with", "source", "client"}
    /\ \E a \in Arrivals[config] : request[r].route = a.route

Passed(r, guard) == \E n \in DOMAIN Chain(r) : n < pc[r] /\ Chain(r)[n] = guard

\* The event the guards of the request ask about is the one left for the handler.
IdKept(r) == resolvedEventId[r] = extractEventId(request[r].source)

\* What holds of a request while it waits at an event guard.
WaitInv(r) ==
    waiting[r] =>
        /\ outcome[r] = Pending /\ pc[r] \in DOMAIN Chain(r)
        /\ Chain(r)[pc[r]] \in EventGuards
        /\ IdKept(r)
        /\ Chain(r)[pc[r]] = "EventRole" => <<Asked(r), eventRole[Asked(r)]>> \in roleSeen[r]
        /\ Chain(r)[pc[r]] = "EventPermission" =>
              <<Asked(r), permissions[Asked(r)]>> \in permissionsSeen[r]

\* What holds once it has passed one.
PassInv(r) ==
    /\ Passed(r, "EventRole") /\ request[r].route.eventRoles # {} =>
          /\ IdKept(r)
          /\ \E s \in roleSeen[r] : s[1] = Asked(r) /\ s[2] \in request[r].route.eventRoles
    /\ Passed(r, "EventPermission") /\ request[r].route.permissions # {} =>
          /\ IdKept(r)
          /\ \E s \in permissionsSeen[r] :
                s[1] = Asked(r) /\ request[r].route.permissions \subseteq s[2]

RequestInv(r) ==
    /\ pc[r] \in Nat
    /\ IF pc[r] = 0 THEN request[r].route = NoRoute ELSE Arrived(r)
    /\ WaitInv(r)
    /\ PassInv(r)
    /\ outcome[r] = Handled => pc[r] # 0 /\ \A n \in DOMAIN Chain(r) : n < pc[r]

Shape ==
    /\ config \in Configs
    /\ DOMAIN request = Requests /\ DOMAIN pc = Requests /\ DOMAIN waiting = Requests
    /\ DOMAIN user = Requests /\ DOMAIN resolvedEventId = Requests
    /\ DOMAIN outcome = Requests

ChainInv == Shape /\ \A r \in Requests : RequestInv(r)

\* The global guards ask about no event (SecurityModule).
LEMMA GlobalGuardsFirst ==
    /\ GlobalGuards \in Seq(Guards)
    /\ \A n \in DOMAIN GlobalGuards : GlobalGuards[n] \notin EventGuards
<1> DEFINE P == <<"HeaderAuth", "Role", "ZeroTrust">>
           Q == <<"RateLimit">>
<1>1. P \in Seq(Guards) /\ Q \in Seq(Guards) /\ <<>> \in Seq(Guards)
      BY DEF Guards, AuthGuards
<1>2. /\ Len(P) = 3 /\ P[1] = "HeaderAuth" /\ P[2] = "Role" /\ P[3] = "ZeroTrust"
      /\ Len(Q) = 1 /\ Q[1] = "RateLimit"
      OBVIOUS
<1> HIDE DEF P, Q
<1>3. \A n \in DOMAIN P : P[n] \notin EventGuards
      BY <1>1, <1>2 DEF EventGuards
<1>4. \A n \in DOMAIN Q : Q[n] \notin EventGuards
      BY <1>1, <1>2 DEF EventGuards
<1>5. \A A, B \in Seq(Guards) :
         (\A n \in DOMAIN A : A[n] \notin EventGuards) /\ (\A n \in DOMAIN B : B[n] \notin EventGuards)
            => A \o B \in Seq(Guards) /\ \A n \in DOMAIN (A \o B) : (A \o B)[n] \notin EventGuards
      OBVIOUS
<1>6. GlobalGuards = (IF config.globalGuards THEN P ELSE <<>>)
                        \o (IF config.rateLimit THEN Q ELSE <<>>)
      BY DEF GlobalGuards, P, Q
<1>7. \A n \in DOMAIN <<>> : <<>>[n] \notin EventGuards
      OBVIOUS
<1> QED BY <1>1, <1>3, <1>4, <1>5, <1>6, <1>7

\* In a chain no guard that authenticates comes after one that asks about an
\* event, because the global guards come first and ask about none.
LEMMA ChainOrder ==
    ASSUME config \in Configs, NEW r \in Requests, Arrived(r) \/ request[r].route = NoRoute
    PROVE  /\ Chain(r) \in Seq(Guards)
           /\ DOMAIN Chain(r) = 1..Len(Chain(r))
           /\ \A n, m \in DOMAIN Chain(r) :
                 Chain(r)[n] \in AuthGuards /\ Chain(r)[m] \in EventGuards => n < m
<1> DEFINE guards == request[r].route.guards
<1>1. /\ guards \in Seq(Guards)
      /\ \A n, m \in DOMAIN guards : guards[n] \in AuthGuards /\ guards[m] \in EventGuards => n < m
  <2>1. CASE Arrived(r)
        BY <2>1, ArrivalsAssumption DEF Arrived, AuthGuards, EventGuards, Guards
  <2>2. CASE request[r].route = NoRoute
        BY <2>2 DEF NoRoute
  <2> QED BY <2>1, <2>2
<1>2. /\ GlobalGuards \in Seq(Guards)
      /\ \A n \in DOMAIN GlobalGuards : GlobalGuards[n] \notin EventGuards
      BY GlobalGuardsFirst
<1> HIDE DEF guards
<1>3. Chain(r) = GlobalGuards \o guards
      BY DEF Chain, guards
<1>4. Chain(r) \in Seq(Guards) /\ DOMAIN Chain(r) = 1..Len(Chain(r))
      BY <1>1, <1>2, <1>3
<1>5. ASSUME NEW n \in DOMAIN Chain(r), NEW m \in DOMAIN Chain(r),
             Chain(r)[n] \in AuthGuards, Chain(r)[m] \in EventGuards
      PROVE  n < m
  <2> DEFINE k == Len(GlobalGuards)
  <2>1. k \in Nat /\ \A i \in 1..k : Chain(r)[i] = GlobalGuards[i] /\ i \in DOMAIN GlobalGuards
        BY <1>1, <1>2, <1>3
  <2>2. \A i \in DOMAIN Chain(r) : i > k => i - k \in DOMAIN guards /\ Chain(r)[i] = guards[i - k]
        BY <1>1, <1>2, <1>3
  <2>3. n \in Nat /\ m \in Nat /\ n >= 1 /\ m >= 1
        BY <1>4
  <2> HIDE DEF k
  <2>4. m > k
        BY <1>2, <1>5, <2>1, <2>3
  <2>5. CASE n <= k
        BY <2>1, <2>3, <2>4, <2>5
  <2>6. CASE n > k
        BY <1>1, <1>5, <2>1, <2>2, <2>3, <2>4, <2>6
  <2> QED BY <2>1, <2>3, <2>5, <2>6
<1> QED BY <1>4, <1>5
-----------------------------------------------------------------------------
\* Nothing a request's own guards look at changes for it.
Untouched(q) ==
    UNCHANGED <<config, request[q], pc[q], waiting[q], user[q], resolvedEventId[q], outcome[q]>>

\* The options and the route stay; its credentials may be replaced.
RouteKept(r) ==
    /\ UNCHANGED config
    /\ UNCHANGED <<DOMAIN request[r], request[r].route, request[r].source>>

\* The chain is fixed by options and route.
LEMMA ChainKept ==
    ASSUME NEW r, RouteKept(r)
    PROVE  /\ Chain(r)' = Chain(r)
           /\ Arrived(r) => Arrived(r)'
           /\ extractEventId(request'[r].source) = extractEventId(request[r].source)
BY DEF RouteKept, Chain, GlobalGuards, Arrived

\* What one request sees is not spoilt by another one's step, nor by a change of
\* roles and permissions, for the guards that wait see that too.
LEMMA OthersKeepInv ==
    ASSUME NEW q \in Requests, RequestInv(q), Untouched(q),
           \/ UNCHANGED <<eventRole, permissions, roleSeen, permissionsSeen>>
           \/ Observe
    PROVE  RequestInv(q)'
<1>1. /\ Chain(q)' = Chain(q) /\ Asked(q)' = Asked(q)
      /\ Arrived(q) => Arrived(q)'
      /\ IdKept(q) <=> IdKept(q)'
      /\ request'[q] = request[q]
      BY DEF Untouched, Chain, GlobalGuards, Asked, Arrived, IdKept
<1>2. roleSeen[q] \subseteq roleSeen'[q] /\ permissionsSeen[q] \subseteq permissionsSeen'[q]
      BY DEF Observe
<1>3. WaitInv(q)'
  <2>1. CASE UNCHANGED <<eventRole, permissions, roleSeen, permissionsSeen>>
        BY <1>1, <2>1 DEF RequestInv, WaitInv, Untouched
  <2>2. CASE Observe
    <3>1. waiting'[q] /\ Chain(q)[pc[q]] = "EventRole" =>
             <<Asked(q), eventRole'[Asked(q)]>> \in roleSeen'[q]
          BY <1>1, <2>2 DEF Observe, Seen, At, RequestInv, WaitInv, Untouched
    <3>2. waiting'[q] /\ Chain(q)[pc[q]] = "EventPermission" =>
             <<Asked(q), permissions'[Asked(q)]>> \in permissionsSeen'[q]
          BY <1>1, <2>2 DEF Observe, Seen, At, RequestInv, WaitInv, Untouched
    <3> QED BY <1>1, <3>1, <3>2 DEF RequestInv, WaitInv, Untouched
  <2> QED BY <2>1, <2>2
<1>4. PassInv(q)'
      BY <1>1, <1>2 DEF RequestInv, PassInv, Passed, Untouched
<1> QED BY <1>1, <1>3, <1>4 DEF RequestInv, Untouched

\* A request goes on or is turned away, and no longer waits.  It may only get a
\* new user where no event guard has been passed, and passes one that asked.
LEMMA StepKeepsInv ==
    ASSUME Shape, NEW r \in Requests, RequestInv(r), pc[r] # 0, RouteKept(r),
           ~waiting'[r], outcome'[r] # Handled,
           pc'[r] \in {pc[r], pc[r] + 1},
           roleSeen[r] \subseteq roleSeen'[r], permissionsSeen[r] \subseteq permissionsSeen'[r],
           \/ UNCHANGED <<user[r], resolvedEventId[r]>>
           \/ /\ Chain(r)[pc[r]] \notin EventGuards
              /\ ~Passed(r, "EventRole") /\ ~Passed(r, "EventPermission"),
           pc'[r] = pc[r] + 1 /\ Chain(r)[pc[r]] = "EventRole" /\ request[r].route.eventRoles # {} =>
              /\ IdKept(r)
              /\ \E s \in roleSeen[r] : s[1] = Asked(r) /\ s[2] \in request[r].route.eventRoles,
           pc'[r] = pc[r] + 1 /\ Chain(r)[pc[r]] = "EventPermission"
                              /\ request[r].route.permissions # {} =>
              /\ IdKept(r)
              /\ \E s \in permissionsSeen[r] :
                    s[1] = Asked(r) /\ request[r].route.permissions \subseteq s[2]
    PROVE  RequestInv(r)'
<1>1. /\ Chain(r)' = Chain(r) /\ Arrived(r)'
      /\ extractEventId(request'[r].source) = extractEventId(request[r].source)
      /\ request'[r].route = request[r].route
      BY ChainKept DEF RouteKept, RequestInv
<1>2. pc[r] \in Nat /\ pc'[r] \in Nat
      BY DEF RequestInv
<1>3. \A n \in DOMAIN Chain(r) : n \in Nat
      BY ChainOrder DEF Shape, RequestInv
<1>4. ASSUME NEW guard, Passed(r, guard)'
      PROVE  \/ Passed(r, guard)
             \/ pc'[r] = pc[r] + 1 /\ Chain(r)[pc[r]] = guard
      BY <1>1, <1>2, <1>3, <1>4 DEF Passed
<1>5. PassInv(r)'
  <2>1. CASE UNCHANGED <<user[r], resolvedEventId[r]>>
    <3>1. /\ Asked(r)' = Asked(r)
          /\ IdKept(r) <=> IdKept(r)'
          BY <1>1, <2>1 DEF Asked, IdKept
    <3>2. Passed(r, "EventRole")' /\ request[r].route.eventRoles # {} =>
             /\ IdKept(r)
             /\ \E s \in roleSeen[r] : s[1] = Asked(r) /\ s[2] \in request[r].route.eventRoles
          BY <1>4 DEF RequestInv, PassInv
    <3>3. Passed(r, "EventPermission")' /\ request[r].route.permissions # {} =>
             /\ IdKept(r)
             /\ \E s \in permissionsSeen[r] :
                   s[1] = Asked(r) /\ request[r].route.permissions \subseteq s[2]
          BY <1>4 DEF RequestInv, PassInv
    <3> QED BY <1>1, <3>1, <3>2, <3>3 DEF PassInv
  <2>2. CASE /\ Chain(r)[pc[r]] \notin EventGuards
             /\ ~Passed(r, "EventRole") /\ ~Passed(r, "EventPermission")
    <3>1. ~Passed(r, "EventRole")' /\ ~Passed(r, "EventPermission")'
          BY <1>4, <2>2 DEF EventGuards
    <3> QED BY <3>1 DEF PassInv
  <2> QED BY <2>1, <2>2
<1> QED BY <1>1, <1>2, <1>5 DEF RequestInv, WaitInv
-----------------------------------------------------------------------------
\* No exception is the outcome of a handled request, and neither is pending.
LEMMA Denials ==
    /\ Pending # Handled /\ Forbidden # Handled /\ Unauthorized # Handled
    /\ InternalServerError # Handled /\ UnauthorizedTenant # Handled
    /\ RateLimitExceeded # Handled /\ AccessBlocked # Handled
    /\ \A reason : /\ InvalidCredentials(reason) # Handled
                   /\ ForbiddenOperation(reason) # Handled
                   /\ EventAccessDenied(reason) # Handled
                   /\ StepUpRequired(reason) # Handled
BY DEF Pending, Handled, Forbidden, Unauthorized, InternalServerError, UnauthorizedTenant,
       RateLimitExceeded, AccessBlocked, InvalidCredentials, ForbiddenOperation,
       EventAccessDenied, StepUpRequired, HttpException, Exception

\* A request goes to the next guard, or ends with an exception where it is.
Proceeds(r) ==
    \/ Pass(r)
    \/ \E exception : exception # Handled /\ Deny(r, exception)

\* Nobody else's place or reply changes with it, and it never ends as handled.
LEMMA ProceedsTo ==
    ASSUME Shape, NEW r \in Requests, outcome[r] = Pending, Proceeds(r)
    PROVE  /\ pc'[r] \in {pc[r], pc[r] + 1} /\ outcome'[r] # Handled
           /\ DOMAIN pc' = Requests /\ DOMAIN outcome' = Requests
           /\ \A q \in Requests \ {r} : UNCHANGED <<pc[q], outcome[q]>>
BY Denials DEF Proceeds, Pass, Deny, Shape

\* Nobody waits at a guard that asks nobody.
LEMMA NotWaiting ==
    ASSUME NEW r \in Requests, RequestInv(r), NEW guard, guard \notin EventGuards, At(r, guard)
    PROVE  ~waiting[r]
BY DEF RequestInv, WaitInv, At

\* A request at a guard has arrived.
LEMMA AtStarted ==
    ASSUME ChainInv, NEW r \in Requests, NEW guard, At(r, guard)
    PROVE  pc[r] # 0 /\ Arrived(r)
BY ChainOrder DEF ChainInv, Shape, RequestInv, At

\* RoleGuard, ZeroTrustGuard and RateLimitGuard (src/auth, src/zero-trust, src/rate-limit).
LEMMA PlainGuardKeepsInv ==
    ASSUME ChainInv, NEW r \in Requests, Role(r) \/ ZeroTrust(r) \/ RateLimit(r)
    PROVE  ChainInv'
<1>1. PICK guard \in {"Role", "ZeroTrust", "RateLimit"} : At(r, guard)
      BY DEF Role, ZeroTrust, RateLimit
<1>2. Proceeds(r)
  <2>1. CASE Role(r)
        BY <2>1, Denials DEF Role, Proceeds
  <2>2. CASE ZeroTrust(r)
        BY <2>2, Denials DEF ZeroTrust, Decisions, Proceeds
  <2>3. CASE RateLimit(r)
        BY <2>3, Denials DEF RateLimit, Proceeds
  <2> QED BY <2>1, <2>2, <2>3
<1>3. UNCHANGED <<config, request, waiting, user, resolvedEventId, eventRole, permissions,
                  roleSeen, permissionsSeen>>
      BY DEF Role, ZeroTrust, RateLimit, access, history
<1>4. RequestInv(r) /\ Shape /\ guard \notin EventGuards
      BY DEF ChainInv, EventGuards
<1>5. outcome[r] = Pending /\ pc[r] \in DOMAIN Chain(r) /\ Chain(r)[pc[r]] = guard
      BY <1>1 DEF At
<1>6. /\ pc'[r] \in {pc[r], pc[r] + 1} /\ outcome'[r] # Handled
      /\ DOMAIN pc' = Requests /\ DOMAIN outcome' = Requests
      /\ \A q \in Requests \ {r} : UNCHANGED <<pc[q], outcome[q]>>
      BY <1>2, <1>4, <1>5, ProceedsTo
<1>7. ~waiting[r]
      BY <1>1, <1>4, NotWaiting
<1>8. pc[r] # 0
      BY <1>1, AtStarted DEF ChainInv
<1>9. RequestInv(r)'
      BY <1>3, <1>4, <1>5, <1>6, <1>7, <1>8, StepKeepsInv DEF RouteKept, EventGuards
<1>10. \A q \in Requests \ {r} : RequestInv(q)'
       BY <1>3, <1>6, OthersKeepInv DEF ChainInv, Untouched
<1> QED BY <1>3, <1>6, <1>9, <1>10 DEF ChainInv, Shape

\* AuthGuard('jwt') and CookieAuthGuard give the request a user, before any event
\* guard (JwtStrategy.validate).
LEMMA AuthGuardKeepsInv ==
    ASSUME ChainInv, NEW r \in Requests, HeaderAuth(r) \/ CookieAuth(r)
    PROVE  ChainInv'
<1>1. PICK guard \in AuthGuards : At(r, guard)
      BY DEF HeaderAuth, CookieAuth, AuthGuards
<1>2. \E token : Authenticate(r, token)
      BY DEF HeaderAuth, CookieAuth
<1>3. Proceeds(r) /\ DOMAIN user' = Requests /\ \A q \in Requests \ {r} : user'[q] = user[q]
  <2>1. PICK token : Authenticate(r, token)
        BY <1>2
  <2>2. Proceeds(r)
        BY <2>1, Denials DEF Authenticate, Proceeds
  <2>3. user' = user \/ \E principal : user' = [user EXCEPT ![r] = principal]
        BY <2>1 DEF Authenticate
  <2> QED BY <2>2, <2>3 DEF ChainInv, Shape
<1>4. UNCHANGED <<config, waiting, resolvedEventId, eventRole, permissions,
                  roleSeen, permissionsSeen>>
      BY <1>2 DEF Authenticate, access, history
<1>5. RequestInv(r) /\ Shape /\ guard \notin EventGuards
      BY DEF ChainInv, EventGuards, AuthGuards
<1>6. outcome[r] = Pending /\ pc[r] \in DOMAIN Chain(r) /\ Chain(r)[pc[r]] = guard
      BY <1>1 DEF At
<1>7. pc[r] # 0 /\ Arrived(r)
      BY <1>1, AtStarted
<1>8. /\ RouteKept(r) /\ DOMAIN request' = Requests
      /\ \A q \in Requests \ {r} : request'[q] = request[q]
  <2>1. CASE request' = request
        BY <1>4, <2>1 DEF RouteKept, ChainInv, Shape
  <2>2. ASSUME NEW token, request' = [request EXCEPT ![r].with.bearer = token]
        PROVE  /\ RouteKept(r) /\ DOMAIN request' = Requests
               /\ \A q \in Requests \ {r} : request'[q] = request[q]
    <3>1. request' = [request EXCEPT ![r] = [request[r] EXCEPT !.with =
                         [request[r].with EXCEPT !.bearer = token]]]
          BY <2>2
    <3>2. request'[r] = [request[r] EXCEPT !.with = [request[r].with EXCEPT !.bearer = token]]
          BY <3>1 DEF ChainInv, Shape
    <3>3. /\ DOMAIN request'[r] = DOMAIN request[r]
          /\ request'[r].route = request[r].route /\ request'[r].source = request[r].source
          BY <1>7, <3>2 DEF Arrived
    <3> QED BY <1>4, <3>1, <3>3 DEF RouteKept, ChainInv, Shape
  <2> QED BY <2>1, <2>2 DEF HeaderAuth, CookieAuth
<1>9. /\ pc'[r] \in {pc[r], pc[r] + 1} /\ outcome'[r] # Handled
      /\ DOMAIN pc' = Requests /\ DOMAIN outcome' = Requests
      /\ \A q \in Requests \ {r} : UNCHANGED <<pc[q], outcome[q]>>
      BY <1>3, <1>5, <1>6, ProceedsTo
<1>10. ~waiting[r]
       BY <1>1, <1>5, NotWaiting
<1>11. ~Passed(r, "EventRole") /\ ~Passed(r, "EventPermission")
  <2>1. /\ \A n, m \in DOMAIN Chain(r) :
              Chain(r)[n] \in AuthGuards /\ Chain(r)[m] \in EventGuards => n < m
        /\ \A n \in DOMAIN Chain(r) : n \in Nat
        BY <1>5, <1>7, ChainOrder DEF Shape
  <2> QED BY <1>6, <2>1 DEF Passed, EventGuards
<1>12. RequestInv(r)'
       BY <1>4, <1>5, <1>6, <1>7, <1>8, <1>9, <1>10, <1>11, StepKeepsInv DEF EventGuards
<1>13. \A q \in Requests \ {r} : RequestInv(q)'
       BY <1>3, <1>4, <1>8, <1>9, OthersKeepInv DEF ChainInv, Untouched
<1> QED BY <1>3, <1>4, <1>8, <1>9, <1>12, <1>13 DEF ChainInv, Shape

\* An event guard lets a request pass that needs nothing, turns one away, or
\* leaves the id on it and asks.
LEMMA AskKeepsInv ==
    ASSUME ChainInv, NEW r \in Requests, NEW guard, NEW required, Ask(r, guard, required),
           \/ guard = "EventRole" /\ required = request[r].route.eventRoles
           \/ guard = "EventPermission" /\ required = request[r].route.permissions
    PROVE  ChainInv'
<1> DEFINE eventId == extractEventId(request[r].source)
<1>1. /\ At(r, guard) /\ ~waiting[r] /\ Observe
      /\ UNCHANGED <<config, request, user, eventRole, permissions>>
      BY DEF Ask, access
<1>2. RequestInv(r) /\ Shape
      BY DEF ChainInv
<1>3. /\ outcome[r] = Pending /\ pc[r] \in DOMAIN Chain(r) /\ Chain(r)[pc[r]] = guard
      /\ guard \in EventGuards
      BY <1>1 DEF At, EventGuards
<1>4. pc[r] # 0 /\ Arrived(r)
      BY <1>1, AtStarted
<1>5. roleSeen[r] \subseteq roleSeen'[r] /\ permissionsSeen[r] \subseteq permissionsSeen'[r]
      BY <1>1 DEF Observe
<1>6. CASE Proceeds(r) /\ UNCHANGED <<waiting, resolvedEventId>> /\ (Pass(r) => required = {})
  <2>1. /\ pc'[r] \in {pc[r], pc[r] + 1} /\ outcome'[r] # Handled
        /\ DOMAIN pc' = Requests /\ DOMAIN outcome' = Requests
        /\ \A q \in Requests \ {r} : UNCHANGED <<pc[q], outcome[q]>>
        BY <1>2, <1>3, <1>6, ProceedsTo
  <2>2. pc'[r] = pc[r] + 1 => required = {}
    <3>1. pc[r] \in Nat
          BY <1>2 DEF RequestInv
    <3> QED BY <1>6, <3>1 DEF Proceeds, Deny
  <2>3. RequestInv(r)'
        BY <1>1, <1>2, <1>3, <1>4, <1>5, <1>6, <2>1, <2>2, StepKeepsInv DEF RouteKept
  <2>4. \A q \in Requests \ {r} : RequestInv(q)'
        BY <1>1, <1>6, <2>1, OthersKeepInv DEF ChainInv, Untouched
  <2> QED BY <1>1, <1>2, <1>6, <2>1, <2>3, <2>4 DEF ChainInv, Shape
<1>7. CASE /\ resolvedEventId' = [resolvedEventId EXCEPT ![r] = eventId]
           /\ waiting' = [waiting EXCEPT ![r] = TRUE]
           /\ UNCHANGED <<pc, outcome>>
  <2>1. /\ waiting'[r] /\ resolvedEventId'[r] = eventId
        /\ DOMAIN waiting' = Requests /\ DOMAIN resolvedEventId' = Requests
        /\ \A q \in Requests \ {r} : UNCHANGED <<waiting[q], resolvedEventId[q]>>
        BY <1>2, <1>7 DEF Shape
  <2>2. /\ Chain(r)' = Chain(r) /\ Arrived(r)' /\ Asked(r)' = Asked(r) /\ IdKept(r)'
        BY <1>1, <1>4, <2>1, ChainKept DEF RouteKept, Asked, IdKept
  <2>3. WaitInv(r)'
    <3>1. guard = "EventRole" => <<Asked(r), eventRole[Asked(r)]>> \in roleSeen'[r]
          BY <1>1, <1>3, <1>7, <2>1, <2>2 DEF Observe, Seen, At
    <3>2. guard = "EventPermission" => <<Asked(r), permissions[Asked(r)]>> \in permissionsSeen'[r]
          BY <1>1, <1>3, <1>7, <2>1, <2>2 DEF Observe, Seen, At
    <3> QED BY <1>1, <1>3, <1>7, <2>2, <3>1, <3>2 DEF WaitInv
  <2>4. PassInv(r)'
    <3>1. /\ Passed(r, "EventRole")' <=> Passed(r, "EventRole")
          /\ Passed(r, "EventPermission")' <=> Passed(r, "EventPermission")
          BY <1>7, <2>2 DEF Passed
    <3> QED BY <1>1, <1>2, <1>5, <2>2, <3>1 DEF RequestInv, PassInv
  <2>5. RequestInv(r)'
        BY <1>2, <1>3, <1>4, <1>7, <2>2, <2>3, <2>4, Denials DEF RequestInv
  <2>6. \A q \in Requests \ {r} : RequestInv(q)'
        BY <1>1, <1>7, <2>1, OthersKeepInv DEF ChainInv, Untouched
  <2> QED BY <1>1, <1>2, <1>7, <2>1, <2>5, <2>6 DEF ChainInv, Shape
<1> QED
  <2>1. CASE required = {}
        BY <1>6, <2>1 DEF Ask, Proceeds
  <2>2. CASE required # {} /\ (user[r] = Nobody \/ eventId = None)
    <3>1. Proceeds(r) /\ UNCHANGED <<waiting, resolvedEventId>>
          BY <2>2, Denials DEF Ask, Proceeds
    <3>2. ~Pass(r)
      <4>1. UNCHANGED pc /\ pc[r] \in Nat
            BY <1>2, <2>2 DEF Ask, Deny, RequestInv
      <4>2. Pass(r) => pc'[r] = pc[r] + 1
            BY <1>2 DEF Pass, Shape
      <4> QED BY <4>1, <4>2
    <3> QED BY <1>6, <3>1, <3>2
  <2>3. CASE required # {} /\ ~(user[r] = Nobody \/ eventId = None)
        BY <1>7, <2>3 DEF Ask
  <2> QED BY <2>1, <2>2, <2>3

\* The answer a guard hears is about the request's own user and event, and was
\* given while it waited.
LEMMA HearKeepsInv ==
    ASSUME ChainInv, NEW r \in Requests, NEW guard \in EventGuards, NEW reason,
           Hear(r, guard, reason),
           guard = "EventRole" /\ reason = "none" =>
               eventRole[Asked(r)] \in request[r].route.eventRoles,
           guard = "EventPermission" /\ reason = "none" =>
               request[r].route.permissions \subseteq permissions[Asked(r)]
    PROVE  ChainInv'
<1>1. /\ At(r, guard) /\ waiting[r] /\ waiting' = [waiting EXCEPT ![r] = FALSE]
      /\ UNCHANGED <<config, request, user, resolvedEventId, eventRole, permissions,
                     roleSeen, permissionsSeen>>
      BY DEF Hear, access, history
<1>2. RequestInv(r) /\ Shape
      BY DEF ChainInv
<1>3. outcome[r] = Pending /\ pc[r] \in DOMAIN Chain(r) /\ Chain(r)[pc[r]] = guard
      BY <1>1 DEF At
<1>4. pc[r] # 0 /\ Arrived(r)
      BY <1>1, AtStarted
<1>5. Proceeds(r) /\ (reason # "none" => Deny(r, EventAccessDenied(reason)))
      BY Denials DEF Hear, Proceeds
<1>6. /\ pc'[r] \in {pc[r], pc[r] + 1} /\ outcome'[r] # Handled
      /\ DOMAIN pc' = Requests /\ DOMAIN outcome' = Requests
      /\ \A q \in Requests \ {r} : UNCHANGED <<pc[q], outcome[q]>>
      BY <1>2, <1>3, <1>5, ProceedsTo
<1>7. pc'[r] = pc[r] + 1 => reason = "none"
  <2>1. pc[r] \in Nat
        BY <1>2 DEF RequestInv
  <2> QED BY <1>5, <2>1 DEF Deny
<1>8. /\ DOMAIN waiting' = Requests /\ ~waiting'[r]
      /\ \A q \in Requests \ {r} : UNCHANGED waiting[q]
      BY <1>1, <1>2 DEF Shape
<1>9. pc'[r] = pc[r] + 1 /\ guard = "EventRole" =>
         /\ IdKept(r)
         /\ \E s \in roleSeen[r] : s[1] = Asked(r) /\ s[2] \in request[r].route.eventRoles
      BY <1>1, <1>2, <1>3, <1>7 DEF RequestInv, WaitInv
<1>10. pc'[r] = pc[r] + 1 /\ guard = "EventPermission" =>
          /\ IdKept(r)
          /\ \E s \in permissionsSeen[r] :
                s[1] = Asked(r) /\ request[r].route.permissions \subseteq s[2]
       BY <1>1, <1>2, <1>3, <1>7 DEF RequestInv, WaitInv
<1>11. RequestInv(r)'
       BY <1>1, <1>2, <1>3, <1>4, <1>6, <1>8, <1>9, <1>10, StepKeepsInv DEF RouteKept
<1>12. \A q \in Requests \ {r} : RequestInv(q)'
       BY <1>1, <1>6, <1>8, OthersKeepInv DEF ChainInv, Untouched
<1> QED BY <1>1, <1>2, <1>6, <1>8, <1>11, <1>12 DEF ChainInv, Shape

\* A failing resolver ends the request that waits for it.
LEMMA FailureKeepsInv ==
    ASSUME ChainInv, NEW r \in Requests, ResolverFails(r)
    PROVE  ChainInv'
<1>1. /\ outcome[r] = Pending /\ waiting[r] /\ waiting' = [waiting EXCEPT ![r] = FALSE]
      /\ UNCHANGED <<config, request, pc, user, resolvedEventId, eventRole, permissions,
                     roleSeen, permissionsSeen>>
      BY DEF ResolverFails, Deny, access, history
<1>2. RequestInv(r) /\ Shape
      BY DEF ChainInv
<1>3. /\ DOMAIN outcome' = Requests /\ outcome'[r] # Handled
      /\ \A q \in Requests \ {r} : UNCHANGED outcome[q]
      BY <1>2, Denials DEF ResolverFails, Deny, Shape
<1>4. /\ DOMAIN waiting' = Requests /\ ~waiting'[r]
      /\ \A q \in Requests \ {r} : UNCHANGED waiting[q]
      BY <1>1, <1>2 DEF Shape
<1>5. RequestInv(r)'
  <2>1. Chain(r)' = Chain(r) /\ Asked(r)' = Asked(r)
        BY <1>1 DEF Chain, GlobalGuards, Asked
  <2>2. /\ Passed(r, "EventRole")' <=> Passed(r, "EventRole")
        /\ Passed(r, "EventPermission")' <=> Passed(r, "EventPermission")
        /\ IdKept(r)' <=> IdKept(r)
        /\ Arrived(r)' <=> Arrived(r)
        BY <1>1, <2>1 DEF Passed, IdKept, Arrived
  <2>3. PassInv(r)'
        BY <1>1, <1>2, <2>1, <2>2 DEF RequestInv, PassInv
  <2> QED BY <1>1, <1>2, <1>3, <1>4, <2>2, <2>3 DEF RequestInv, WaitInv
<1>6. \A q \in Requests \ {r} : RequestInv(q)'
      BY <1>1, <1>3, <1>4, OthersKeepInv DEF ChainInv, Untouched
<1> QED BY <1>1, <1>2, <1>3, <1>4, <1>5, <1>6 DEF ChainInv, Shape

\* The handler runs behind all guards of its chain.
LEMMA HandleKeepsInv ==
    ASSUME ChainInv, NEW r \in Requests, Handle(r)
    PROVE  ChainInv'
<1>1. /\ outcome[r] = Pending /\ pc[r] = Len(Chain(r)) + 1
      /\ outcome' = [outcome EXCEPT ![r] = Handled]
      /\ UNCHANGED <<config, request, pc, waiting, user, resolvedEventId, eventRole,
                     permissions, roleSeen, permissionsSeen>>
      BY DEF Handle, access, history
<1>2. RequestInv(r) /\ Shape
      BY DEF ChainInv
<1>3. /\ DOMAIN Chain(r) = 1..Len(Chain(r)) /\ Len(Chain(r)) \in Nat
      BY <1>2, ChainOrder DEF RequestInv, Shape
<1>4. ~waiting[r]
      BY <1>1, <1>2, <1>3 DEF RequestInv, WaitInv
<1>5. RequestInv(r)'
  <2>1. Chain(r)' = Chain(r) /\ Asked(r)' = Asked(r)
        BY <1>1 DEF Chain, GlobalGuards, Asked
  <2>2. /\ Passed(r, "EventRole")' <=> Passed(r, "EventRole")
        /\ Passed(r, "EventPermission")' <=> Passed(r, "EventPermission")
        /\ IdKept(r)' <=> IdKept(r)
        /\ Arrived(r)' <=> Arrived(r)
        BY <1>1, <2>1 DEF Passed, IdKept, Arrived
  <2>3. PassInv(r)'
        BY <1>1, <1>2, <2>1, <2>2 DEF RequestInv, PassInv
  <2>4. pc[r] # 0 /\ \A n \in DOMAIN Chain(r) : n < pc[r]
        BY <1>1, <1>3
  <2> QED BY <1>1, <1>2, <1>4, <2>1, <2>2, <2>3, <2>4 DEF RequestInv, WaitInv
<1>6. \A q \in Requests \ {r} : RequestInv(q)'
      BY <1>1, <1>2, OthersKeepInv DEF ChainInv, Untouched, Shape
<1> QED BY <1>1, <1>2, <1>5, <1>6 DEF ChainInv, Shape

\* What a request is made of.
LEMMA ArrivalShape ==
    ASSUME NEW c \in Configs, NEW a \in Arrivals[c]
    PROVE  /\ DOMAIN a = {"route", "with", "source", "client"}
           /\ DOMAIN a.with = {"bearer", "cookie", "tenant"}
<1> DEFINE carried == [bearer |-> a.with.bearer, cookie |-> a.with.cookie,
                       tenant |-> a.with.tenant]
<1>1. a = [route |-> a.route, with |-> carried, source |-> a.source, client |-> a.client]
      BY ArrivalsAssumption DEF Request
<1>2. DOMAIN carried = {"bearer", "cookie", "tenant"}
      OBVIOUS
<1> HIDE DEF carried
<1> QED BY <1>1, <1>2

\* A request arrives and stands before the first guard of its chain.
LEMMA ArriveKeepsInv ==
    ASSUME ChainInv, NEW r \in Requests, Arrive(r)
    PROVE  ChainInv'
<1>1. /\ pc[r] = 0 /\ pc' = [pc EXCEPT ![r] = @ + 1]
      /\ UNCHANGED <<config, waiting, user, resolvedEventId, outcome, eventRole,
                     permissions, roleSeen, permissionsSeen>>
      BY DEF Arrive, Pass, access, history
<1>2. PICK a \in Arrivals[config] : request' = [request EXCEPT ![r] = a]
      BY DEF Arrive
<1>3. RequestInv(r) /\ Shape
      BY DEF ChainInv
<1>4. /\ pc'[r] = 1 /\ request'[r] = a /\ DOMAIN pc' = Requests /\ DOMAIN request' = Requests
      /\ \A q \in Requests \ {r} : UNCHANGED <<pc[q], request[q]>>
      BY <1>1, <1>2, <1>3 DEF Shape
<1>5. Arrived(r)'
      BY <1>1, <1>2, <1>3, <1>4, ArrivalShape DEF Arrived, Shape
<1>6. ~waiting[r] /\ outcome[r] # Handled
  <2>1. 0 \notin DOMAIN Chain(r)
        BY <1>1, <1>3, ChainOrder DEF RequestInv, Shape
  <2> QED BY <1>1, <1>3, <2>1 DEF RequestInv, WaitInv
<1>7. \A n \in DOMAIN Chain(r)' : n \in Nat /\ n >= 1
  <2>1. Chain(r)' = GlobalGuards \o a.route.guards
        BY <1>1, <1>4 DEF Chain, GlobalGuards
  <2>2. GlobalGuards \in Seq(Guards) /\ a.route.guards \in Seq(Guards)
        BY <1>2, <1>3, ArrivalsAssumption, GlobalGuardsFirst
           DEF Shape, Guards, AuthGuards, EventGuards
  <2> QED BY <2>1, <2>2
<1>8. ~Passed(r, "EventRole")' /\ ~Passed(r, "EventPermission")'
      BY <1>4, <1>7 DEF Passed
<1>9. RequestInv(r)'
      BY <1>1, <1>4, <1>5, <1>6, <1>8 DEF RequestInv, WaitInv, PassInv
<1>10. \A q \in Requests \ {r} : RequestInv(q)'
       BY <1>1, <1>4, OthersKeepInv DEF ChainInv, Untouched
<1> QED BY <1>1, <1>3, <1>4, <1>9, <1>10 DEF ChainInv, Shape

\* Whatever interleaves, a request that passed an event guard had what it asks
\* for, of the event left on the request (EventRoleGuard, EventPermissionGuard).
THEOREM ChainCorrect == Spec => []ChainInv
<1>1. Init => ChainInv
  <2> SUFFICES ASSUME Init PROVE ChainInv
      OBVIOUS
  <2>1. Shape
        BY DEF Init, Shape
  <2>2. ASSUME NEW r \in Requests PROVE RequestInv(r)
    <3>1. pc[r] = 0 /\ ~waiting[r] /\ request[r].route = NoRoute /\ outcome[r] # Handled
          BY <2>2, Denials DEF Init
    <3>2. \A n \in DOMAIN Chain(r) : n \in Nat /\ n >= 1
          BY <2>1, <3>1, ChainOrder DEF Shape
    <3> QED BY <3>1, <3>2 DEF RequestInv, WaitInv, PassInv, Passed
  <2> QED BY <2>1, <2>2 DEF ChainInv
<1>2. ChainInv /\ [Next]_vars => ChainInv'
  <2> SUFFICES ASSUME ChainInv, [Next]_vars PROVE ChainInv'
      OBVIOUS
  <2>1. CASE UNCHANGED <<config, request, pc, waiting, user, resolvedEventId, outcome>>
             /\ (UNCHANGED <<eventRole, permissions, roleSeen, permissionsSeen>> \/ Observe)
    <3>1. \A q \in Requests : RequestInv(q)'
          BY <2>1, OthersKeepInv DEF ChainInv, Untouched
    <3> QED BY <2>1, <3>1 DEF ChainInv, Shape
  <2>2. ASSUME NEW r \in Requests, Advance(r) PROVE ChainInv'
    <3>1. CASE HeaderAuth(r) \/ CookieAuth(r)
          BY <3>1, AuthGuardKeepsInv
    <3>2. CASE Role(r) \/ ZeroTrust(r) \/ RateLimit(r)
          BY <3>2, PlainGuardKeepsInv
    <3>3. CASE EventRole(r)
      <4>1. CASE Ask(r, "EventRole", request[r].route.eventRoles)
            BY <4>1, AskKeepsInv
      <4>2. PICK reason :
              /\ reason = CASE eventRole[Asked(r)] = None -> "event-role-not-found"
                            [] eventRole[Asked(r)] \in request[r].route.eventRoles -> "none"
                            [] OTHER -> "event-role-mismatch"
              /\ ~Ask(r, "EventRole", request[r].route.eventRoles) =>
                    Hear(r, "EventRole", reason)
            BY <3>3 DEF EventRole
      <4> QED BY <4>1, <4>2, HearKeepsInv DEF EventGuards
    <3>4. CASE EventPermission(r)
      <4>1. CASE Ask(r, "EventPermission", request[r].route.permissions)
            BY <4>1, AskKeepsInv
      <4>2. PICK reason :
              /\ reason = IF hasEveryEventPermission(permissions[Asked(r)],
                                                     request[r].route.permissions)
                            THEN "none" ELSE "event-permission-mismatch"
              /\ ~Ask(r, "EventPermission", request[r].route.permissions) =>
                    Hear(r, "EventPermission", reason)
            BY <3>4 DEF EventPermission
      <4> QED BY <4>1, <4>2, HearKeepsInv DEF EventGuards, hasEveryEventPermission
    <3>5. CASE ResolverFails(r)
          BY <3>5, FailureKeepsInv
    <3>6. CASE Handle(r)
          BY <3>6, HandleKeepsInv
    <3> QED BY <2>2, <3>1, <3>2, <3>3, <3>4, <3>5, <3>6 DEF Advance
  <2>3. CASE Change
        BY <2>1, <2>3 DEF Change, limiter
  <2>4. CASE Tick
        BY <2>1, <2>4 DEF Tick, access, history
  <2>5. CASE UNCHANGED vars
        BY <2>1, <2>5 DEF vars, access, history
  <2> QED BY <2>2, <2>3, <2>4, <2>5, ArriveKeepsInv DEF Next
<1> QED BY <1>1, <1>2, PTL DEF Spec

\* A handler behind the event guards runs only for a user entitled to the event
\* CurrentEventId gives it.
THEOREM OnlyEntitled == Spec => []HandlerEntitled
<1>1. ChainInv => HandlerEntitled
  <2> SUFFICES ASSUME ChainInv, NEW r \in Requests, outcome[r] = Handled
               PROVE  LET route == request[r].route
                      IN  /\ Guarded(r, "EventRole") /\ route.eventRoles # {} =>
                                Had(roleSeen, r, LAMBDA role : role \in route.eventRoles)
                          /\ Guarded(r, "EventPermission") /\ route.permissions # {} =>
                                Had(permissionsSeen, r,
                                    LAMBDA granted : route.permissions \subseteq granted)
      BY DEF HandlerEntitled
  <2>1. PassInv(r) /\ \A n \in DOMAIN Chain(r) : n < pc[r]
        BY DEF ChainInv, RequestInv
  <2>2. \A guard : Guarded(r, guard) => Passed(r, guard)
        BY <2>1 DEF Guarded, Passed
  <2>3. IdKept(r) => Asked(r) = <<user[r].userId, resolvedEventId[r]>>
        BY DEF IdKept, Asked
  <2> QED BY <2>1, <2>2, <2>3 DEF PassInv, Had
<1> QED BY <1>1, ChainCorrect, PTL
-----------------------------------------------------------------------------
\* The first value that is there, if any is (the chains of || and ?? in src/auth).
LEMMA FirstFound ==
    ASSUME NEW values, DOMAIN values \subseteq 1..6, NEW missing
    PROVE  \/ /\ FirstOf(values, missing) = None
              /\ \A i \in DOMAIN values : values[i] \in missing
           \/ \E i \in DOMAIN values : /\ values[i] \notin missing
                                       /\ FirstOf(values, missing) = values[i]
<1> DEFINE present == {i \in DOMAIN values : values[i] \notin missing}
<1>1. CASE present = {}
      BY <1>1 DEF FirstOf
<1>2. CASE present # {}
  <2>1. \A S \in SUBSET (1..6) : S # {} => \E i \in S : \A j \in S : i <= j
    <3> SUFFICES ASSUME NEW S \in SUBSET (1..6), S # {}
                 PROVE  \E i \in S : \A j \in S : i <= j
        OBVIOUS
    <3>1. \A j \in S : j = 1 \/ j = 2 \/ j = 3 \/ j = 4 \/ j = 5 \/ j = 6
          OBVIOUS
    <3>2. 1 \in S \/ 2 \in S \/ 3 \in S \/ 4 \in S \/ 5 \in S \/ 6 \in S
          BY <3>1
    <3> QED BY <3>1, <3>2
  <2>2. \E i \in present : \A j \in present : i <= j
        BY <1>2, <2>1
  <2>3. Min(present) \in present
        BY <2>2 DEF Min
  <2>4. FirstOf(values, missing) = values[Min(present)]
        BY <1>2 DEF FirstOf
  <2> QED BY <2>3, <2>4
<1> QED BY <1>1, <1>2

\* An operation that names events is about the first one (extractEventId).
LEMMA OperationFirst ==
    ASSUME NEW source, extractEventId(source) # None, ToSet(Operation(source)) # {None}
    PROVE  extractEventId(source) \in ToSet(Operation(source))
<1> DEFINE values == Operation(source)
<1>1. DOMAIN values = 1..4
      BY DEF Operation
<1>2. ASSUME \A i \in DOMAIN values : values[i] \in {None}
      PROVE  ToSet(values) = {None}
      BY <1>1, <1>2 DEF ToSet
<1>3. PICK i \in DOMAIN values : values[i] # None /\ FirstOf(values, {None}) = values[i]
      BY <1>1, <1>2, FirstFound
<1>4. extractEventId(source) = values[i]
      BY <1>3 DEF extractEventId
<1> QED BY <1>3, <1>4 DEF ToSet

\* What a request is about and who sent it change with its arrival and by the
\* guards that authenticate it, and by no step of another request.
LEMMA StepKinds ==
    ASSUME ChainInv, [Next]_vars, NEW q \in Requests
    PROVE  \/ /\ UNCHANGED <<config, request[q], user[q]>>
              /\ outcome'[q] # outcome[q] => outcome[q] = Pending
              /\ pc'[q] = 0 <=> pc[q] = 0
              /\ \/ UNCHANGED resolvedEventId[q]
                 \/ pc[q] # 0 /\ resolvedEventId'[q] = extractEventId(request[q].source)
           \/ Arrive(q)
           \/ HeaderAuth(q) \/ CookieAuth(q)
<1>1. Shape /\ \A r \in Requests : pc[r] \in Nat
      BY DEF ChainInv, RequestInv
<1>2. CASE UNCHANGED <<config, request, pc, user, resolvedEventId, outcome>>
      BY <1>2
<1>3. ASSUME NEW r \in Requests, Arrive(r) \/ HeaderAuth(r) \/ CookieAuth(r), r # q
      PROVE  UNCHANGED <<config, request[q], pc[q], user[q], resolvedEventId[q], outcome[q]>>
  <2>1. \/ request' = request
        \/ \E a : request' = [request EXCEPT ![r] = a]
        BY <1>3 DEF Arrive, HeaderAuth, CookieAuth
  <2>2. \/ user' = user
        \/ \E principal : user' = [user EXCEPT ![r] = principal]
        BY <1>3 DEF Arrive, HeaderAuth, CookieAuth, Authenticate
  <2>3. /\ UNCHANGED <<config, resolvedEventId>>
        /\ Pass(r) \/ \E exception : Deny(r, exception)
        BY <1>3 DEF Arrive, HeaderAuth, CookieAuth, Authenticate
  <2> QED BY <1>1, <1>3, <2>1, <2>2, <2>3 DEF Shape, Pass, Deny
<1>4. ASSUME NEW r \in Requests, Advance(r), ~HeaderAuth(r), ~CookieAuth(r)
      PROVE  /\ UNCHANGED <<config, request, user>> /\ outcome[r] = Pending
             /\ Pass(r) \/ (\E exception : Deny(r, exception)) \/ UNCHANGED <<pc, outcome>>
             /\ \/ UNCHANGED resolvedEventId
                \/ /\ resolvedEventId' = [resolvedEventId EXCEPT ![r] =
                                            extractEventId(request[r].source)]
                   /\ pc[r] # 0
             /\ Pass(r) => pc[r] # 0
  <2>1. CASE Role(r) \/ ZeroTrust(r) \/ RateLimit(r)
    <3>1. PICK guard : At(r, guard)
          BY <2>1 DEF Role, ZeroTrust, RateLimit
    <3>2. pc[r] # 0 /\ outcome[r] = Pending
          BY <3>1, AtStarted DEF At
    <3> QED BY <2>1, <3>2 DEF Role, ZeroTrust, RateLimit
  <2>2. ASSUME NEW guard, NEW required, Ask(r, guard, required)
        PROVE  /\ UNCHANGED <<config, request, user>> /\ outcome[r] = Pending /\ pc[r] # 0
               /\ Pass(r) \/ (\E exception : Deny(r, exception)) \/ UNCHANGED <<pc, outcome>>
               /\ \/ UNCHANGED resolvedEventId
                  \/ resolvedEventId' = [resolvedEventId EXCEPT ![r] =
                                           extractEventId(request[r].source)]
    <3>1. pc[r] # 0 /\ outcome[r] = Pending
          BY <2>2, AtStarted DEF Ask, At
    <3> QED BY <2>2, <3>1 DEF Ask
  <2>3. ASSUME NEW guard, NEW reason, Hear(r, guard, reason)
        PROVE  /\ UNCHANGED <<config, request, user, resolvedEventId>>
               /\ outcome[r] = Pending /\ pc[r] # 0
               /\ Pass(r) \/ \E exception : Deny(r, exception)
    <3>1. pc[r] # 0 /\ outcome[r] = Pending
          BY <2>3, AtStarted DEF Hear, At
    <3> QED BY <2>3, <3>1 DEF Hear
  <2>4. CASE EventRole(r)
        BY <2>2, <2>3, <2>4 DEF EventRole
  <2>5. CASE EventPermission(r)
        BY <2>2, <2>3, <2>5 DEF EventPermission
  <2>6. ASSUME ResolverFails(r) \/ Handle(r)
        PROVE  /\ UNCHANGED <<config, request, user, resolvedEventId, pc>> /\ outcome[r] = Pending
               /\ \E exception : outcome' = [outcome EXCEPT ![r] = exception]
        BY <2>6 DEF ResolverFails, Handle, Deny
  <2>7. CASE ResolverFails(r) \/ Handle(r)
    <3>1. ~Pass(r)
          BY <1>1, <2>6, <2>7 DEF Pass, Shape
    <3>2. \E exception : Deny(r, exception)
          BY <2>6, <2>7 DEF Deny
    <3> QED BY <2>6, <2>7, <3>1, <3>2
  <2> QED BY <1>4, <2>1, <2>4, <2>5, <2>7 DEF Advance
<1>5. ASSUME NEW r \in Requests, Advance(r), ~HeaderAuth(r), ~CookieAuth(r)
      PROVE  /\ UNCHANGED <<config, request[q], user[q]>>
             /\ outcome'[q] # outcome[q] => outcome[q] = Pending
             /\ pc'[q] = 0 <=> pc[q] = 0
             /\ \/ UNCHANGED resolvedEventId[q]
                \/ pc[q] # 0 /\ resolvedEventId'[q] = extractEventId(request[q].source)
  <2>1. CASE r = q
        BY <1>1, <1>4, <1>5, <2>1 DEF Pass, Deny, Shape
  <2>2. CASE r # q
        BY <1>1, <1>4, <1>5, <2>2 DEF Pass, Deny, Shape
  <2> QED BY <2>1, <2>2
<1>6. CASE Change
      BY <1>2, <1>6 DEF Change
<1>7. CASE Tick
      BY <1>2, <1>7 DEF Tick
<1>8. CASE UNCHANGED vars
      BY <1>2, <1>8 DEF vars
<1>9. ASSUME NEW r \in Requests, Arrive(r) \/ Advance(r), r # q
      PROVE  /\ UNCHANGED <<config, request[q], user[q]>>
             /\ outcome'[q] # outcome[q] => outcome[q] = Pending
             /\ pc'[q] = 0 <=> pc[q] = 0
             /\ \/ UNCHANGED resolvedEventId[q]
                \/ pc[q] # 0 /\ resolvedEventId'[q] = extractEventId(request[q].source)
      BY <1>3, <1>5, <1>9
<1> QED BY <1>5, <1>6, <1>7, <1>8, <1>9 DEF Next


-----------------------------------------------------------------------------
\* The tokens a request carries.
Carried(r) == {request[r].with.bearer, request[r].with.cookie} \ {None}

\* What a request carries, and the user it got from it.
CarriedInv(r) ==
    /\ DOMAIN request[r].with = {"bearer", "cookie", "tenant"}
    /\ \A token \in Carried(r) : token.userId # None => token.userId # token.sub
    /\ user[r] # Nobody /\ outcome[r] \in {Pending, Handled} =>
          \E token \in Carried(r) :
             /\ user[r] = validate(token, config.tenantClaim, request[r].with.tenant)
             /\ user[r].type = "USER"

\* Nobody's user and no event are left on a request before it arrives; then they
\* are from what it carries itself.
IdentityInv ==
    \A r \in Requests :
        /\ pc[r] = 0 => user[r] = Nobody /\ resolvedEventId[r] = None
        /\ pc[r] # 0 => CarriedInv(r)
        /\ resolvedEventId[r] # None => resolvedEventId[r] = extractEventId(request[r].source)

\* No exception of an authenticating guard lets a request go on.
LEMMA TurnedAway ==
    /\ Unauthorized \notin {Pending, Handled} /\ UnauthorizedTenant \notin {Pending, Handled}
    /\ \A reason : InvalidCredentials(reason) \notin {Pending, Handled}
BY DEF Pending, Handled, Unauthorized, UnauthorizedTenant, InvalidCredentials, HttpException,
       Exception

\* AuthGuard('jwt') and CookieAuthGuard: a user out of a token of the request,
\* or an exception.
LEMMA AuthenticatedBy ==
    ASSUME ChainInv, NEW r \in Requests, CarriedInv(r), HeaderAuth(r) \/ CookieAuth(r)
    PROVE  /\ CarriedInv(r)' /\ pc[r] # 0 /\ pc'[r] # 0
           /\ UNCHANGED <<resolvedEventId, request[r].source>>
<1>1. /\ pc[r] # 0 /\ Arrived(r) /\ Shape /\ pc[r] \in Nat
      BY AtStarted DEF HeaderAuth, CookieAuth, ChainInv, RequestInv
<1>2. PICK token : /\ Authenticate(r, token)
                   /\ \/ /\ token = request[r].with.bearer
                         /\ UNCHANGED request
                      \/ /\ token = IF request[r].with.cookie # None THEN request[r].with.cookie
                                                                     ELSE request[r].with.bearer
                         /\ request' = [request EXCEPT ![r].with.bearer = token]
      BY DEF HeaderAuth, CookieAuth
<1>3. /\ UNCHANGED <<request[r].source, request[r].with.tenant, DOMAIN request[r].with>>
      /\ token # None => token \in Carried(r)'
      /\ Carried(r)' \subseteq Carried(r)
  <2>1. CASE UNCHANGED request
        BY <1>2, <2>1 DEF Carried
  <2>2. CASE /\ token = IF request[r].with.cookie # None THEN request[r].with.cookie
                                                         ELSE request[r].with.bearer
             /\ request' = [request EXCEPT ![r].with.bearer = token]
    <3>1. request'[r] = [request[r] EXCEPT !.with = [request[r].with EXCEPT !.bearer = token]]
          BY <1>1, <2>2 DEF Shape
    <3>2. /\ request'[r].source = request[r].source
          /\ request'[r].with = [request[r].with EXCEPT !.bearer = token]
          BY <1>1, <3>1 DEF Arrived
    <3>3. /\ request'[r].with.tenant = request[r].with.tenant
          /\ request'[r].with.cookie = request[r].with.cookie
          /\ request'[r].with.bearer = token
          /\ DOMAIN request'[r].with = DOMAIN request[r].with
          BY <3>2 DEF CarriedInv
    <3> QED BY <2>2, <3>2, <3>3 DEF Carried
  <2> QED BY <1>2, <2>1, <2>2
<1>4. UNCHANGED <<config, resolvedEventId>>
      BY <1>2 DEF Authenticate
<1>5. pc'[r] # 0
      BY <1>1, <1>2 DEF Authenticate, Pass, Deny, Shape
<1>6. \/ outcome'[r] \notin {Pending, Handled}
      \/ /\ token # None /\ user'[r].type = "USER"
         /\ user'[r] = validate(token, config.tenantClaim, request[r].with.tenant)
  <2> DEFINE principal == IF token = None THEN Nobody
                          ELSE validate(token, config.tenantClaim, request[r].with.tenant)
  <2>1. CASE principal.type = "USER"
    <3>1. user'[r] = principal
          BY <1>1, <1>2, <2>1 DEF Authenticate, Shape
    <3>2. token # None
          BY <2>1 DEF Nobody, NoPrincipal
    <3> QED BY <2>1, <3>1, <3>2
  <2>2. CASE principal.type # "USER"
    <3>1. PICK exception \in {Unauthorized, UnauthorizedTenant, InvalidCredentials(principal.type)} :
             outcome' = [outcome EXCEPT ![r] = exception]
          BY <1>2, <2>2 DEF Authenticate, Deny
    <3> QED BY <1>1, <3>1, TurnedAway DEF Shape
  <2> QED BY <2>1, <2>2
<1>7. CarriedInv(r)'
      BY <1>3, <1>4, <1>6 DEF CarriedInv
<1> QED BY <1>1, <1>3, <1>4, <1>5, <1>7

\* Whatever interleaves, the shared guards leave on a request what it carries.
THEOREM IdentityCorrect == Spec => []IdentityInv
<1>1. Init => IdentityInv
      BY DEF Init, IdentityInv
<1>2. ChainInv /\ IdentityInv /\ [Next]_vars => IdentityInv'
  <2> SUFFICES ASSUME ChainInv, IdentityInv, [Next]_vars, NEW r \in Requests
               PROVE  /\ pc'[r] = 0 => user'[r] = Nobody /\ resolvedEventId'[r] = None
                      /\ pc'[r] # 0 => CarriedInv(r)'
                      /\ resolvedEventId'[r] # None =>
                            resolvedEventId'[r] = extractEventId(request'[r].source)
      BY DEF IdentityInv
  <2>1. /\ pc[r] = 0 => user[r] = Nobody /\ resolvedEventId[r] = None
        /\ pc[r] # 0 => CarriedInv(r)
        /\ resolvedEventId[r] # None => resolvedEventId[r] = extractEventId(request[r].source)
        BY DEF IdentityInv
  <2>2. CASE /\ UNCHANGED <<config, request[r], user[r]>>
             /\ outcome'[r] # outcome[r] => outcome[r] = Pending
             /\ pc'[r] = 0 <=> pc[r] = 0
             /\ \/ UNCHANGED resolvedEventId[r]
                \/ pc[r] # 0 /\ resolvedEventId'[r] = extractEventId(request[r].source)
    <3>1. CarriedInv(r) => CarriedInv(r)'
          BY <2>2 DEF CarriedInv, Carried
    <3> QED BY <2>1, <2>2, <3>1
  <2>3. CASE Arrive(r)
    <3>1. PICK a \in Arrivals[config] : request' = [request EXCEPT ![r] = a]
          BY <2>3 DEF Arrive
    <3>2. /\ pc[r] = 0 /\ pc'[r] # 0 /\ request'[r] = a /\ config \in Configs
          /\ UNCHANGED <<config, user, resolvedEventId>>
          BY <2>3, <3>1 DEF Arrive, Pass, ChainInv, Shape
    <3>3. CarriedInv(r)'
          BY <2>1, <3>1, <3>2, ArrivalShape, SubjectAssumption DEF CarriedInv, Carried
    <3> QED BY <2>1, <3>2, <3>3
  <2>4. CASE HeaderAuth(r) \/ CookieAuth(r)
    <3>1. pc[r] # 0
          BY <2>4, AtStarted DEF HeaderAuth, CookieAuth
    <3> QED BY <2>1, <2>4, <3>1, AuthenticatedBy
  <2> QED BY <2>2, <2>3, <2>4, StepKinds
<1> QED BY <1>1, <1>2, ChainCorrect, PTL DEF Spec

\* The event a request is authorised for is one its operation names, if it
\* names any.
THEOREM EventOfOperation == Spec => []OperationNamesEvent
<1>1. IdentityInv => OperationNamesEvent
      BY OperationFirst DEF IdentityInv, OperationNamesEvent
<1> QED BY <1>1, IdentityCorrect, PTL

\* A user made of a token is what the token says (SecurityPrincipalResolver).
LEMMA UserOfToken ==
    ASSUME NEW token, NEW configured, NEW tenant, NEW principal,
           principal = validate(token, configured, tenant), principal.type = "USER"
    PROVE  /\ principal.userId = token.userId /\ principal.actorId = token.userId
           /\ token.userId # None
           /\ principal.roles = extractUserRoles(token)
           /\ principal.tenantId = resolveTenantClaim(token, configured, tenant)
           /\ ~TenantRefused(token, configured, tenant)
           /\ principal = [type |-> "USER", userId |-> token.userId, actorId |-> token.userId,
                           tenantId |-> resolveTenantClaim(token, configured, tenant),
                           roles |-> extractUserRoles(token)]
<1> DEFINE p == fromVerifiedJwt(token, extractUserRoles(token), configured, tenant, None)
<1>1. \A why : NoPrincipal(why).type = why
      BY DEF NoPrincipal
<1>2. principal = p
      BY <1>1 DEF validate
<1>3. CASE token.sub = None
  <2>1. p = NoPrincipal("undefined")
        BY <1>3 DEF fromVerifiedJwt
  <2> QED BY <1>1, <1>2, <2>1
<1>4. CASE token.sub # None /\ TenantRefused(token, configured, tenant)
  <2>1. p = NoPrincipal("unauthorizedTenant")
        BY <1>4 DEF fromVerifiedJwt
  <2> QED BY <1>1, <1>2, <2>1
<1>5. CASE token.sub # None /\ ~TenantRefused(token, configured, tenant)
  <2>1. CASE token.userId # None
    <3>1. p = [type |-> "USER", userId |-> token.userId, actorId |-> token.userId,
               tenantId |-> resolveTenantClaim(token, configured, tenant),
               roles |-> extractUserRoles(token)]
          BY <1>5, <2>1 DEF fromVerifiedJwt
    <3> QED BY <1>2, <1>5, <2>1, <3>1
  <2>2. CASE token.userId = None
    <3>1. p.type \in {"SERVICE", "undefined"}
          BY <1>1, <1>5, <2>2 DEF fromVerifiedJwt
    <3> QED BY <1>2, <3>1
  <2> QED BY <2>1, <2>2
<1> QED BY <1>3, <1>4, <1>5

\* req.user is what one of the request's own tokens says.
THEOREM PrincipalTrue == Spec => []PrincipalFaithful
<1>1. IdentityInv => PrincipalFaithful
  <2> SUFFICES ASSUME IdentityInv, NEW r \in Requests, user[r] # Nobody,
                      outcome[r] \in {Pending, Handled}
               PROVE  \E token \in Carried(r) :
                         /\ user[r].userId = token.userId
                         /\ user[r].actorId # token.sub
                         /\ user[r].tenantId \in {token.tenantId, token.configuredClaim}
                                                    \cup token.tenant_ids
                         /\ ~config.tenantClaim /\ token.tenant_ids # {} =>
                               user[r].tenantId = request[r].with.tenant
                         /\ user[r].roles \subseteq token.realmRoles \cup token.resourceRoles
                         /\ currentRole(r) \in user[r].roles \cup {None}
      BY DEF PrincipalFaithful, Carried
  <2>1. CarriedInv(r)
        BY DEF IdentityInv
  <2>2. PICK token \in Carried(r) :
           /\ user[r] = validate(token, config.tenantClaim, request[r].with.tenant)
           /\ user[r].type = "USER"
        BY <2>1 DEF CarriedInv
  <2>3. /\ user[r].userId = token.userId /\ user[r].actorId = token.userId
        /\ token.userId # None /\ user[r].roles = extractUserRoles(token)
        /\ user[r].tenantId =
              resolveTenantClaim(token, config.tenantClaim, request[r].with.tenant)
        /\ ~TenantRefused(token, config.tenantClaim, request[r].with.tenant)
        BY <2>2, UserOfToken
  <2>4. user[r].actorId # token.sub
        BY <2>1, <2>2, <2>3 DEF CarriedInv
  <2>5. /\ user[r].tenantId \in {token.tenantId, token.configuredClaim} \cup token.tenant_ids
        /\ ~config.tenantClaim /\ token.tenant_ids # {} =>
              user[r].tenantId = request[r].with.tenant
        BY <2>3 DEF resolveTenantClaim, TenantRefused
  <2>6. user[r].roles \subseteq token.realmRoles \cup token.resourceRoles
        BY <2>3 DEF extractUserRoles, filterRelevantRoles
  <2>7. currentRole(r) \in user[r].roles \cup {None}
    <3>1. DOMAIN Priority = 1..6
          BY DEF Priority
    <3>2. \A i \in DOMAIN Priority : Priority[i] \in ToSet(Priority)
          BY DEF ToSet
    <3> QED BY <3>1, <3>2, FirstFound DEF currentRole, resolvePrimaryRole
  <2> QED BY <2>2, <2>3, <2>4, <2>5, <2>6, <2>7
<1> QED BY <1>1, IdentityCorrect, PTL
=============================================================================
