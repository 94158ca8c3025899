----------------------- MODULE GuardChainReplyProofs -----------------------
(***************************************************************************)
(* More theorems of GuardChain, on the invariants of GuardChainProofs: the *)
(* sets every variable stays in, the rate limiter as the guards use it,    *)
(* whose budget it spares, and the truth of every reply that ends a        *)
(* request.  For any number of concurrent requests, any routes and options.*)
(***************************************************************************)
EXTENDS GuardChainProofs, FiniteSetTheorems

\* A step of one request leaves the others where they are.
LEMMA OthersStand ==
    ASSUME Shape, NEW r \in Requests, Arrive(r) \/ Advance(r), NEW q \in Requests \ {r}
    PROVE  Untouched(q)
<1>1. CASE Arrive(r)
      BY <1>1 DEF Arrive, Pass, Untouched, Shape
<1>2. ASSUME HeaderAuth(r) \/ CookieAuth(r) PROVE Untouched(q)
  <2>1. /\ request' = request \/ \E a : request' = [request EXCEPT ![r] = a]
        /\ user' = user \/ \E principal : user' = [user EXCEPT ![r] = principal]
        /\ UNCHANGED <<config, waiting, resolvedEventId>>
        /\ Pass(r) \/ \E exception : Deny(r, exception)
        BY <1>2 DEF HeaderAuth, CookieAuth, Authenticate
  <2> QED BY <2>1 DEF Pass, Deny, Untouched, Shape
<1>3. CASE Role(r) \/ ZeroTrust(r) \/ RateLimit(r)
  <2>1. /\ UNCHANGED <<config, request, user, waiting, resolvedEventId>>
        /\ Pass(r) \/ \E exception : Deny(r, exception)
        BY <1>3 DEF Role, ZeroTrust, RateLimit
  <2> QED BY <2>1 DEF Pass, Deny, Untouched, Shape
<1>4. ASSUME NEW guard, NEW required, Ask(r, guard, required)
      PROVE  Untouched(q)
  <2>1. /\ UNCHANGED <<config, request, user>>
        /\ \/ /\ Pass(r) \/ \E exception : Deny(r, exception)
              /\ UNCHANGED <<waiting, resolvedEventId>>
           \/ /\ \E id : resolvedEventId' = [resolvedEventId EXCEPT ![r] = id]
              /\ waiting' = [waiting EXCEPT ![r] = TRUE]
              /\ UNCHANGED <<pc, outcome>>
        BY <1>4 DEF Ask
  <2> QED BY <2>1 DEF Pass, Deny, Untouched, Shape
<1>5. ASSUME NEW guard, NEW reason, Hear(r, guard, reason)
      PROVE  Untouched(q)
      BY <1>5 DEF Hear, Pass, Deny, Untouched, Shape
<1>6. CASE ResolverFails(r) \/ Handle(r)
      BY <1>6 DEF ResolverFails, Handle, Deny, Untouched, Shape
<1> QED BY <1>1, <1>2, <1>3, <1>4, <1>5, <1>6 DEF Advance, EventRole, EventPermission

\* The histories only grow.
Grown ==
    /\ charged \subseteq charged'
    /\ \A q \in Requests : /\ roleSeen[q] \subseteq roleSeen'[q]
                           /\ permissionsSeen[q] \subseteq permissionsSeen'[q]

\* What was counted or seen once stays so, whatever the step.
LEMMA HistoryGrows == ASSUME [Next]_vars PROVE Grown
<1>1. ASSUME Observe, UNCHANGED charged PROVE Grown
      BY <1>1 DEF Observe, Grown
<1>2. ASSUME UNCHANGED <<charged, roleSeen, permissionsSeen>> PROVE Grown
      BY <1>2 DEF Grown
<1>3. ASSUME NEW r \in Requests, RateLimit(r) PROVE Grown
      BY <1>3 DEF RateLimit, Grown, history
<1>4. ASSUME NEW r \in Requests, NEW guard, NEW required, Ask(r, guard, required)
      PROVE  Grown
      BY <1>1, <1>4 DEF Ask
<1>5. ASSUME NEW r \in Requests, NEW guard, NEW reason, Hear(r, guard, reason)
      PROVE  Grown
      BY <1>2, <1>5 DEF Hear, history
<1>6. ASSUME NEW r \in Requests, Arrive(r) \/ Advance(r), ~RateLimit(r)
      PROVE  Grown
      BY <1>2, <1>4, <1>5, <1>6
         DEF Arrive, Advance, HeaderAuth, CookieAuth, Authenticate, Role, ZeroTrust, EventRole,
             EventPermission, ResolverFails, Handle, history
<1>7. CASE Change
      BY <1>1, <1>7 DEF Change
<1>8. CASE Tick \/ UNCHANGED vars
      BY <1>2, <1>8 DEF Tick, vars, history
<1> QED BY <1>3, <1>6, <1>7, <1>8 DEF Next
-----------------------------------------------------------------------------
(***************************************************************************)
(* Types.                                                                  *)
(***************************************************************************)

Replies ==
    {reply \in [status : {0, 200, 401, 403, 429, 500}, code : Codes, reason : Reasons] :
        reply \in {Pending, Handled} <=> reply.status \in {0, 200}}

\* Every exception of src/errors is a reply, and no other is pending or handled.
LEMMA RepliesTyped ==
    /\ {Pending, Handled, Forbidden, Unauthorized, InternalServerError, UnauthorizedTenant,
        RateLimitExceeded, AccessBlocked} \subseteq Replies
    /\ \A reason \in Reasons :
          {InvalidCredentials(reason), ForbiddenOperation(reason), EventAccessDenied(reason),
           StepUpRequired(reason)} \subseteq Replies
<1>1. \A status \in {0, 200, 401, 403, 429, 500}, code \in Codes, reason \in Reasons :
         (status = 0 \/ status = 200 => code = "none" /\ reason = "none") =>
             Exception(status, code, reason) \in Replies
      BY DEF Replies, Exception, Pending, Handled, HttpException
<1>2. "none" \in Reasons /\ Codes = {"none", "INVALID_CREDENTIALS", "UNAUTHORIZED_TENANT",
         "FORBIDDEN", "ACCESS_BLOCKED", "STEP_UP_REQUIRED", "RATE_LIMIT_EXCEEDED",
         "EVENT_ACCESS_DENIED"}
      BY DEF Reasons, Codes
<1> QED BY <1>1, <1>2
        DEF Pending, Handled, Forbidden, Unauthorized, InternalServerError, UnauthorizedTenant,
            RateLimitExceeded, AccessBlocked, InvalidCredentials, ForbiddenOperation,
            EventAccessDenied, StepUpRequired, HttpException

\* The request a is, once the cookie's token may have gone before the header's.
Versions(a) == {a, [a EXCEPT !.with.bearer = a.with.cookie]}

\* Where a request stands.
PlaceTyped(r) ==
    /\ pc[r] # 0 => \E a \in Arrivals[config] : request[r] \in Versions(a)
    /\ pc[r] \in 0..(Len(Chain(r)) + 1)
    /\ outcome[r] \in Replies

\* What the cookie guard does to a request leaves it one of the versions.
LEMMA VersionsKept ==
    ASSUME config \in Configs, NEW a \in Arrivals[config], NEW x \in Versions(a)
    PROVE  /\ x.route = a.route /\ x.source = a.source /\ x.client = a.client
           /\ x.with.tenant = a.with.tenant /\ x.with.cookie = a.with.cookie
           /\ {x.with.bearer, x.with.cookie} \subseteq {a.with.bearer, a.with.cookie}
           /\ LET token == IF x.with.cookie # None THEN x.with.cookie ELSE x.with.bearer
              IN  [x EXCEPT !.with.bearer = token] \in Versions(a)
<1>1. a = Request(a.route, a.with.bearer, a.with.cookie, a.with.tenant, a.source, a.client)
      BY ArrivalsAssumption
<1>2. \A route, bearer, cookie, tenant, source, client, token :
         LET q == Request(route, bearer, cookie, tenant, source, client)
         IN  /\ [q EXCEPT !.with.bearer = token]
                  = Request(route, token, cookie, tenant, source, client)
             /\ q.route = route /\ q.source = source /\ q.client = client
             /\ q.with.tenant = tenant /\ q.with.cookie = cookie /\ q.with.bearer = bearer
      BY DEF Request
<1>3. x \in {a, Request(a.route, a.with.cookie, a.with.cookie, a.with.tenant, a.source, a.client)}
      BY <1>1, <1>2 DEF Versions
<1>4. /\ x.route = a.route /\ x.source = a.source /\ x.client = a.client
      /\ x.with.tenant = a.with.tenant /\ x.with.cookie = a.with.cookie
      /\ x.with.bearer \in {a.with.bearer, a.with.cookie}
      BY <1>2, <1>3
<1>5. \A token : [x EXCEPT !.with.bearer = token] =
                     Request(a.route, token, a.with.cookie, a.with.tenant, a.source, a.client)
      BY <1>1, <1>2, <1>3
<1>6. Request(a.route, a.with.cookie, a.with.cookie, a.with.tenant, a.source, a.client)
         \in Versions(a)
      BY <1>1, <1>2 DEF Versions
<1>7. [x EXCEPT !.with.bearer = x.with.bearer] = x
      BY <1>1, <1>2, <1>3
<1> QED BY <1>4, <1>5, <1>6, <1>7 DEF Versions

\* What a request that has arrived is made of is what one of the arrivals is.
LEMMA MadeOf ==
    ASSUME ChainInv, NEW r \in Requests, PlaceTyped(r), pc[r] # 0
    PROVE  \E a \in Arrivals[config] :
              /\ request[r] \in Versions(a)
              /\ request[r].route = a.route /\ request[r].source = a.source
              /\ request[r].client = a.client /\ request[r].with.tenant = a.with.tenant
              /\ {request[r].with.bearer, request[r].with.cookie}
                    \subseteq {a.with.bearer, a.with.cookie}
<1>1. config \in Configs
      BY DEF ChainInv, Shape
<1>2. PICK a \in Arrivals[config] : request[r] \in Versions(a)
      BY DEF PlaceTyped
<1> QED BY <1>1, <1>2, VersionsKept

\* A chain is as long as the global guards and the route's together, within MaxChain.
LEMMA ChainBound ==
    ASSUME ChainInv, NEW r \in Requests, PlaceTyped(r), pc[r] # 0
    PROVE  Len(Chain(r)) \in Nat /\ Len(Chain(r)) <= MaxChain
<1>1. PICK a \in Arrivals[config] : request[r].route = a.route
      BY MadeOf
<1>2. a.route.guards \in Seq(Guards) /\ Len(a.route.guards) + 4 <= MaxChain
      BY ArrivalsAssumption DEF ChainInv, Shape, Guards, AuthGuards, EventGuards
<1>3. GlobalGuards \in Seq(Guards) /\ Len(GlobalGuards) <= 4
  <2>1. GlobalGuards \in Seq(Guards)
        BY GlobalGuardsFirst
  <2>2. Len(<<"HeaderAuth", "Role", "ZeroTrust">>) = 3 /\ Len(<<"RateLimit">>) = 1
        OBVIOUS
  <2>3. /\ <<"HeaderAuth", "Role", "ZeroTrust">> \in Seq(Guards)
        /\ <<"RateLimit">> \in Seq(Guards) /\ <<>> \in Seq(Guards) /\ Len(<<>>) = 0
        BY DEF Guards, AuthGuards
  <2>4. \A A, B \in Seq(Guards) : Len(A \o B) = Len(A) + Len(B)
        OBVIOUS
  <2> DEFINE A == IF config.globalGuards THEN <<"HeaderAuth", "Role", "ZeroTrust">> ELSE <<>>
             B == IF config.rateLimit THEN <<"RateLimit">> ELSE <<>>
  <2>5. A \in Seq(Guards) /\ Len(A) <= 3 /\ B \in Seq(Guards) /\ Len(B) <= 1
        BY <2>2, <2>3
  <2>6. GlobalGuards = A \o B
        BY DEF GlobalGuards
  <2> HIDE DEF A, B
  <2>7. Len(GlobalGuards) = Len(A) + Len(B) /\ Len(A) \in Nat /\ Len(B) \in Nat
        BY <2>4, <2>5, <2>6
  <2> QED BY <2>1, <2>5, <2>7
<1>4. Chain(r) = GlobalGuards \o a.route.guards
      BY <1>1 DEF Chain
<1> QED BY <1>2, <1>3, <1>4, BoundsAssumption

\* A step elsewhere, or to the next guard or a reply, leaves a request typed.
LEMMA PlaceKept ==
    ASSUME NEW q \in Requests, PlaceTyped(q), Untouched(q)
    PROVE  PlaceTyped(q)'
BY DEF PlaceTyped, Untouched, Chain, GlobalGuards, Versions

\* A guard's answer takes a request one place on or gives it a reply, and at most
\* puts its own cookie's token into its header.
LEMMA PlaceMoved ==
    ASSUME ChainInv, NEW r \in Requests, PlaceTyped(r), NEW guard, At(r, guard),
           UNCHANGED config,
           \/ UNCHANGED request
           \/ request' = [request EXCEPT ![r].with.bearer =
                            IF request[r].with.cookie # None THEN request[r].with.cookie
                                                             ELSE request[r].with.bearer],
           \/ Pass(r)
           \/ \E reply \in Replies : Deny(r, reply)
           \/ UNCHANGED <<pc, outcome>>
    PROVE  PlaceTyped(r)'
<1>1. /\ pc[r] # 0 /\ pc[r] \in DOMAIN Chain(r) /\ Shape
      /\ DOMAIN Chain(r) = 1..Len(Chain(r)) /\ Len(Chain(r)) \in Nat
      BY AtStarted, ChainBound, ChainOrder DEF At, ChainInv, Shape
<1>2. PICK a \in Arrivals[config] : request[r] \in Versions(a)
      BY <1>1, MadeOf
<1>3. request'[r] \in Versions(a) /\ request'[r].route = request[r].route
  <2>1. CASE UNCHANGED request
        BY <1>2, <2>1
  <2>2. CASE request' = [request EXCEPT ![r].with.bearer =
                            IF request[r].with.cookie # None THEN request[r].with.cookie
                                                             ELSE request[r].with.bearer]
    <3> DEFINE token == IF request[r].with.cookie # None THEN request[r].with.cookie
                                                          ELSE request[r].with.bearer
    <3>1. request'[r] = [request[r] EXCEPT !.with = [request[r].with EXCEPT !.bearer = token]]
          BY <1>1, <2>2 DEF Shape
    <3>2. request'[r] = [request[r] EXCEPT !.with.bearer = token]
          BY <3>1
    <3>3. config \in Configs
          BY <1>1 DEF Shape
    <3>4. request'[r] \in Versions(a)
          BY <1>2, <3>2, <3>3, VersionsKept
    <3>5. request'[r].route = a.route /\ request[r].route = a.route
          BY <1>2, <3>3, <3>4, VersionsKept
    <3> QED BY <3>4, <3>5
  <2> QED BY <2>1, <2>2
<1>4. Chain(r)' = Chain(r)
      BY <1>3 DEF Chain, GlobalGuards
<1>5. pc'[r] \in {pc[r], pc[r] + 1} /\ outcome'[r] \in Replies
      BY <1>1 DEF Pass, Deny, Shape, PlaceTyped
<1> QED BY <1>1, <1>2, <1>3, <1>4, <1>5 DEF PlaceTyped, Versions

\* The event a request is about is one of those it names (extract-event-id.util.ts).
LEMMA EventNamed ==
    ASSUME NEW source
    PROVE  /\ extractEventId(source) # None =>
                 /\ extractEventId(source) \in ToSet(Operation(source))
                                                  \cup {source.header, source.cookie}
                 /\ extractEventId(source) # EmptyId
           /\ extractEventId(source) = None =>
                 \/ EmptyId \in ToSet(Operation(source))
                 \/ ToSet(Operation(source)) \cup {source.header, source.cookie}
                        \subseteq {None, EmptyId}
<1> DEFINE operation == FirstOf(Operation(source), {None})
           ahead     == <<source.header, source.cookie>>
           context   == FirstOf(ahead, {None, EmptyId})
<1>1. /\ DOMAIN Operation(source) = 1..4 /\ DOMAIN ahead = 1..2
      /\ ahead[1] = source.header /\ ahead[2] = source.cookie
      BY DEF Operation
<1> HIDE DEF ahead
<1>2. \/ operation = None /\ \A x \in ToSet(Operation(source)) : x = None
      \/ operation # None /\ operation \in ToSet(Operation(source))
  <2>1. DOMAIN Operation(source) \subseteq 1..6
        BY <1>1
  <2> QED BY <2>1, FirstFound DEF ToSet
<1>3. \/ context = None /\ {source.header, source.cookie} \subseteq {None, EmptyId}
      \/ context \notin {None, EmptyId} /\ context \in {source.header, source.cookie}
  <2>1. DOMAIN ahead \subseteq 1..6
        BY <1>1
  <2>2. \/ context = None /\ \A i \in 1..2 : ahead[i] \in {None, EmptyId}
        \/ \E i \in 1..2 : ahead[i] \notin {None, EmptyId} /\ context = ahead[i]
        BY <1>1, <2>1, FirstFound
  <2>3. \A i \in 1..2 : i = 1 \/ i = 2
        OBVIOUS
  <2> QED BY <1>1, <2>2, <2>3
<1>4. extractEventId(source) = IF operation = None THEN context
                               ELSE IF operation = EmptyId THEN None ELSE operation
      BY DEF extractEventId, ahead
<1> HIDE DEF operation, context
<1> QED BY <1>2, <1>3, <1>4

\* A user out of one of the tokens that may arrive is a principal, whatever
\* tenant the request asks for (jwt.strategy.ts, validate).
LEMMA UserTyped ==
    ASSUME config \in Configs, NEW a \in Arrivals[config],
           NEW token \in {a.with.bearer, a.with.cookie} \ {None}, NEW tenant, NEW principal,
           principal = validate(token, config.tenantClaim, tenant), principal.type = "USER"
    PROVE  principal \in Principals /\ principal.userId \in Users
<1>1. /\ principal = [type |-> "USER", userId |-> token.userId, actorId |-> token.userId,
                      tenantId |-> resolveTenantClaim(token, config.tenantClaim, tenant),
                      roles |-> extractUserRoles(token)]
      /\ token.userId # None /\ ~TenantRefused(token, config.tenantClaim, tenant)
      BY UserOfToken
<1>2. /\ token.userId \in Users
      /\ {token.tenantId, token.configuredClaim} \subseteq Tenants \cup {None}
      /\ token.tenant_ids \subseteq Tenants
      BY <1>1, NamesAssumption
<1>3. resolveTenantClaim(token, config.tenantClaim, tenant) \in Tenants \cup {None}
      BY <1>1, <1>2 DEF resolveTenantClaim, TenantRefused
<1>4. extractUserRoles(token) \subseteq RealmRoles
      BY DEF extractUserRoles, filterRelevantRoles
<1> QED BY <1>1, <1>2, <1>3, <1>4 DEF Principals

\* What validate answers, by its type.
LEMMA Validated ==
    ASSUME NEW token, NEW configured, NEW tenant, NEW principal,
           principal = validate(token, configured, tenant)
    PROVE  \/ principal.type = "USER"
           \/ /\ principal = NoPrincipal("unauthorizedTenant")
              /\ TenantRefused(token, configured, tenant)
           \/ /\ principal \in {NoPrincipal("missing_subject"), NoPrincipal("missing_user_claim")}
              /\ None \in {token.sub, token.userId}
<1> DEFINE p == fromVerifiedJwt(token, extractUserRoles(token), configured, tenant, None)
<1>1. \A why : NoPrincipal(why).type = why
      BY DEF NoPrincipal
<1>2. CASE token.sub = None
  <2>1. p = NoPrincipal("undefined")
        BY <1>2 DEF fromVerifiedJwt
  <2>2. principal = NoPrincipal("missing_subject")
        BY <1>1, <2>1 DEF validate
  <2> QED BY <1>2, <2>2
<1>3. CASE token.sub # None /\ TenantRefused(token, configured, tenant)
  <2>1. p = NoPrincipal("unauthorizedTenant")
        BY <1>3 DEF fromVerifiedJwt
  <2>2. principal = p
        BY <1>1, <2>1 DEF validate
  <2> QED BY <1>3, <2>1, <2>2
<1>4. CASE token.sub # None /\ ~TenantRefused(token, configured, tenant) /\ token.userId # None
  <2>1. p.type = "USER"
        BY <1>4 DEF fromVerifiedJwt
  <2>2. principal = p
        BY <2>1 DEF validate
  <2> QED BY <2>1, <2>2
<1>5. CASE token.sub # None /\ ~TenantRefused(token, configured, tenant) /\ token.userId = None
  <2>1. p.type \in {"SERVICE", "undefined"}
        BY <1>1, <1>5 DEF fromVerifiedJwt
  <2>2. principal \in {NoPrincipal("missing_subject"), NoPrincipal("missing_user_claim")}
        BY <2>1 DEF validate
  <2> QED BY <1>5, <2>2
<1> QED BY <1>2, <1>3, <1>4, <1>5

LimiterTyped ==
    /\ open    \in [Clients -> BOOLEAN]
    /\ taken   \in [Clients -> 0..Limit]
    /\ since   \in [Clients -> 0..Window]
    /\ verdict \in [Countings -> {"none", "granted", "refused"}]

\* Whatever the limiter does, its windows and verdicts stay in their sets.
LEMMA LimiterStays ==
    ASSUME LimiterTyped, Limiter!Next
    PROVE  LimiterTyped'
<1>1. CASE Limiter!Pass
  <2>1. PICK closed :
           /\ open'  = [c \in Clients |-> open[c] /\ c \notin closed]
           /\ taken' = [c \in Clients |-> IF c \in closed THEN 0 ELSE taken[c]]
           /\ since' = [c \in Clients |->
                          IF ~open[c] \/ c \in closed THEN 0
                          ELSE IF since[c] < Window THEN since[c] + 1 ELSE Window]
           /\ UNCHANGED verdict
        BY <1>1 DEF Limiter!Pass
  <2>2. open' \in [Clients -> BOOLEAN]
        BY <2>1
  <2>3. taken' \in [Clients -> 0..Limit] /\ since' \in [Clients -> 0..Window]
        BY <2>1, BoundsAssumption DEF LimiterTyped
  <2> QED BY <2>1, <2>2, <2>3 DEF LimiterTyped
<1>2. ASSUME NEW c \in Clients, Limiter!Open(c)
      PROVE  open' \in [Clients -> BOOLEAN] /\ UNCHANGED since
      BY <1>2 DEF Limiter!Open, LimiterTyped
<1>3. ASSUME NEW c \in Clients, Limiter!Take(c) \/ Limiter!Full(c)
      PROVE  taken' \in [Clients -> 0..Limit]
      BY <1>3, BoundsAssumption DEF Limiter!Take, Limiter!Full, LimiterTyped
<1>4. ASSUME NEW k \in Countings, NEW v \in {"granted", "refused"}, Limiter!Decide(k, v)
      PROVE  verdict' \in [Countings -> {"none", "granted", "refused"}]
      BY <1>4 DEF Limiter!Decide, LimiterTyped
<1>5. ASSUME NEW c \in Clients, Limiter!Lose(c)
      PROVE  LimiterTyped'
      BY <1>2, <1>3, <1>5 DEF Limiter!Lose, LimiterTyped
<1>6. ASSUME NEW c \in Clients, NEW k \in Countings, Limiter!Grant(k, c) \/ Limiter!Refuse(k, c)
      PROVE  LimiterTyped'
      BY <1>2, <1>3, <1>4, <1>6 DEF Limiter!Grant, Limiter!Refuse, LimiterTyped
<1> QED BY <1>1, <1>5, <1>6 DEF Limiter!Next
-----------------------------------------------------------------------------
\* How a guard that authenticates answers: the token it looks at, and a user
\* made of it or the reason why there is none.
LEMMA AuthAnswers ==
    ASSUME NEW r \in Requests, HeaderAuth(r) \/ CookieAuth(r)
    PROVE  \E token :
              /\ \/ token = request[r].with.bearer /\ UNCHANGED request
                 \/ /\ token = IF request[r].with.cookie # None THEN request[r].with.cookie
                                                                ELSE request[r].with.bearer
                    /\ request' = [request EXCEPT ![r].with.bearer = token]
              /\ UNCHANGED <<config, waiting, resolvedEventId, access, limiter, history>>
              /\ \/ /\ token # None /\ Pass(r)
                    /\ \E principal :
                          /\ principal = validate(token, config.tenantClaim, request[r].with.tenant)
                          /\ principal.type = "USER"
                          /\ user' = [user EXCEPT ![r] = principal]
                 \/ token = None /\ Deny(r, Unauthorized) /\ UNCHANGED user
                 \/ /\ token # None /\ Deny(r, UnauthorizedTenant) /\ UNCHANGED user
                    /\ TenantRefused(token, config.tenantClaim, request[r].with.tenant)
                 \/ /\ token # None /\ None \in {token.sub, token.userId} /\ UNCHANGED user
                    /\ \E reason \in {"missing_subject", "missing_user_claim"} :
                          Deny(r, InvalidCredentials(reason))
<1>1. PICK token :
         /\ Authenticate(r, token)
         /\ \/ token = request[r].with.bearer /\ UNCHANGED request
            \/ /\ token = IF request[r].with.cookie # None THEN request[r].with.cookie
                                                           ELSE request[r].with.bearer
               /\ request' = [request EXCEPT ![r].with.bearer = token]
      BY DEF HeaderAuth, CookieAuth
<1> DEFINE answer    == validate(token, config.tenantClaim, request[r].with.tenant)
           principal == IF token = None THEN Nobody ELSE answer
           reply     == CASE principal = Nobody -> Unauthorized
                          [] principal.type = "unauthorizedTenant" -> UnauthorizedTenant
                          [] OTHER -> InvalidCredentials(principal.type)
<1>2. /\ principal.type = "USER" => Pass(r) /\ user' = [user EXCEPT ![r] = principal]
      /\ principal.type # "USER" => Deny(r, reply) /\ UNCHANGED user
      /\ UNCHANGED <<config, waiting, resolvedEventId, access, limiter, history>>
      BY <1>1 DEF Authenticate
<1>3. \A why : NoPrincipal(why).type = why
      BY DEF NoPrincipal
<1>4. CASE token = None
  <2>1. principal = Nobody /\ principal.type # "USER" /\ reply = Unauthorized
        BY <1>3, <1>4 DEF Nobody
  <2> QED BY <1>1, <1>2, <1>4, <2>1
<1>5. CASE token # None /\ answer.type = "USER"
      BY <1>1, <1>2, <1>5
<1>6. CASE /\ token # None /\ answer = NoPrincipal("unauthorizedTenant")
           /\ TenantRefused(token, config.tenantClaim, request[r].with.tenant)
  <2>1. principal.type = "unauthorizedTenant" /\ Nobody.type = "none"
        BY <1>3, <1>6 DEF Nobody
  <2>2. reply = UnauthorizedTenant
        BY <2>1
  <2> QED BY <1>1, <1>2, <1>6, <2>1, <2>2
<1>7. ASSUME NEW reason \in {"missing_subject", "missing_user_claim"},
             token # None, answer = NoPrincipal(reason), None \in {token.sub, token.userId}
      PROVE  /\ Deny(r, InvalidCredentials(reason)) /\ UNCHANGED user
  <2>1. principal.type = reason /\ Nobody.type = "none"
        BY <1>3, <1>7 DEF Nobody
  <2>2. reply = InvalidCredentials(reason)
        BY <2>1
  <2> QED BY <1>2, <2>1, <2>2
<1>8. token # None =>
         \/ answer.type = "USER"
         \/ /\ answer = NoPrincipal("unauthorizedTenant")
            /\ TenantRefused(token, config.tenantClaim, request[r].with.tenant)
         \/ /\ answer \in {NoPrincipal("missing_subject"), NoPrincipal("missing_user_claim")}
            /\ None \in {token.sub, token.userId}
      BY Validated
<1> HIDE DEF answer, principal, reply
<1> QED BY <1>1, <1>2, <1>4, <1>5, <1>6, <1>7, <1>8

\* The replies of the other guards, and the request that goes on.
LEMMA PlainAnswers ==
    ASSUME NEW r \in Requests, Role(r) \/ ZeroTrust(r) \/ RateLimit(r)
    PROVE  /\ \E guard \in {"Role", "ZeroTrust", "RateLimit"} : At(r, guard)
           /\ Pass(r) \/ \E reply \in Replies : Deny(r, reply)
           /\ UNCHANGED <<config, request, waiting, user, resolvedEventId, access,
                          roleSeen, permissionsSeen>>
<1>1. {"unauthenticated", "missing-role", "TOTP", "WEBAUTHN"} \subseteq Reasons
      BY DEF Reasons
<1>2. CASE Role(r)
      BY <1>1, <1>2, RepliesTyped DEF Role, history
<1>3. CASE ZeroTrust(r)
  <2>1. Decisions \cup {Forbidden} \subseteq Replies
        BY <1>1, RepliesTyped DEF Decisions
  <2> QED BY <1>3, <2>1 DEF ZeroTrust, history
<1>4. CASE RateLimit(r)
      BY <1>4, RepliesTyped DEF RateLimit
<1> QED BY <1>2, <1>3, <1>4
-----------------------------------------------------------------------------
WaitTyped(r) ==
    waiting[r] => user[r] # Nobody /\ extractEventId(request[r].source) # None

\* A request that waits asks about a user and an event.
LEMMA AskedTyped ==
    ASSUME ChainInv, IdentityInv, NEW r \in Requests, PlaceTyped(r), pc[r] # 0,
           outcome[r] = Pending,
           user[r] # Nobody, extractEventId(request[r].source) # None
    PROVE  Asked(r) \in Users \X Events
<1>1. config \in Configs
      BY DEF ChainInv, Shape
<1>2. PICK a \in Arrivals[config] :
         /\ request[r].source = a.source
         /\ {request[r].with.bearer, request[r].with.cookie} \subseteq {a.with.bearer, a.with.cookie}
      BY MadeOf
<1>3. user[r].userId \in Users
  <2>1. PICK token \in Carried(r) :
           /\ user[r] = validate(token, config.tenantClaim, request[r].with.tenant)
           /\ user[r].type = "USER"
        BY DEF IdentityInv, CarriedInv
  <2>2. token \in {a.with.bearer, a.with.cookie} \ {None}
        BY <1>2 DEF Carried
  <2> QED BY <1>1, <2>1, <2>2, UserTyped
<1>4. extractEventId(request[r].source) \in Events
  <2>1. ToSet(Operation(a.source)) \cup {a.source.header, a.source.cookie}
           \subseteq Events \cup {None, EmptyId}
        BY <1>1, NamesAssumption
  <2> QED BY <1>2, <2>1, EventNamed
<1> QED BY <1>3, <1>4 DEF Asked

AccessTyped ==
    /\ eventRole   \in [Users \X Events -> EventRoles \cup {None}]
    /\ permissions \in [Users \X Events -> SUBSET Permissions]

SeenTyped ==
    \A r \in Requests :
        /\ roleSeen[r]        \subseteq (Users \X Events) \X (EventRoles \cup {None})
        /\ permissionsSeen[r] \subseteq (Users \X Events) \X SUBSET Permissions

FieldsTyped ==
    /\ waiting \in [Requests -> BOOLEAN]
    /\ user    \in [Requests -> Principals]
    /\ resolvedEventId \in [Requests -> Events \cup {None}]

\* TypeOK, and of a request that waits whom and what it asks about: without
\* that, the answers it sees have no type.
TypeInv ==
    /\ config \in Configs
    /\ \A r \in Requests : PlaceTyped(r) /\ WaitTyped(r)
    /\ FieldsTyped /\ LimiterTyped /\ AccessTyped /\ SeenTyped
    /\ charged \subseteq Countings

\* An application starts with an idle limiter and without requests.
LEMMA TypeInvInit == Init => TypeInv
<1> SUFFICES ASSUME Init PROVE TypeInv
    OBVIOUS
<1>1. ASSUME NEW r \in Requests PROVE PlaceTyped(r) /\ WaitTyped(r)
  <2>1. pc[r] = 0 /\ ~waiting[r] /\ outcome[r] = Pending /\ request[r].route = NoRoute
        BY <1>1 DEF Init
  <2>2. Len(Chain(r)) \in Nat
        BY <2>1, ChainOrder DEF Init
  <2> QED BY <2>1, <2>2, RepliesTyped DEF PlaceTyped, WaitTyped
<1>2. FieldsTyped
  <2>1. Nobody \in Principals
        BY DEF Nobody, NoPrincipal, Principals
  <2> QED BY <2>1 DEF Init, FieldsTyped
<1>3. LimiterTyped
      BY BoundsAssumption DEF Init, Limiter!Init, LimiterTyped
<1>4. AccessTyped /\ SeenTyped
      BY DEF Init, AccessTyped, SeenTyped
<1> QED BY <1>1, <1>2, <1>3, <1>4 DEF TypeInv, Init

\* What the guards see of the projections has a type if all that wait ask about
\* a user and an event.
LEMMA ObserveTyped ==
    ASSUME SeenTyped, AccessTyped', Observe,
           \A r \in Requests : waiting'[r] => Asked(r)' \in Users \X Events
    PROVE  SeenTyped'
<1> SUFFICES ASSUME NEW r \in Requests
             PROVE  /\ roleSeen'[r] \subseteq (Users \X Events) \X (EventRoles \cup {None})
                    /\ permissionsSeen'[r] \subseteq (Users \X Events) \X SUBSET Permissions
    BY DEF SeenTyped
<1>1. /\ roleSeen'[r] = roleSeen[r] \cup Seen(r, "EventRole", eventRole)'
      /\ permissionsSeen'[r] = permissionsSeen[r] \cup Seen(r, "EventPermission", permissions)'
      BY DEF Observe
<1>2. Seen(r, "EventRole", eventRole)' \subseteq (Users \X Events) \X (EventRoles \cup {None})
      BY DEF Seen, AccessTyped
<1>3. Seen(r, "EventPermission", permissions)' \subseteq (Users \X Events) \X SUBSET Permissions
      BY DEF Seen, AccessTyped
<1> QED BY <1>1, <1>2, <1>3 DEF SeenTyped

\* The invariants so far.
Known == ChainInv /\ IdentityInv /\ TypeInv

\* A request at a guard, and one that waits at one.
LEMMA Standing ==
    ASSUME Known, NEW r \in Requests
    PROVE  /\ pc[r] = 0 => ~waiting[r]
           /\ waiting[r] => /\ pc[r] # 0 /\ outcome[r] = Pending
                            /\ \E guard \in EventGuards : At(r, guard)
                            /\ Asked(r) \in Users \X Events
<1>1. 0 \notin DOMAIN Chain(r)
      BY ChainOrder DEF Known, ChainInv, RequestInv, Shape
<1>2. waiting[r] => /\ pc[r] # 0 /\ outcome[r] = Pending /\ \E guard \in EventGuards : At(r, guard)
      BY <1>1 DEF Known, ChainInv, RequestInv, WaitInv, At
<1> QED BY <1>1, <1>2, AskedTyped DEF Known, TypeInv, WaitTyped

\* A new request.
LEMMA ArriveTyped ==
    ASSUME Known, NEW r \in Requests, Arrive(r)
    PROVE  PlaceTyped(r)' /\ WaitTyped(r)'
<1>1. pc[r] = 0 /\ Shape /\ outcome[r] \in Replies /\ ~waiting[r]
      BY Standing DEF Arrive, Known, ChainInv, TypeInv, PlaceTyped
<1>2. PICK a \in Arrivals[config] : request' = [request EXCEPT ![r] = a]
      BY DEF Arrive
<1>3. /\ request'[r] = a /\ pc'[r] = 1 /\ outcome'[r] = outcome[r] /\ config' = config
      /\ ~waiting'[r]
      BY <1>1, <1>2 DEF Arrive, Pass, Shape
<1>4. Len(Chain(r)') \in Nat
  <2>1. Chain(r)' = GlobalGuards \o a.route.guards
        BY <1>3 DEF Chain, GlobalGuards
  <2>2. GlobalGuards \in Seq(Guards) /\ a.route.guards \in Seq(Guards)
        BY <1>1, <1>2, ArrivalsAssumption, GlobalGuardsFirst
           DEF Shape, Guards, AuthGuards, EventGuards
  <2> QED BY <2>1, <2>2
<1> QED BY <1>1, <1>2, <1>3, <1>4 DEF PlaceTyped, Versions, WaitTyped

\* How an event guard answers before it asks, or asks.
LEMMA AskAnswers ==
    ASSUME NEW r \in Requests, NEW guard, NEW required, Ask(r, guard, required)
    PROVE  /\ At(r, guard) /\ ~waiting[r] /\ Observe
           /\ UNCHANGED <<config, request, user, access, limiter, charged>>
           /\ \/ Pass(r) /\ UNCHANGED <<waiting, resolvedEventId>>
              \/ /\ user[r] = Nobody /\ UNCHANGED <<waiting, resolvedEventId>>
                 /\ Deny(r, EventAccessDenied("unauthenticated"))
              \/ /\ extractEventId(request[r].source) = None
                 /\ UNCHANGED <<waiting, resolvedEventId>>
                 /\ Deny(r, EventAccessDenied("event-id-missing"))
              \/ /\ user[r] # Nobody /\ extractEventId(request[r].source) # None
                 /\ resolvedEventId' = [resolvedEventId EXCEPT ![r] =
                                          extractEventId(request[r].source)]
                 /\ waiting' = [waiting EXCEPT ![r] = TRUE]
                 /\ UNCHANGED <<pc, outcome>>
<1> DEFINE eventId == extractEventId(request[r].source)
<1>1. /\ At(r, guard) /\ ~waiting[r] /\ Observe
      /\ UNCHANGED <<config, request, user, access, limiter, charged>>
      BY DEF Ask
<1>2. CASE required = {}
      BY <1>1, <1>2 DEF Ask
<1>3. CASE required # {} /\ (user[r] = Nobody \/ eventId = None)
      BY <1>1, <1>3 DEF Ask
<1>4. CASE required # {} /\ user[r] # Nobody /\ eventId # None
      BY <1>1, <1>4 DEF Ask
<1> QED BY <1>2, <1>3, <1>4

\* What an event guard may hear, and what it tells then.
Answered(r, guard, reason) ==
    \/ reason = "none"
    \/ /\ reason = "event-role-not-found" /\ guard = "EventRole"
       /\ eventRole[Asked(r)] = None
    \/ /\ reason = "event-role-mismatch" /\ guard = "EventRole"
       /\ eventRole[Asked(r)] \notin request[r].route.eventRoles \cup {None}
    \/ /\ reason = "event-permission-mismatch" /\ guard = "EventPermission"
       /\ ~(request[r].route.permissions \subseteq permissions[Asked(r)])

\* Both event guards ask and hear in one way; what they answer is a reason that
\* the resolver's present answer bears out.
LEMMA EventAnswers ==
    ASSUME NEW r \in Requests, EventRole(r) \/ EventPermission(r)
    PROVE  \E guard \in EventGuards :
              \/ \E required : Ask(r, guard, required)
              \/ \E reason \in Reasons : Hear(r, guard, reason) /\ Answered(r, guard, reason)
<1>1. CASE EventRole(r)
  <2> DEFINE reason == CASE eventRole[Asked(r)] = None -> "event-role-not-found"
                         [] eventRole[Asked(r)] \in request[r].route.eventRoles -> "none"
                         [] OTHER -> "event-role-mismatch"
  <2>1. CASE Ask(r, "EventRole", request[r].route.eventRoles)
        BY <2>1 DEF EventGuards
  <2>2. CASE Hear(r, "EventRole", reason)
    <3>1. CASE eventRole[Asked(r)] = None
      <4>1. PICK why \in Reasons : why = "event-role-not-found"
            BY DEF Reasons
      <4>2. Hear(r, "EventRole", why) \/ eventRole[Asked(r)] \in request[r].route.eventRoles
            BY <2>2, <3>1, <4>1
      <4>3. CASE Hear(r, "EventRole", why)
            BY <3>1, <4>1, <4>3 DEF Answered, EventGuards
      <4>4. CASE ~Hear(r, "EventRole", why)
        <5>1. reason \in {"event-role-not-found", "none"}
              BY <3>1, <4>2, <4>4
        <5>2. Hear(r, "EventRole", "none") /\ "none" \in Reasons
              BY <2>2, <4>1, <4>4, <5>1 DEF Reasons
        <5> QED BY <5>2 DEF Answered, EventGuards
      <4> QED BY <4>3, <4>4
    <3>2. CASE /\ eventRole[Asked(r)] # None
               /\ eventRole[Asked(r)] \in request[r].route.eventRoles
      <4>1. Hear(r, "EventRole", "none") /\ "none" \in Reasons
            BY <2>2, <3>2 DEF Reasons
      <4> QED BY <4>1 DEF Answered, EventGuards
    <3>3. CASE eventRole[Asked(r)] \notin request[r].route.eventRoles \cup {None}
      <4>1. Hear(r, "EventRole", "event-role-mismatch") /\ "event-role-mismatch" \in Reasons
            BY <2>2, <3>3 DEF Reasons
      <4> QED BY <3>3, <4>1 DEF Answered, EventGuards
    <3> QED BY <3>1, <3>2, <3>3
  <2> QED BY <1>1, <2>1, <2>2 DEF EventRole
<1>2. CASE EventPermission(r)
  <2> DEFINE reason == IF hasEveryEventPermission(permissions[Asked(r)],
                                                  request[r].route.permissions)
                         THEN "none" ELSE "event-permission-mismatch"
  <2>1. reason \in Reasons /\ Answered(r, "EventPermission", reason)
        BY DEF Reasons, Answered, hasEveryEventPermission
  <2>2. \/ Ask(r, "EventPermission", request[r].route.permissions)
        \/ Hear(r, "EventPermission", reason)
        BY <1>2 DEF EventPermission
  <2> QED BY <2>1, <2>2 DEF EventGuards
<1> QED BY <1>1, <1>2

\* An event guard's step, with a reply that is typed.
LEMMA HearAnswers ==
    ASSUME NEW r \in Requests, NEW guard, NEW reason \in Reasons, Hear(r, guard, reason)
    PROVE  /\ At(r, guard) /\ waiting[r] /\ waiting' = [waiting EXCEPT ![r] = FALSE]
           /\ Pass(r) \/ \E reply \in Replies : Deny(r, reply)
           /\ UNCHANGED <<config, request, user, resolvedEventId, access, limiter, history>>
BY RepliesTyped DEF Hear

\* The request that steps, and the shared variables, stay typed.
LEMMA AuthTyped ==
    ASSUME Known, NEW r \in Requests, HeaderAuth(r) \/ CookieAuth(r)
    PROVE  /\ PlaceTyped(r)' /\ WaitTyped(r)' /\ FieldsTyped'
           /\ UNCHANGED <<config, access, limiter, history>>
<1>1. PICK token :
         /\ \/ token = request[r].with.bearer /\ UNCHANGED request
            \/ /\ token = IF request[r].with.cookie # None THEN request[r].with.cookie
                                                           ELSE request[r].with.bearer
               /\ request' = [request EXCEPT ![r].with.bearer = token]
         /\ UNCHANGED <<config, waiting, resolvedEventId, access, limiter, history>>
         /\ \/ /\ token # None /\ Pass(r)
               /\ \E principal :
                     /\ principal = validate(token, config.tenantClaim, request[r].with.tenant)
                     /\ principal.type = "USER"
                     /\ user' = [user EXCEPT ![r] = principal]
            \/ token = None /\ Deny(r, Unauthorized) /\ UNCHANGED user
            \/ token # None /\ Deny(r, UnauthorizedTenant) /\ UNCHANGED user
            \/ /\ token # None /\ UNCHANGED user
               /\ \E reason \in {"missing_subject", "missing_user_claim"} :
                     Deny(r, InvalidCredentials(reason))
      BY AuthAnswers
<1>2. PICK guard \in AuthGuards : At(r, guard)
      BY DEF HeaderAuth, CookieAuth, AuthGuards
<1>3. ChainInv /\ PlaceTyped(r) /\ config \in Configs /\ pc[r] # 0 /\ RequestInv(r)
      BY <1>2, AtStarted DEF Known, TypeInv, ChainInv
<1>4. PlaceTyped(r)'
  <2>1. \/ Pass(r)
        \/ \E reply \in Replies : Deny(r, reply)
    <3>1. {"missing_subject", "missing_user_claim"} \subseteq Reasons
          BY DEF Reasons
    <3> QED BY <1>1, <3>1, RepliesTyped
  <2> QED BY <1>1, <1>2, <1>3, <2>1, PlaceMoved
<1>5. ~waiting'[r]
      BY <1>1, <1>2, <1>3, NotWaiting DEF AuthGuards, EventGuards
<1>6. user' \in [Requests -> Principals]
  <2>1. PICK a \in Arrivals[config] :
           {request[r].with.bearer, request[r].with.cookie} \subseteq {a.with.bearer, a.with.cookie}
        BY <1>3, MadeOf
  <2>2. token # None => token \in {a.with.bearer, a.with.cookie} \ {None}
        BY <1>1, <2>1
  <2>3. ASSUME NEW principal, token # None, principal.type = "USER",
               principal = validate(token, config.tenantClaim, request[r].with.tenant)
        PROVE  principal \in Principals
        BY <1>3, <2>2, <2>3, UserTyped
  <2>4. user \in [Requests -> Principals]
        BY DEF Known, TypeInv, FieldsTyped
  <2> QED BY <1>1, <2>3, <2>4
<1> QED BY <1>1, <1>4, <1>5, <1>6 DEF WaitTyped, Known, TypeInv, FieldsTyped

\* The guards that ask nobody leave the request's user and event as they are.
LEMMA PlainTyped ==
    ASSUME Known, NEW r \in Requests, Role(r) \/ ZeroTrust(r) \/ RateLimit(r)
    PROVE  /\ PlaceTyped(r)' /\ WaitTyped(r)' /\ FieldsTyped'
           /\ UNCHANGED <<config, access, roleSeen, permissionsSeen>>
<1>1. PICK guard \in {"Role", "ZeroTrust", "RateLimit"} : At(r, guard)
      BY PlainAnswers
<1>2. /\ Pass(r) \/ \E reply \in Replies : Deny(r, reply)
      /\ UNCHANGED <<config, request, waiting, user, resolvedEventId, access,
                     roleSeen, permissionsSeen>>
      BY PlainAnswers
<1>3. PlaceTyped(r)'
      BY <1>1, <1>2, PlaceMoved DEF Known, TypeInv
<1>4. ~waiting[r]
      BY <1>1, NotWaiting DEF Known, ChainInv, EventGuards
<1> QED BY <1>2, <1>3, <1>4 DEF WaitTyped, Known, TypeInv, FieldsTyped

\* An event guard that asks leaves an event's id on the request, and what the
\* resolver might answer is about it.
LEMMA AskTyped ==
    ASSUME Known, NEW r \in Requests, NEW guard \in EventGuards, NEW required,
           Ask(r, guard, required)
    PROVE  /\ PlaceTyped(r)' /\ WaitTyped(r)' /\ FieldsTyped' /\ SeenTyped'
           /\ UNCHANGED <<config, access, limiter, charged>>
<1> DEFINE eventId == extractEventId(request[r].source)
<1>1. /\ At(r, guard) /\ ~waiting[r] /\ Observe
      /\ UNCHANGED <<config, request, user, access, limiter, charged>>
      BY AskAnswers
<1>2. ChainInv /\ IdentityInv /\ TypeInv /\ PlaceTyped(r) /\ pc[r] # 0 /\ outcome[r] = Pending
      BY <1>1, AtStarted DEF Known, TypeInv, At
<1>3. \/ /\ Pass(r) \/ \E reply \in Replies : Deny(r, reply)
         /\ UNCHANGED <<waiting, resolvedEventId>>
      \/ /\ user[r] # Nobody /\ eventId # None
         /\ resolvedEventId' = [resolvedEventId EXCEPT ![r] = eventId]
         /\ waiting' = [waiting EXCEPT ![r] = TRUE]
         /\ UNCHANGED <<pc, outcome>>
  <2>1. {"unauthenticated", "event-id-missing"} \subseteq Reasons
        BY DEF Reasons
  <2> QED BY <2>1, AskAnswers, RepliesTyped
<1>4. PlaceTyped(r)'
      BY <1>1, <1>2, <1>3, PlaceMoved
<1>5. WaitTyped(r)'
      BY <1>1, <1>3 DEF WaitTyped
<1>6. user[r] # Nobody /\ eventId # None => Asked(r) \in Users \X Events
      BY <1>2, AskedTyped
<1>7. FieldsTyped'
  <2>1. user[r] # Nobody /\ eventId # None => eventId \in Events
        BY <1>6 DEF Asked
  <2> QED BY <1>1, <1>2, <1>3, <2>1 DEF TypeInv, FieldsTyped
<1>8. ASSUME NEW q \in Requests, waiting'[q]
      PROVE  Asked(q)' \in Users \X Events
  <2>1. Asked(q)' = Asked(q)
        BY <1>1 DEF Asked
  <2>2. CASE waiting[q]
        BY <2>1, <2>2, Standing
  <2>3. CASE ~waiting[q]
    <3>1. q = r /\ user[r] # Nobody /\ eventId # None
          BY <1>2, <1>3, <1>8, <2>3 DEF TypeInv, FieldsTyped
    <3> QED BY <1>6, <2>1, <3>1
  <2> QED BY <2>2, <2>3
<1>9. SeenTyped'
      BY <1>1, <1>2, <1>8, ObserveTyped DEF TypeInv, AccessTyped, access
<1> QED BY <1>1, <1>4, <1>5, <1>7, <1>9

\* The answer ends the wait and nothing else.
LEMMA HearTyped ==
    ASSUME Known, NEW r \in Requests, NEW guard \in EventGuards, NEW reason \in Reasons,
           Hear(r, guard, reason)
    PROVE  /\ PlaceTyped(r)' /\ WaitTyped(r)' /\ FieldsTyped'
           /\ UNCHANGED <<config, access, limiter, history>>
<1>1. /\ At(r, guard) /\ waiting' = [waiting EXCEPT ![r] = FALSE]
      /\ Pass(r) \/ \E reply \in Replies : Deny(r, reply)
      /\ UNCHANGED <<config, request, user, resolvedEventId, access, limiter, history>>
      BY HearAnswers
<1>2. PlaceTyped(r)'
      BY <1>1, PlaceMoved DEF Known, TypeInv
<1> QED BY <1>1, <1>2 DEF WaitTyped, Known, TypeInv, FieldsTyped

\* So does a resolver that rejects; a handler's reply ends the request.
LEMMA EndTyped ==
    ASSUME Known, NEW r \in Requests, ResolverFails(r) \/ Handle(r)
    PROVE  /\ PlaceTyped(r)' /\ WaitTyped(r)' /\ FieldsTyped'
           /\ UNCHANGED <<config, access, limiter, history>>
<1>1. CASE ResolverFails(r)
  <2>1. /\ waiting[r] /\ waiting' = [waiting EXCEPT ![r] = FALSE]
        /\ \E reply \in Replies : Deny(r, reply)
        /\ UNCHANGED <<config, request, user, resolvedEventId, access, limiter, history>>
        BY <1>1, RepliesTyped DEF ResolverFails
  <2>2. PICK guard : At(r, guard)
        BY <2>1, Standing
  <2>3. PlaceTyped(r)'
        BY <2>1, <2>2, PlaceMoved DEF Known, TypeInv
  <2> QED BY <2>1, <2>3 DEF WaitTyped, Known, TypeInv, FieldsTyped
<1>2. CASE Handle(r)
  <2>1. /\ UNCHANGED <<config, request, pc, waiting, user, resolvedEventId,
                       access, limiter, history>>
        /\ outcome'[r] \in Replies
        BY <1>2, RepliesTyped DEF Handle, Known, ChainInv, Shape
  <2>2. PlaceTyped(r)'
        BY <2>1 DEF Known, TypeInv, PlaceTyped, Chain, GlobalGuards, Versions
  <2> QED BY <2>1, <2>2 DEF WaitTyped, Known, TypeInv, FieldsTyped
<1> QED BY <1>1, <1>2

\* Where the limiter counts a request.
LEMMA CountingTyped ==
    ASSUME Known, NEW r \in Requests, RateLimit(r)
    PROVE  <<r, pc[r]>> \in Countings /\ request[r].client \in Clients
<1>1. At(r, "RateLimit") /\ ChainInv /\ PlaceTyped(r)
      BY DEF RateLimit, Known, TypeInv
<1>2. pc[r] # 0
      BY <1>1, AtStarted
<1>3. pc[r] \in 1..MaxChain
      BY <1>1, <1>2, ChainBound, ChainOrder, AtStarted, BoundsAssumption
         DEF At, ChainInv, Shape
<1>4. request[r].client \in Clients
      BY <1>1, <1>2, MadeOf, NamesAssumption DEF ChainInv, Shape
<1> QED BY <1>3, <1>4 DEF Countings

\* Every step of the application is one the limiter's promise allows, or none
\* of the limiter's.
LEMMA LimiterSteps ==
    ASSUME Known, [Next]_vars
    PROVE  Limiter!Next \/ UNCHANGED limiter
<1>1. ASSUME NEW r \in Requests, RateLimit(r), ~UNCHANGED limiter
      PROVE  Limiter!Next
  <2> DEFINE c == request[r].client
             k == <<r, pc[r]>>
  <2>1. Limiter!Grant(k, c) \/ Limiter!Refuse(k, c) \/ Limiter!Lose(c)
        BY <1>1 DEF RateLimit
  <2>2. k \in Countings /\ c \in Clients
        BY <1>1, CountingTyped
  <2> QED BY <2>1, <2>2 DEF Limiter!Next
<1>2. ASSUME NEW r \in Requests, Arrive(r) \/ Advance(r), ~RateLimit(r)
      PROVE  UNCHANGED limiter
  <2>1. CASE Arrive(r)
        BY <2>1 DEF Arrive
  <2>2. CASE HeaderAuth(r) \/ CookieAuth(r)
        BY <2>2 DEF HeaderAuth, CookieAuth, Authenticate
  <2>3. CASE Role(r) \/ ZeroTrust(r)
        BY <2>3 DEF Role, ZeroTrust
  <2>4. CASE EventRole(r) \/ EventPermission(r)
        BY <2>4, EventAnswers, AskAnswers, HearAnswers
  <2>5. CASE ResolverFails(r) \/ Handle(r)
        BY <2>5 DEF ResolverFails, Handle
  <2> QED BY <1>2, <2>1, <2>2, <2>3, <2>4, <2>5 DEF Advance
<1>3. CASE Change
      BY <1>3 DEF Change
<1>4. CASE Tick
      BY <1>4 DEF Tick, Limiter!Next
<1>5. CASE UNCHANGED vars
      BY <1>5 DEF vars
<1> QED BY <1>1, <1>2, <1>3, <1>4, <1>5 DEF Next

\* Whatever interleaves, every variable stays in its set.
LEMMA TypeInvStep ==
    ASSUME Known, [Next]_vars
    PROVE  TypeInv'
<1>1. LimiterTyped'
  <2>1. CASE Limiter!Next
        BY <2>1, LimiterStays DEF Known, TypeInv
  <2>2. CASE UNCHANGED limiter
        BY <2>2 DEF Known, TypeInv, LimiterTyped, limiter
  <2> QED BY <2>1, <2>2, LimiterSteps
<1>2. CASE UNCHANGED <<config, request, pc, waiting, user, resolvedEventId, outcome, charged>>
           /\ AccessTyped' /\ SeenTyped'
  <2>1. \A q \in Requests : PlaceTyped(q)' /\ WaitTyped(q)'
        BY <1>2, PlaceKept DEF Known, TypeInv, WaitTyped, Untouched
  <2> QED BY <1>1, <1>2, <2>1 DEF Known, TypeInv, FieldsTyped
<1>3. ASSUME NEW r \in Requests, Arrive(r) \/ Advance(r),
             PlaceTyped(r)' /\ WaitTyped(r)', FieldsTyped', SeenTyped',
             charged' \subseteq Countings,
             UNCHANGED <<config, access>>
      PROVE  TypeInv'
  <2>1. \A q \in Requests \ {r} : Untouched(q)
        BY <1>3, OthersStand DEF Known, ChainInv
  <2>2. \A q \in Requests \ {r} : PlaceTyped(q)' /\ WaitTyped(q)'
        BY <2>1, PlaceKept DEF Known, TypeInv, WaitTyped, Untouched
  <2> QED BY <1>1, <1>3, <2>2 DEF Known, TypeInv, AccessTyped, access
<1>4. ASSUME UNCHANGED <<roleSeen, permissionsSeen>> PROVE SeenTyped'
      BY <1>4 DEF Known, TypeInv, SeenTyped
<1>5. ASSUME NEW r \in Requests, Arrive(r)
      PROVE  TypeInv'
  <2>1. PlaceTyped(r)' /\ WaitTyped(r)'
        BY <1>5, ArriveTyped
  <2>2. UNCHANGED <<config, waiting, user, resolvedEventId, access, charged, roleSeen,
                    permissionsSeen>>
        BY <1>5 DEF Arrive, history
  <2> QED BY <1>3, <1>4, <1>5, <2>1, <2>2 DEF Known, TypeInv, FieldsTyped
<1>6. ASSUME NEW r \in Requests, HeaderAuth(r) \/ CookieAuth(r) \/ ResolverFails(r) \/ Handle(r)
      PROVE  TypeInv'
  <2>1. /\ PlaceTyped(r)' /\ WaitTyped(r)' /\ FieldsTyped'
        /\ UNCHANGED <<config, access, charged, roleSeen, permissionsSeen>>
        BY <1>6, AuthTyped, EndTyped DEF history
  <2> QED BY <1>3, <1>4, <1>6, <2>1 DEF Advance, Known, TypeInv
<1>7. ASSUME NEW r \in Requests, Role(r) \/ ZeroTrust(r) \/ RateLimit(r)
      PROVE  TypeInv'
  <2>1. /\ PlaceTyped(r)' /\ WaitTyped(r)' /\ FieldsTyped'
        /\ UNCHANGED <<config, access, roleSeen, permissionsSeen>>
        BY <1>7, PlainTyped
  <2>2. charged' \subseteq Countings
    <3>1. charged \subseteq Countings
          BY DEF Known, TypeInv
    <3>2. CASE RateLimit(r)
          BY <3>1, <3>2, CountingTyped DEF RateLimit
    <3> QED BY <1>7, <3>1, <3>2 DEF Role, ZeroTrust, history
  <2> QED BY <1>3, <1>4, <1>7, <2>1, <2>2 DEF Advance
<1>8. ASSUME NEW r \in Requests, EventRole(r) \/ EventPermission(r)
      PROVE  TypeInv'
  <2>1. PICK guard \in EventGuards :
           \/ \E required : Ask(r, guard, required)
           \/ \E reason \in Reasons : Hear(r, guard, reason)
        BY <1>8, EventAnswers
  <2>2. /\ PlaceTyped(r)' /\ WaitTyped(r)' /\ FieldsTyped' /\ SeenTyped'
        /\ UNCHANGED <<config, access, charged>>
        BY <1>4, <2>1, AskTyped, HearTyped DEF history
  <2> QED BY <1>3, <1>8, <2>2 DEF Advance, Known, TypeInv
<1>9. CASE Change
  <2>1. /\ UNCHANGED <<config, request, pc, waiting, user, resolvedEventId, outcome, charged>>
        /\ Observe
        BY <1>9 DEF Change
  <2>2. AccessTyped'
        BY <1>9 DEF Change, Known, TypeInv, AccessTyped
  <2>3. \A q \in Requests : waiting'[q] => Asked(q)' \in Users \X Events
        BY <2>1, Standing DEF Asked
  <2>4. SeenTyped'
        BY <2>1, <2>2, <2>3, ObserveTyped DEF Known, TypeInv
  <2> QED BY <1>2, <2>1, <2>2, <2>4
<1>10. CASE Tick \/ UNCHANGED vars
  <2>1. UNCHANGED <<config, request, pc, waiting, user, resolvedEventId, outcome, charged,
                    eventRole, permissions, roleSeen, permissionsSeen>>
        BY <1>10 DEF Tick, vars, access, history
  <2> QED BY <1>2, <1>4, <2>1 DEF Known, TypeInv, AccessTyped
<1> QED BY <1>5, <1>6, <1>7, <1>8, <1>9, <1>10 DEF Next, Advance

\* A waiting request has a user and names an event, so that every answer it may
\* see is one about them (EventRoleGuard.canActivate, before its await).
THEOREM ChainTyped == Spec => []TypeInv
<1>1. Init => TypeInv
      BY TypeInvInit
<1>2. ChainInv /\ IdentityInv /\ TypeInv /\ [Next]_vars => TypeInv'
      BY TypeInvStep DEF Known
<1> QED BY <1>1, <1>2, ChainCorrect, IdentityCorrect, PTL DEF Spec

\* Every variable stays in its set, whatever requests come and interleave, and
\* req.user is nobody or a user (jwt.strategy.ts, validate).
THEOREM TypesHold == Spec => []TypeOK
<1>1. TypeInv => TypeOK
  <2> SUFFICES ASSUME TypeInv PROVE TypeOK
      OBVIOUS
  <2>1. \A r \in Requests : pc[r] # 0 =>
           \E a \in Arrivals[config] : request[r] \in {a, [a EXCEPT !.with.bearer = a.with.cookie]}
        BY DEF TypeInv, PlaceTyped, Versions
  <2>2. \A r \in Requests : pc[r] \in 0..(Len(Chain(r)) + 1)
        BY DEF TypeInv, PlaceTyped
  <2>3. \A r \in Requests :
           /\ outcome[r] \in [status : {0, 200, 401, 403, 429, 500}, code : Codes, reason : Reasons]
           /\ outcome[r] \in {Pending, Handled} <=> outcome[r].status \in {0, 200}
    <3>1. \A reply \in Replies :
             /\ reply \in [status : {0, 200, 401, 403, 429, 500}, code : Codes, reason : Reasons]
             /\ reply \in {Pending, Handled} <=> reply.status \in {0, 200}
          BY DEF Replies
    <3> QED BY <3>1 DEF TypeInv, PlaceTyped
  <2>4. /\ config \in Configs /\ FieldsTyped /\ LimiterTyped /\ AccessTyped /\ SeenTyped
        /\ charged \subseteq Countings
        BY DEF TypeInv
  <2> QED BY <2>1, <2>2, <2>3, <2>4
          DEF FieldsTyped, LimiterTyped, AccessTyped, SeenTyped, TypeOK
<1> QED BY <1>1, ChainTyped, PTL
-----------------------------------------------------------------------------
(***************************************************************************)
(* The limiter.                                                            *)
(***************************************************************************)

\* The guards use the rate limiter as its promise has it, and nothing but them
\* moves it: what FixedWindow says of windows and verdicts is so of every
\* application (RateLimitGuard.canActivate).
THEOREM LimiterUsed == Spec => Limiter!Spec
<1>1. Init => Limiter!Init
      BY DEF Init
<1>2. ChainInv /\ IdentityInv /\ TypeInv /\ [Next]_vars => [Limiter!Next]_(Limiter!vars)
      BY LimiterSteps DEF Known, limiter, Limiter!vars
<1> QED BY <1>1, <1>2, ChainCorrect, IdentityCorrect, ChainTyped, PTL DEF Spec, Limiter!Spec

\* Only the limiter counts, the request at its place, and no request that is exempt.
LEMMA ChargedBy ==
    ASSUME [Next]_vars
    PROVE  \/ UNCHANGED charged
           \/ \E r \in Requests : /\ RateLimit(r) /\ Limited(r)
                                  /\ charged' = charged \cup {<<r, pc[r]>>}
<1>1. ASSUME NEW r \in Requests, Arrive(r) \/ Advance(r), ~RateLimit(r)
      PROVE  UNCHANGED charged
  <2>1. CASE Arrive(r) \/ HeaderAuth(r) \/ CookieAuth(r) \/ Role(r) \/ ZeroTrust(r)
        BY <2>1 DEF Arrive, HeaderAuth, CookieAuth, Authenticate, Role, ZeroTrust, history
  <2>2. CASE EventRole(r) \/ EventPermission(r)
        BY <2>2, EventAnswers, AskAnswers, HearAnswers DEF history
  <2>3. CASE ResolverFails(r) \/ Handle(r)
        BY <2>3 DEF ResolverFails, Handle, history
  <2> QED BY <1>1, <2>1, <2>2, <2>3 DEF Advance
<1>2. ASSUME NEW r \in Requests, RateLimit(r)
      PROVE  \/ UNCHANGED charged
             \/ Limited(r) /\ charged' = charged \cup {<<r, pc[r]>>}
      BY <1>2 DEF RateLimit
<1>3. CASE Change \/ Tick \/ UNCHANGED vars
      BY <1>3 DEF Change, Tick, vars, history
<1> QED BY <1>1, <1>2, <1>3 DEF Next

\* The places of the global guards.
LEMMA GlobalPlaces ==
    ASSUME ChainInv, NEW r \in Requests, pc[r] # 0, config.globalGuards
    PROVE  /\ {1, 2, 3} \subseteq DOMAIN Chain(r)
           /\ Chain(r)[1] = "HeaderAuth" /\ Chain(r)[2] = "Role" /\ Chain(r)[3] = "ZeroTrust"
           /\ config.rateLimit => 4 \in DOMAIN Chain(r) /\ Chain(r)[4] = "RateLimit"
<1> DEFINE P == <<"HeaderAuth", "Role", "ZeroTrust">>
           Q == IF config.rateLimit THEN <<"RateLimit">> ELSE <<>>
           route == request[r].route.guards
<1>1. /\ P \in Seq(Guards) /\ Len(P) = 3
      /\ P[1] = "HeaderAuth" /\ P[2] = "Role" /\ P[3] = "ZeroTrust"
      BY DEF Guards, AuthGuards
<1>2. /\ Q \in Seq(Guards)
      /\ config.rateLimit => Len(Q) = 1 /\ Q[1] = "RateLimit"
  <2>1. /\ <<"RateLimit">> \in Seq(Guards) /\ <<>> \in Seq(Guards)
        /\ Len(<<"RateLimit">>) = 1 /\ <<"RateLimit">>[1] = "RateLimit"
        BY DEF Guards
  <2> QED BY <2>1
<1>3. route \in Seq(Guards)
  <2>1. PICK a \in Arrivals[config] : request[r].route = a.route
        BY DEF ChainInv, RequestInv, Arrived
  <2> QED BY <2>1, ArrivalsAssumption DEF ChainInv, Shape, Guards, AuthGuards, EventGuards
<1>4. Chain(r) = (P \o Q) \o route
      BY DEF Chain, GlobalGuards
<1> HIDE DEF P, Q, route
<1>5. /\ P \o Q \in Seq(Guards) /\ Len(P \o Q) = 3 + Len(Q) /\ Len(Q) \in Nat
      /\ \A i \in 1..3 : (P \o Q)[i] = P[i]
      /\ config.rateLimit => (P \o Q)[4] = Q[1]
  <2>1. \A A, B \in Seq(Guards) :
           /\ A \o B \in Seq(Guards) /\ Len(A) \in Nat /\ Len(B) \in Nat
           /\ Len(A \o B) = Len(A) + Len(B)
           /\ \A i \in 1..Len(A) : (A \o B)[i] = A[i]
           /\ Len(B) = 1 => (A \o B)[Len(A) + 1] = B[1]
        OBVIOUS
  <2>2. /\ P \o Q \in Seq(Guards) /\ Len(Q) \in Nat /\ Len(P \o Q) = Len(P) + Len(Q)
        /\ \A i \in 1..Len(P) : (P \o Q)[i] = P[i]
        /\ Len(Q) = 1 => (P \o Q)[Len(P) + 1] = Q[1]
        BY <1>1, <1>2, <2>1
  <2>3. Len(P) + 1 = 4 /\ Len(P) = 3
        BY <1>1
  <2>4. Len(Q) = 1 => (P \o Q)[4] = Q[1]
        BY <2>2, <2>3
  <2> QED BY <1>2, <2>2, <2>3, <2>4
<1>6. \A i \in 1..(3 + Len(Q)) : i \in DOMAIN Chain(r) /\ Chain(r)[i] = (P \o Q)[i]
      BY <1>3, <1>4, <1>5
<1>7. /\ 1 \in 1..(3 + Len(Q)) /\ 2 \in 1..(3 + Len(Q)) /\ 3 \in 1..(3 + Len(Q))
      /\ config.rateLimit => 4 \in 1..(3 + Len(Q))
      BY <1>2, <1>5
<1> QED BY <1>1, <1>2, <1>5, <1>6, <1>7

\* A step of a request: it stays where it is with its user, or passes a guard,
\* which is what the guard says of it.
LEMMA GuardPassed ==
    ASSUME ChainInv, NEW r \in Requests, Advance(r)
    PROVE  /\ UNCHANGED <<config, request[r].route>> /\ pc[r] # 0
           /\ \/ UNCHANGED <<pc[r], user[r]>>
              \/ /\ pc'[r] = pc[r] + 1
                 /\ \E guard :
                       /\ At(r, guard)
                       /\ user'[r] = user[r] \/ guard \in AuthGuards
                       /\ guard \in AuthGuards => user'[r] # Nobody
                       /\ guard = "Role" => RoleAllowed(request[r].route.roles, user[r].roles)
                       /\ guard = "RateLimit" =>
                             ~Limited(r) \/ <<r, pc[r]>> \in charged'
<1>1. Shape
      BY DEF ChainInv
<1>2. CASE HeaderAuth(r) \/ CookieAuth(r)
  <2>1. PICK guard \in AuthGuards : At(r, guard)
        BY <1>2 DEF HeaderAuth, CookieAuth, AuthGuards
  <2>2. pc[r] # 0 /\ Arrived(r)
        BY <2>1, AtStarted
  <2>3. /\ UNCHANGED config
        /\ UNCHANGED request \/ \E token : request' = [request EXCEPT ![r].with.bearer = token]
        /\ \/ /\ Pass(r)
              /\ \E principal : principal.type = "USER" /\ user' = [user EXCEPT ![r] = principal]
           \/ (\E reply : Deny(r, reply)) /\ UNCHANGED user
        BY <1>2, AuthAnswers
  <2>4. request'[r].route = request[r].route
    <3>1. ASSUME NEW token, request' = [request EXCEPT ![r].with.bearer = token]
          PROVE  request'[r].route = request[r].route
      <4>1. request'[r] = [request[r] EXCEPT !.with = [request[r].with EXCEPT !.bearer = token]]
            BY <1>1, <3>1 DEF Shape
      <4> QED BY <2>2, <4>1 DEF Arrived
    <3> QED BY <2>3, <3>1
  <2>5. Nobody.type # "USER"
        BY DEF Nobody, NoPrincipal
  <2>6. \/ pc'[r] = pc[r] + 1 /\ user'[r] # Nobody
        \/ UNCHANGED <<pc[r], user[r]>>
        BY <1>1, <2>3, <2>5 DEF Pass, Deny, Shape
  <2> QED BY <2>1, <2>2, <2>3, <2>4, <2>6 DEF AuthGuards
<1>3. CASE Role(r)
  <2>1. pc[r] # 0
        BY <1>3, AtStarted DEF Role
  <2>2. /\ UNCHANGED <<config, request, user>> /\ At(r, "Role")
        /\ \/ Pass(r) /\ RoleAllowed(request[r].route.roles, user[r].roles)
           \/ \E reply : Deny(r, reply)
        BY <1>3 DEF Role, RoleAllowed
  <2> QED BY <1>1, <2>1, <2>2 DEF Pass, Deny, Shape, AuthGuards
<1>4. CASE ZeroTrust(r)
  <2>1. pc[r] # 0
        BY <1>4, AtStarted DEF ZeroTrust
  <2>2. /\ UNCHANGED <<config, request, user>> /\ At(r, "ZeroTrust")
        /\ Pass(r) \/ \E reply : Deny(r, reply)
        BY <1>4 DEF ZeroTrust
  <2> QED BY <1>1, <2>1, <2>2 DEF Pass, Deny, Shape, AuthGuards
<1>5. CASE RateLimit(r)
  <2>1. pc[r] # 0
        BY <1>5, AtStarted DEF RateLimit
  <2>2. /\ UNCHANGED <<config, request, user>> /\ At(r, "RateLimit")
        /\ Pass(r) \/ \E reply : Deny(r, reply)
        /\ ~Limited(r) \/ <<r, pc[r]>> \in charged'
        BY <1>5 DEF RateLimit
  <2> QED BY <1>1, <2>1, <2>2 DEF Pass, Deny, Shape, AuthGuards
<1>6. CASE EventRole(r) \/ EventPermission(r)
  <2>1. PICK guard \in EventGuards :
           \/ \E required : Ask(r, guard, required)
           \/ \E reason \in Reasons : Hear(r, guard, reason)
        BY <1>6, EventAnswers
  <2>2. /\ UNCHANGED <<config, request, user>> /\ At(r, guard)
        /\ Pass(r) \/ (\E reply : Deny(r, reply)) \/ UNCHANGED pc
        BY <2>1, AskAnswers, HearAnswers
  <2>3. pc[r] # 0
        BY <2>2, AtStarted
  <2> QED BY <1>1, <2>2, <2>3 DEF Pass, Deny, Shape, AuthGuards, EventGuards
<1>7. CASE ResolverFails(r) \/ Handle(r)
  <2>1. /\ UNCHANGED <<config, request, user, pc>>
        /\ waiting[r] \/ pc[r] = Len(Chain(r)) + 1
        BY <1>7 DEF ResolverFails, Handle, Deny
  <2>2. /\ DOMAIN Chain(r) = 1..Len(Chain(r)) /\ Len(Chain(r)) \in Nat
        /\ waiting[r] => pc[r] \in DOMAIN Chain(r)
    <3>1. RequestInv(r) /\ config \in Configs
          BY DEF ChainInv, Shape
    <3>2. Chain(r) \in Seq(Guards)
          BY <3>1, ChainOrder DEF RequestInv
    <3> QED BY <3>1, <3>2 DEF RequestInv, WaitInv
  <2>3. pc[r] # 0
        BY <2>1, <2>2
  <2> QED BY <2>1, <2>3
<1> QED BY <1>2, <1>3, <1>4, <1>5, <1>6, <1>7 DEF Advance

\* What the global guards have made sure of once a request has passed them.
GlobalInv(r) ==
    config.globalGuards =>
        /\ pc[r] >= 2 => user[r] # Nobody
        /\ pc[r] \in {3, 4} => RoleAllowed(request[r].route.roles, user[r].roles)
        /\ config.rateLimit /\ pc[r] > 4 /\ ~request[r].route.health => Counted(r)

\* No step undoes it: only an authenticating guard changes req.user, and none
\* stands between RoleGuard and RateLimitGuard among the global ones.
LEMMA GlobalStep ==
    ASSUME ChainInv, [Next]_vars, NEW r \in Requests, GlobalInv(r)
    PROVE  GlobalInv(r)'
<1>1. pc[r] \in Nat /\ Shape
      BY DEF ChainInv, RequestInv
<1>2. Counted(r) => Counted(r)'
      BY HistoryGrows DEF Grown, Counted
<1>3. CASE UNCHANGED <<config, request[r].route, pc[r], user[r]>>
      BY <1>2, <1>3 DEF GlobalInv
<1>4. CASE Arrive(r)
  <2>1. pc'[r] = 1
        BY <1>1, <1>4 DEF Arrive, Pass, Shape
  <2> QED BY <2>1 DEF GlobalInv
<1>5. CASE Advance(r)
  <2>1. /\ UNCHANGED <<config, request[r].route>> /\ pc[r] # 0
        /\ \/ UNCHANGED <<pc[r], user[r]>>
           \/ /\ pc'[r] = pc[r] + 1
              /\ \E guard :
                    /\ At(r, guard)
                    /\ user'[r] = user[r] \/ guard \in AuthGuards
                    /\ guard \in AuthGuards => user'[r] # Nobody
                    /\ guard = "Role" => RoleAllowed(request[r].route.roles, user[r].roles)
                    /\ guard = "RateLimit" =>
                          ~Limited(r) \/ <<r, pc[r]>> \in charged'
        BY <1>5, GuardPassed
  <2>2. ASSUME pc'[r] = pc[r] + 1, config.globalGuards,
               NEW guard, At(r, guard),
               user'[r] = user[r] \/ guard \in AuthGuards,
               guard \in AuthGuards => user'[r] # Nobody,
               guard = "Role" => RoleAllowed(request[r].route.roles, user[r].roles),
               guard = "RateLimit" => ~Limited(r) \/ <<r, pc[r]>> \in charged'
        PROVE  /\ user'[r] # Nobody
               /\ pc'[r] \in {3, 4} => RoleAllowed(request[r].route.roles, user'[r].roles)
               /\ config.rateLimit /\ pc'[r] > 4 /\ ~request[r].route.health => Counted(r)'
    <3>1. /\ pc[r] = 1 => guard = "HeaderAuth"
          /\ pc[r] = 2 => guard = "Role"
          /\ pc[r] = 3 => guard = "ZeroTrust"
          /\ config.rateLimit /\ pc[r] = 4 => guard = "RateLimit"
          BY <2>1, <2>2, GlobalPlaces DEF At
    <3>2. user'[r] # Nobody
          BY <1>1, <2>1, <2>2, <3>1 DEF GlobalInv, AuthGuards
    <3>3. pc'[r] \in {3, 4} => RoleAllowed(request[r].route.roles, user'[r].roles)
      <4>1. CASE pc[r] = 2
            BY <2>2, <3>1, <4>1 DEF AuthGuards
      <4>2. CASE pc[r] = 3
            BY <2>2, <3>1, <4>2 DEF GlobalInv, AuthGuards
      <4> QED BY <1>1, <2>2, <4>1, <4>2
    <3>4. config.rateLimit /\ pc'[r] > 4 /\ ~request[r].route.health => Counted(r)'
      <4>1. CASE pc[r] = 4
            BY <2>2, <3>1, <4>1 DEF Counted, Limited
      <4>2. CASE pc[r] > 4
            BY <1>2, <2>2, <4>2 DEF GlobalInv
      <4> QED BY <1>1, <2>2, <4>1, <4>2
    <3> QED BY <3>2, <3>3, <3>4
  <2>3. CASE UNCHANGED <<pc[r], user[r]>>
        BY <1>3, <2>1, <2>3
  <2>4. CASE ~UNCHANGED <<pc[r], user[r]>>
        BY <2>1, <2>2, <2>4 DEF GlobalInv
  <2> QED BY <2>3, <2>4
<1>6. ASSUME NEW q \in Requests \ {r}, Arrive(q) \/ Advance(q)
      PROVE  UNCHANGED <<config, request[r].route, pc[r], user[r]>>
      BY <1>1, <1>6, OthersStand DEF Untouched
<1>7. CASE Change \/ Tick \/ UNCHANGED vars
      BY <1>3, <1>7 DEF Change, Tick, vars
<1> QED BY <1>3, <1>4, <1>5, <1>6, <1>7 DEF Next

\* Past the global guards a request has a user, past RoleGuard one with a required
\* role, and past RateLimitGuard it is counted (SecurityModule.forRoot).
THEOREM GlobalGuardsAhead == Spec => [](\A r \in Requests : GlobalInv(r))
<1>1. Init => \A r \in Requests : GlobalInv(r)
      BY DEF Init, GlobalInv
<1>2. ChainInv /\ (\A r \in Requests : GlobalInv(r)) /\ [Next]_vars =>
          (\A r \in Requests : GlobalInv(r))'
      BY GlobalStep
<1> QED BY <1>1, <1>2, ChainCorrect, PTL DEF Spec

\* A request the guard for tokens or for roles turns away is never counted, nor
\* one before they have looked at it, whatever other guards its route lists
\* (security.module.ts:80-90).
THEOREM BudgetKept == Spec => BudgetSpared
<1>1. ASSUME ChainInv, \A r \in Requests : GlobalInv(r), [Next]_vars,
             NEW r \in Requests, Counted(r)', ~Counted(r),
             config.globalGuards, config.rateLimit
      PROVE  user[r] # Nobody /\ RoleAllowed(request[r].route.roles, user[r].roles)
  <2>1. /\ RateLimit(r) /\ Limited(r)
    <3>1. PICK q \in Requests : /\ RateLimit(q) /\ Limited(q)
                                /\ charged' = charged \cup {<<q, pc[q]>>}
          BY <1>1, ChargedBy DEF Counted
    <3>2. q = r
          BY <1>1, <3>1 DEF Counted
    <3> QED BY <3>1, <3>2
  <2>2. At(r, "RateLimit") /\ pc[r] # 0 /\ pc[r] \in Nat /\ GlobalInv(r)
        BY <1>1, <2>1, AtStarted DEF RateLimit, ChainInv, RequestInv
  <2>3. pc[r] \notin {1, 2, 3}
        BY <1>1, <2>2, GlobalPlaces DEF At
  <2>4. ~(pc[r] > 4)
        BY <1>1, <2>1, <2>2 DEF GlobalInv, Limited
  <2>5. pc[r] = 4
        BY <2>2, <2>3, <2>4
  <2> QED BY <1>1, <2>2, <2>5 DEF GlobalInv
<1>2. ChainInv /\ (\A r \in Requests : GlobalInv(r)) /\ [Next]_vars =>
         [\A r \in Requests : Counted(r)' /\ ~Counted(r) /\ config.globalGuards /\ config.rateLimit =>
             user[r] # Nobody /\ RoleAllowed(request[r].route.roles, user[r].roles)]_vars
      BY <1>1
<1> QED BY <1>2, ChainCorrect, GlobalGuardsAhead, PTL DEF Spec, BudgetSpared
-----------------------------------------------------------------------------
(***************************************************************************)
(* The truth of replies.                                                   *)
(***************************************************************************)

\* A request that has got its reply is left alone.
LEMMA Settled ==
    ASSUME Known, [Next]_vars, NEW r \in Requests, pc[r] # 0, outcome[r] # Pending
    PROVE  Untouched(r)
<1>1. ~Arrive(r)
      BY DEF Arrive
<1>2. ~Advance(r)
  <2>1. ~HeaderAuth(r) /\ ~CookieAuth(r) /\ ~Role(r) /\ ~ZeroTrust(r) /\ ~RateLimit(r)
        BY DEF HeaderAuth, CookieAuth, Role, ZeroTrust, RateLimit, At
  <2>2. ~EventRole(r) /\ ~EventPermission(r)
        BY EventAnswers, AskAnswers, HearAnswers DEF At
  <2>3. ~ResolverFails(r) /\ ~Handle(r)
        BY DEF ResolverFails, Handle
  <2> QED BY <2>1, <2>2, <2>3 DEF Advance
<1>3. CASE Change \/ Tick \/ UNCHANGED vars
      BY <1>3 DEF Change, Tick, vars, Untouched
<1>4. ASSUME NEW q \in Requests \ {r}, Arrive(q) \/ Advance(q)
      PROVE  Untouched(r)
      BY <1>4, OthersStand DEF Known, ChainInv
<1> QED BY <1>1, <1>2, <1>3, <1>4 DEF Next

\* The guards send a request on or give it a reply, and never change where it
\* comes from.
LEMMA Moving ==
    ASSUME Known, [Next]_vars, NEW r \in Requests, pc[r] # 0
    PROVE  /\ UNCHANGED <<config, request[r].client>>
           /\ \/ UNCHANGED <<pc[r], outcome[r]>>
              \/ pc'[r] = pc[r] + 1 /\ UNCHANGED outcome[r] /\ outcome[r] = Pending
              \/ UNCHANGED pc[r] /\ outcome'[r] # Pending
<1>1. Shape /\ ChainInv /\ PlaceTyped(r)
      BY DEF Known, ChainInv, TypeInv
<1>2. UNCHANGED <<config, request[r].client>>
  <2>1. CASE HeaderAuth(r) \/ CookieAuth(r)
    <3>1. PICK guard : At(r, guard)
          BY <2>1 DEF HeaderAuth, CookieAuth
    <3>2. Arrived(r)
          BY <1>1, <3>1, AtStarted
    <3>3. ASSUME NEW token, request' = [request EXCEPT ![r].with.bearer = token]
          PROVE  request'[r].client = request[r].client
      <4>1. request'[r] = [request[r] EXCEPT !.with = [request[r].with EXCEPT !.bearer = token]]
            BY <1>1, <3>3 DEF Shape
      <4> QED BY <3>2, <4>1 DEF Arrived
    <3>4. /\ UNCHANGED config
          /\ UNCHANGED request \/ \E token : request' = [request EXCEPT ![r].with.bearer = token]
          BY <2>1, AuthAnswers
    <3> QED BY <3>3, <3>4
  <2>2. ASSUME NEW q \in Requests \ {r}, HeaderAuth(q) \/ CookieAuth(q)
        PROVE  UNCHANGED <<config, request[r].client>>
        BY <1>1, <2>2, OthersStand DEF Advance, Untouched
  <2>3. ASSUME NEW q \in Requests, Advance(q), ~HeaderAuth(q), ~CookieAuth(q)
        PROVE  UNCHANGED <<config, request[r].client>>
    <3>1. CASE Role(q) \/ ZeroTrust(q) \/ RateLimit(q)
          BY <3>1, PlainAnswers
    <3>2. CASE EventRole(q) \/ EventPermission(q)
          BY <3>2, EventAnswers, AskAnswers, HearAnswers
    <3> QED BY <2>3, <3>1, <3>2 DEF Advance, ResolverFails, Handle
  <2>4. ASSUME NEW q \in Requests, Arrive(q)
        PROVE  UNCHANGED <<config, request[r].client>>
    <3>1. q # r /\ UNCHANGED config
          BY <2>4 DEF Arrive
    <3> QED BY <1>1, <2>4, <3>1, OthersStand DEF Untouched
  <2>5. CASE Change \/ Tick \/ UNCHANGED vars
        BY <2>5 DEF Change, Tick, vars
  <2> QED BY <2>1, <2>2, <2>3, <2>4, <2>5 DEF Next
<1>3. \/ UNCHANGED <<pc[r], outcome[r]>>
      \/ pc'[r] = pc[r] + 1 /\ UNCHANGED outcome[r] /\ outcome[r] = Pending
      \/ UNCHANGED pc[r] /\ outcome'[r] # Pending
  <2>1. Pass(r) => pc'[r] = pc[r] + 1 /\ UNCHANGED outcome[r]
        BY <1>1 DEF Pass, Shape
  <2>2. CASE Advance(r)
    <3>1. outcome[r] = Pending
      <4>1. CASE HeaderAuth(r) \/ CookieAuth(r)
            BY <4>1 DEF HeaderAuth, CookieAuth, At
      <4>2. CASE Role(r) \/ ZeroTrust(r) \/ RateLimit(r)
            BY <4>2, PlainAnswers DEF At
      <4>3. CASE EventRole(r) \/ EventPermission(r)
            BY <4>3, EventAnswers, AskAnswers, HearAnswers DEF At
      <4> QED BY <2>2, <4>1, <4>2, <4>3 DEF Advance, ResolverFails, Handle
    <3>2. Pass(r) \/ (\E reply : Deny(r, reply)) \/ UNCHANGED <<pc, outcome>>
      <4>1. CASE HeaderAuth(r) \/ CookieAuth(r)
            BY <4>1, AuthAnswers
      <4>2. CASE Role(r) \/ ZeroTrust(r) \/ RateLimit(r)
            BY <4>2, PlainAnswers
      <4>3. CASE EventRole(r) \/ EventPermission(r)
            BY <4>3, EventAnswers, AskAnswers, HearAnswers
      <4> QED BY <2>2, <4>1, <4>2, <4>3 DEF Advance, ResolverFails, Handle, Deny
    <3> QED BY <1>1, <2>1, <3>1, <3>2 DEF Deny, Shape
  <2>3. ASSUME NEW q \in Requests \ {r}, Arrive(q) \/ Advance(q)
        PROVE  UNCHANGED <<pc[r], outcome[r]>>
        BY <1>1, <2>3, OthersStand DEF Untouched
  <2>4. ~Arrive(r)
        BY DEF Arrive
  <2>5. CASE Change \/ Tick \/ UNCHANGED vars
        BY <2>5 DEF Change, Tick, vars
  <2> QED BY <2>2, <2>3, <2>4, <2>5 DEF Next
<1> QED BY <1>2, <1>3

\* The countings of a client.
ChargedTo(c) == {k \in charged : request[k[1]].client = c}

\* A request is counted where it stands or stood, so not yet where it is asked
\* for; and the places taken in a client's window are countings of it.
CountInv ==
    /\ IsFiniteSet(charged)
    /\ \A k \in charged :
          /\ pc[k[1]] # 0
          /\ k[2] < pc[k[1]] \/ (k[2] = pc[k[1]] /\ outcome[k[1]] # Pending)
    /\ \A c \in Clients : taken[c] <= Cardinality(ChargedTo(c))

\* The countings there are stay the client's.
LEMMA ChargedKept ==
    ASSUME Known, [Next]_vars, \A k \in charged : pc[k[1]] # 0, NEW k \in charged
    PROVE  request'[k[1]].client = request[k[1]].client
<1>1. k[1] \in Requests
      BY DEF Known, TypeInv, Countings
<1> QED BY <1>1, Moving

\* A place is taken only together with a new counting; windows that close give
\* places back and leave the countings.
LEMMA CountStep ==
    ASSUME Known, CountInv, [Next]_vars
    PROVE  CountInv'
<1>1. /\ IsFiniteSet(charged) /\ charged \subseteq Countings
      /\ taken \in [Clients -> 0..Limit] /\ \A r \in Requests : pc[r] \in Nat
      BY DEF CountInv, Known, TypeInv, LimiterTyped, ChainInv, RequestInv
<1>2. /\ \A k \in charged : /\ pc'[k[1]] # 0
                            /\ \/ k[2] < pc'[k[1]]
                               \/ k[2] = pc'[k[1]] /\ outcome'[k[1]] # Pending
  <2> SUFFICES ASSUME NEW k \in charged
               PROVE  /\ pc'[k[1]] # 0
                      /\ k[2] < pc'[k[1]] \/ (k[2] = pc'[k[1]] /\ outcome'[k[1]] # Pending)
      OBVIOUS
  <2>1. k[1] \in Requests /\ k[2] \in Nat /\ pc[k[1]] \in Nat
        BY <1>1 DEF Countings
  <2>2. /\ pc[k[1]] # 0
        /\ k[2] < pc[k[1]] \/ (k[2] = pc[k[1]] /\ outcome[k[1]] # Pending)
        BY DEF CountInv
  <2>3. \/ UNCHANGED <<pc[k[1]], outcome[k[1]]>>
        \/ pc'[k[1]] = pc[k[1]] + 1
        \/ UNCHANGED pc[k[1]] /\ outcome'[k[1]] # Pending
        BY <2>1, <2>2, Moving
  <2> QED BY <2>1, <2>2, <2>3
<1>3. \A k \in charged : request'[k[1]].client = request[k[1]].client
      BY ChargedKept DEF CountInv
<1>4. \A c : IsFiniteSet(ChargedTo(c)) /\ Cardinality(ChargedTo(c)) \in Nat
      BY <1>1, FS_Subset, FS_CardinalityType DEF ChargedTo
<1>5. CASE UNCHANGED charged /\ \A c \in Clients : taken'[c] \in Nat /\ taken'[c] <= taken[c]
  <2>1. \A c : ChargedTo(c)' = ChargedTo(c)
        BY <1>3, <1>5 DEF ChargedTo
  <2>2. \A c \in Clients : taken'[c] <= Cardinality(ChargedTo(c)')
        BY <1>1, <1>4, <1>5, <2>1, BoundsAssumption DEF CountInv
  <2> QED BY <1>1, <1>2, <1>5, <2>2 DEF CountInv
<1>6. ASSUME NEW r \in Requests, RateLimit(r), charged' = charged \cup {<<r, pc[r]>>},
             Limited(r)
      PROVE  CountInv'
  <2> DEFINE k == <<r, pc[r]>>
  <2>1. PICK c \in Clients : c = request[r].client
        BY <1>6, CountingTyped
  <2>2. At(r, "RateLimit") /\ outcome[r] = Pending /\ UNCHANGED request
        BY <1>6 DEF RateLimit, At
  <2>3. pc[r] # 0
        BY <2>2, AtStarted DEF Known
  <2>4. k \notin charged
        BY <1>1, <2>2, <2>3 DEF CountInv
  <2>5. ChargedTo(c)' = ChargedTo(c) \cup {k} /\ \A d : d # c => ChargedTo(d)' = ChargedTo(d)
        BY <1>6, <2>1, <2>2 DEF ChargedTo
  <2>6. Cardinality(ChargedTo(c)') = Cardinality(ChargedTo(c)) + 1
    <3>1. k \notin ChargedTo(c)
          BY <2>4 DEF ChargedTo
    <3> QED BY <1>4, <2>5, <3>1, FS_AddElement
  <2>7. /\ taken'[c] \in {taken[c], taken[c] + 1}
        /\ \A d \in Clients : d # c => taken'[d] = taken[d]
    <3>1. Limiter!Take(c) \/ Limiter!Full(c)
          BY <1>6, <2>1 DEF RateLimit, Limiter!Grant, Limiter!Refuse, Limiter!Lose
    <3> QED BY <1>1, <2>1, <3>1 DEF Limiter!Take, Limiter!Full
  <2>8. \A d \in Clients : taken'[d] <= Cardinality(ChargedTo(d)')
    <3> SUFFICES ASSUME NEW d \in Clients PROVE taken'[d] <= Cardinality(ChargedTo(d)')
        OBVIOUS
    <3>1. taken[d] <= Cardinality(ChargedTo(d)) /\ taken[d] \in Int
          BY <1>1, BoundsAssumption DEF CountInv
    <3>2. CASE d = c
          BY <1>4, <2>6, <2>7, <3>1, <3>2
    <3>3. CASE d # c
          BY <2>5, <2>7, <3>1, <3>3
    <3> QED BY <3>2, <3>3
  <2>9. /\ pc'[r] # 0
        /\ pc[r] < pc'[r] \/ (pc[r] = pc'[r] /\ outcome'[r] # Pending)
    <3>1. Shape /\ pc[r] \in Nat
          BY <1>1 DEF Known, ChainInv
    <3>2. RateLimitExceeded # Pending /\ InternalServerError # Pending
          BY DEF RateLimitExceeded, InternalServerError, Pending, HttpException, Exception
    <3>3. Pass(r) \/ \E reply \in {RateLimitExceeded, InternalServerError} : Deny(r, reply)
          BY <1>6 DEF RateLimit
    <3> QED BY <2>3, <3>1, <3>2, <3>3 DEF Pass, Deny, Shape
  <2>10. IsFiniteSet(charged')
        BY <1>1, <1>6, FS_AddElement
  <2> QED BY <1>2, <1>6, <2>8, <2>9, <2>10 DEF CountInv
<1>7. CASE Tick
  <2>1. UNCHANGED charged
        BY <1>7 DEF Tick, history
  <2>2. \A c \in Clients : taken'[c] \in {0, taken[c]}
        BY <1>7 DEF Tick, Limiter!Pass
  <2> QED BY <1>1, <1>5, <2>1, <2>2, BoundsAssumption
<1>8. CASE UNCHANGED charged /\ ~Tick
  <2>1. UNCHANGED taken
    <3>1. CASE \E r \in Requests : Advance(r) \/ Arrive(r)
      <4>1. PICK r \in Requests : Advance(r) \/ Arrive(r)
            BY <3>1
      <4>2. CASE RateLimit(r)
        <5>1. ~Limited(r) \/ <<r, pc[r]>> \in charged'
              BY <4>2 DEF RateLimit
        <5>2. <<r, pc[r]>> \notin charged
              BY <1>1, <4>2 DEF CountInv, RateLimit, At
        <5> QED BY <1>8, <4>2, <5>1, <5>2 DEF RateLimit, limiter
      <4>3. CASE ~RateLimit(r)
        <5>1. CASE EventRole(r) \/ EventPermission(r)
              BY <5>1, EventAnswers, AskAnswers, HearAnswers DEF limiter
        <5>2. CASE ~EventRole(r) /\ ~EventPermission(r)
              BY <4>1, <4>3, <5>2
                 DEF Arrive, Advance, HeaderAuth, CookieAuth, Authenticate, Role, ZeroTrust,
                     ResolverFails, Handle, limiter
        <5> QED BY <5>1, <5>2
      <4> QED BY <4>2, <4>3
    <3>2. CASE Change \/ UNCHANGED vars
          BY <3>2 DEF Change, vars, limiter
    <3> QED BY <1>8, <3>1, <3>2 DEF Next
  <2> QED BY <1>1, <1>5, <1>8, <2>1, BoundsAssumption
<1> QED BY <1>6, <1>7, <1>8, ChargedBy

\* Replies that give no reason a client could check.
Quiet(reply) ==
    /\ reply.code # "INVALID_CREDENTIALS"
    /\ reply.reason \in {"none", "TOTP", "WEBAUTHN"}
    /\ reply \notin {Unauthorized, UnauthorizedTenant, RateLimitExceeded}

\* A pending request, a handled one and the replies without a reason are quiet.
LEMMA QuietReplies ==
    \A reply \in {Pending, Handled, Forbidden, InternalServerError} \cup Decisions : Quiet(reply)
BY DEF Quiet, Decisions, Pending, Handled, Forbidden, InternalServerError, AccessBlocked,
       StepUpRequired, Unauthorized, UnauthorizedTenant, RateLimitExceeded, HttpException,
       Exception

\* Where no reason is given, none is false, ...
LEMMA QuietTrue ==
    ASSUME NEW r \in Requests, Quiet(outcome[r])
    PROVE  RefusalTrue(r)
BY DEF Quiet, RefusalTrue

\* ... in the next state neither.
LEMMA QuietTrueNext ==
    ASSUME NEW r \in Requests, Quiet(outcome'[r])
    PROVE  RefusalTrue(r)'
BY DEF Quiet, RefusalTrue

\* What the other replies say.
LEMMA ReplyParts ==
    /\ Unauthorized.code = "none" /\ Unauthorized.reason = "none"
    /\ UnauthorizedTenant.code = "UNAUTHORIZED_TENANT" /\ UnauthorizedTenant.reason = "none"
    /\ RateLimitExceeded.code = "RATE_LIMIT_EXCEEDED" /\ RateLimitExceeded.reason = "none"
    /\ Unauthorized # UnauthorizedTenant /\ Unauthorized # RateLimitExceeded
    /\ UnauthorizedTenant # RateLimitExceeded
    /\ \A reason :
          /\ InvalidCredentials(reason).code = "INVALID_CREDENTIALS"
          /\ ForbiddenOperation(reason).code = "FORBIDDEN"
          /\ EventAccessDenied(reason).code = "EVENT_ACCESS_DENIED"
          /\ InvalidCredentials(reason).reason = reason
          /\ ForbiddenOperation(reason).reason = reason
          /\ EventAccessDenied(reason).reason = reason
BY DEF Unauthorized, UnauthorizedTenant, RateLimitExceeded, InvalidCredentials,
       ForbiddenOperation, EventAccessDenied, HttpException, Exception

\* AuthGuard('jwt') and CookieAuthGuard: the token was missing, named nobody, or
\* did not list the tenant the request asks for.
LEMMA AuthTrue ==
    ASSUME Known, NEW r \in Requests, HeaderAuth(r) \/ CookieAuth(r),
           outcome'[r] # outcome[r]
    PROVE  RefusalTrue(r)'
<1>1. PICK token :
         /\ \/ token = request[r].with.bearer /\ UNCHANGED request
            \/ /\ token = IF request[r].with.cookie # None THEN request[r].with.cookie
                                                           ELSE request[r].with.bearer
               /\ request' = [request EXCEPT ![r].with.bearer = token]
         /\ UNCHANGED config
         /\ \/ Pass(r)
            \/ token = None /\ Deny(r, Unauthorized)
            \/ /\ token # None /\ Deny(r, UnauthorizedTenant)
               /\ TenantRefused(token, config.tenantClaim, request[r].with.tenant)
            \/ /\ token # None /\ None \in {token.sub, token.userId}
               /\ \E reason \in {"missing_subject", "missing_user_claim"} :
                     Deny(r, InvalidCredentials(reason))
      BY AuthAnswers
<1>2. PICK guard : At(r, guard)
      BY DEF HeaderAuth, CookieAuth
<1>3. Shape /\ pc[r] # 0 /\ Arrived(r) /\ CarriedInv(r)
      BY <1>2, AtStarted DEF Known, ChainInv, IdentityInv
<1>4. /\ token \in {request'[r].with.bearer, request'[r].with.cookie}
      /\ request'[r].with.tenant = request[r].with.tenant
  <2>1. CASE token = request[r].with.bearer /\ UNCHANGED request
        BY <2>1
  <2>2. CASE request' = [request EXCEPT ![r].with.bearer = token]
    <3>1. request'[r] = [request[r] EXCEPT !.with = [request[r].with EXCEPT !.bearer = token]]
          BY <1>3, <2>2 DEF Shape
    <3>2. request'[r].with = [request[r].with EXCEPT !.bearer = token]
          BY <1>3, <3>1 DEF Arrived
    <3> QED BY <1>3, <3>2 DEF CarriedInv
  <2> QED BY <1>1, <2>1, <2>2
<1>5. ~Pass(r)
      BY DEF Pass
<1>6. CASE token = None /\ outcome'[r] = Unauthorized
      BY <1>4, <1>6, ReplyParts DEF RefusalTrue
<1>7. CASE /\ token # None /\ outcome'[r] = UnauthorizedTenant
           /\ TenantRefused(token, config.tenantClaim, request[r].with.tenant)
      BY <1>1, <1>4, <1>7, ReplyParts DEF RefusalTrue, TenantRefused
<1>8. ASSUME NEW reason \in {"missing_subject", "missing_user_claim"}, token # None,
             None \in {token.sub, token.userId}, outcome'[r] = InvalidCredentials(reason)
      PROVE  RefusalTrue(r)'
      BY <1>4, <1>8, ReplyParts DEF RefusalTrue
<1> QED BY <1>1, <1>3, <1>5, <1>6, <1>7, <1>8 DEF Deny, Shape

\* RoleGuard, ZeroTrustGuard, and RateLimitGuard, whose full window was filled
\* by that many countings.
LEMMA PlainTrue ==
    ASSUME Known, CountInv, CountInv', NEW r \in Requests, Role(r) \/ ZeroTrust(r) \/ RateLimit(r),
           outcome'[r] # outcome[r]
    PROVE  RefusalTrue(r)'
<1>1. /\ Shape /\ ~Pass(r)
      /\ UNCHANGED <<request, user, pc[r]>>
  <2>1. Shape /\ ~Pass(r)
        BY DEF Known, ChainInv, Pass
  <2> QED BY <2>1, PlainAnswers DEF Deny
<1>2. CASE Role(r)
  <2> DEFINE required == request[r].route.roles
  <2>1. \/ user[r] = Nobody /\ Deny(r, ForbiddenOperation("unauthenticated"))
        \/ ~RoleAllowed(required, user[r].roles) /\ Deny(r, ForbiddenOperation("missing-role"))
        BY <1>1, <1>2 DEF Role
  <2>2. CASE user[r] = Nobody /\ outcome'[r] = ForbiddenOperation("unauthenticated")
        BY <1>1, <2>2, ReplyParts DEF RefusalTrue
  <2>3. CASE /\ ~RoleAllowed(required, user[r].roles)
             /\ outcome'[r] = ForbiddenOperation("missing-role")
        BY <1>1, <2>3, ReplyParts DEF RefusalTrue, RoleAllowed
  <2> QED BY <1>1, <2>1, <2>2, <2>3 DEF Deny, Shape
<1>3. CASE ZeroTrust(r)
  <2>1. \E reply \in {Forbidden} \cup Decisions : Deny(r, reply)
        BY <1>1, <1>3 DEF ZeroTrust
  <2> QED BY <1>1, <2>1, QuietReplies, QuietTrueNext DEF Deny, Shape
<1>4. CASE RateLimit(r)
  <2>1. PICK c \in Clients : c = request[r].client
        BY <1>4, CountingTyped
  <2>2. CASE Limiter!Refuse(<<r, pc[r]>>, c) /\ outcome'[r] = RateLimitExceeded
    <3>1. taken[c] = Limit /\ taken[c] <= Cardinality(ChargedTo(c)) /\ IsFiniteSet(charged)
          BY <2>1, <2>2 DEF Limiter!Refuse, Limiter!Full, CountInv
    <3>2. Limited(r) /\ charged' = charged \cup {<<r, pc[r]>>}
      <4>1. outcome[r] = Pending /\ ~(~Limited(r) /\ Pass(r))
            BY <1>1, <1>4 DEF RateLimit, At
      <4> QED BY <1>4, <4>1 DEF RateLimit
    <3>3. <<r, pc[r]>> \notin charged
      <4>1. \A k \in charged : k[2] < pc[k[1]] \/ outcome[k[1]] # Pending
            BY DEF CountInv
      <4>2. outcome[r] = Pending /\ pc[r] \in Nat
            BY <1>4 DEF RateLimit, At, Known, ChainInv, RequestInv
      <4> QED BY <4>1, <4>2
    <3>4. {k \in charged' \ {<<r, pc'[r]>>} : request'[k[1]].client = request'[r].client}
             = ChargedTo(c)
          BY <1>1, <2>1, <3>2, <3>3 DEF ChargedTo
    <3>5. Limit <= Cardinality({k \in charged' \ {<<r, pc'[r]>>} :
                                    request'[k[1]].client = request'[r].client})
          BY <3>1, <3>4
    <3> QED BY <2>2, <3>5, ReplyParts DEF RefusalTrue
  <2>3. \/ Limiter!Refuse(<<r, pc[r]>>, c) /\ Deny(r, RateLimitExceeded)
        \/ Deny(r, InternalServerError)
        BY <1>1, <1>4, <2>1 DEF RateLimit
  <2>4. CASE outcome'[r] = InternalServerError
        BY <2>4, QuietReplies, QuietTrueNext
  <2> QED BY <1>1, <2>2, <2>3, <2>4 DEF Deny, Shape
<1> QED BY <1>2, <1>3, <1>4

\* The event guards, before they ask: nobody, or no event, to ask about.
LEMMA AskTrue ==
    ASSUME Known, NEW r \in Requests, NEW guard, NEW required, Ask(r, guard, required),
           outcome'[r] # outcome[r]
    PROVE  RefusalTrue(r)'
<1>1. /\ Shape /\ UNCHANGED <<request, user>>
      /\ \/ user[r] = Nobody /\ Deny(r, EventAccessDenied("unauthenticated"))
         \/ /\ extractEventId(request[r].source) = None
            /\ Deny(r, EventAccessDenied("event-id-missing"))
  <2>1. Shape /\ ~Pass(r)
        BY DEF Known, ChainInv, Pass
  <2> QED BY <2>1, AskAnswers
<1>2. CASE user[r] = Nobody /\ outcome'[r] = EventAccessDenied("unauthenticated")
      BY <1>1, <1>2, ReplyParts DEF RefusalTrue
<1>3. CASE /\ extractEventId(request[r].source) = None
           /\ outcome'[r] = EventAccessDenied("event-id-missing")
  <2> DEFINE source == request[r].source
  <2>1. \/ EmptyId \in ToSet(Operation(source))
        \/ ToSet(Operation(source)) \cup {source.header, source.cookie} \subseteq {None, EmptyId}
        BY <1>3, EventNamed
  <2>2. source' = source /\ ToSet(Operation(source'))= ToSet(Operation(source))
        BY <1>1
  <2> QED BY <1>1, <1>3, <2>1, <2>2, ReplyParts DEF RefusalTrue
<1> QED BY <1>1, <1>2, <1>3 DEF Deny, Shape

\* The event guards, after they were answered: what they tell is what was
\* answered, for the user and the event they asked about.
LEMMA HearTrue ==
    ASSUME Known, NEW r \in Requests, NEW guard \in EventGuards, NEW reason,
           Hear(r, guard, reason), Answered(r, guard, reason), outcome'[r] # outcome[r]
    PROVE  RefusalTrue(r)'
<1>1. /\ Shape /\ ~Pass(r) /\ waiting[r] /\ At(r, guard)
      /\ UNCHANGED <<request, user, resolvedEventId, roleSeen, permissionsSeen>>
      BY DEF Known, ChainInv, Pass, Hear, history
<1>2. outcome'[r] = EventAccessDenied(reason) /\ reason # "none"
      BY <1>1 DEF Hear, Deny, Shape
<1>3. /\ Asked(r) = <<user[r].userId, resolvedEventId[r]>>
      /\ guard = "EventRole" => <<Asked(r), eventRole[Asked(r)]>> \in roleSeen[r]
      /\ guard = "EventPermission" => <<Asked(r), permissions[Asked(r)]>> \in permissionsSeen[r]
      BY <1>1 DEF Known, ChainInv, RequestInv, WaitInv, At, IdKept, Asked
<1>4. CASE reason = "event-role-not-found"
  <2>1. \E s \in roleSeen'[r] : s[1] = <<user'[r].userId, resolvedEventId'[r]>> /\ s[2] = None
        BY <1>1, <1>3, <1>4 DEF Answered
  <2> QED BY <1>2, <1>4, <2>1, ReplyParts DEF RefusalTrue, Had
<1>5. CASE reason = "event-role-mismatch"
  <2>1. \E s \in roleSeen'[r] : /\ s[1] = <<user'[r].userId, resolvedEventId'[r]>>
                                /\ s[2] \notin request'[r].route.eventRoles \cup {None}
        BY <1>1, <1>3, <1>5 DEF Answered
  <2> QED BY <1>2, <1>5, <2>1, ReplyParts DEF RefusalTrue, Had
<1>6. CASE reason = "event-permission-mismatch"
  <2>1. \E s \in permissionsSeen'[r] : /\ s[1] = <<user'[r].userId, resolvedEventId'[r]>>
                                       /\ ~(request'[r].route.permissions \subseteq s[2])
        BY <1>1, <1>3, <1>6 DEF Answered
  <2> QED BY <1>2, <1>6, <2>1, ReplyParts DEF RefusalTrue, Had
<1> QED BY <1>2, <1>4, <1>5, <1>6 DEF Answered

\* A reply that was true stays true: what it was about is kept, and the
\* histories it speaks of only grow.
LEMMA TruthKept ==
    ASSUME Known, CountInv, CountInv', [Next]_vars, NEW r \in Requests, pc[r] # 0,
           Untouched(r), RefusalTrue(r)
    PROVE  RefusalTrue(r)'
<1> DEFINE before == {k \in charged \ {<<r, pc[r]>>} : request[k[1]].client = request[r].client}
           after  == {k \in charged' \ {<<r, pc'[r]>>} :
                         request'[k[1]].client = request'[r].client}
<1>1. Grown
      BY HistoryGrows
<1>2. Cardinality(before) <= Cardinality(after) /\ Cardinality(after) \in Int
           /\ Cardinality(before) \in Int
  <2>1. \A k \in charged : request'[k[1]].client = request[k[1]].client
        BY ChargedKept DEF CountInv
  <2>2. before \in SUBSET after
        BY <1>1, <2>1 DEF Grown, Untouched
  <2>3. IsFiniteSet(after)
    <3>1. after \in SUBSET charged' /\ IsFiniteSet(charged')
          BY DEF CountInv
    <3> QED BY <3>1, FS_Subset
  <2>4. IsFiniteSet(before) /\ Cardinality(before) <= Cardinality(after)
        BY <2>2, <2>3, FS_Subset
  <2> QED BY <2>3, <2>4, FS_CardinalityType
<1>3. outcome[r] = RateLimitExceeded => Limit <= Cardinality(before)
      BY DEF RefusalTrue
<1>4. outcome'[r] = RateLimitExceeded => Limit <= Cardinality(after)
      BY <1>2, <1>3, BoundsAssumption DEF Untouched
<1> HIDE DEF before
<1>5. /\ roleSeen[r] \subseteq roleSeen'[r] /\ permissionsSeen[r] \subseteq permissionsSeen'[r]
      /\ UNCHANGED <<config, request[r], user[r], resolvedEventId[r], outcome[r]>>
      BY <1>1 DEF Grown, Untouched
<1>6. /\ outcome[r].reason = "event-role-not-found" =>
            Had(roleSeen, r, LAMBDA role : role = None)'
      /\ outcome[r].reason = "event-role-mismatch" =>
            Had(roleSeen, r, LAMBDA role : role \notin request[r].route.eventRoles \cup {None})'
      /\ outcome[r].reason = "event-permission-mismatch" =>
            Had(permissionsSeen, r, LAMBDA granted : ~(request[r].route.permissions \subseteq granted))'
      BY <1>5 DEF RefusalTrue, Had
<1> QED BY <1>4, <1>5, <1>6 DEF RefusalTrue, Had

ReplyInv ==
    /\ CountInv
    /\ \A r \in Requests : (pc[r] = 0 => outcome[r] = Pending) /\ RefusalTrue(r)

\* A reply is true when it is given, and stays so because nothing about an ended
\* request changes and histories only grow.
LEMMA ReplyStep ==
    ASSUME Known, ReplyInv, [Next]_vars
    PROVE  ReplyInv'
<1>1. CountInv /\ CountInv'
      BY CountStep DEF ReplyInv
<1> SUFFICES ASSUME NEW r \in Requests
             PROVE  (pc'[r] = 0 => outcome'[r] = Pending) /\ RefusalTrue(r)'
    BY <1>1 DEF ReplyInv
<1>2. CASE pc[r] # 0 /\ outcome[r] # Pending
  <2>1. Untouched(r)
        BY <1>2, Settled
  <2> QED BY <1>1, <1>2, <2>1, TruthKept DEF ReplyInv, Untouched
<1>3. CASE outcome'[r] = Pending
      BY <1>3, QuietReplies, QuietTrueNext
<1>4. CASE outcome[r] = Pending /\ outcome'[r] # Pending
  <2>1. Advance(r)
    <3>1. ASSUME NEW q \in Requests \ {r}, Arrive(q) \/ Advance(q)
          PROVE  UNCHANGED outcome[r]
          BY <3>1, OthersStand DEF Untouched, Known, ChainInv
    <3>2. ~Arrive(r)
          BY <1>4 DEF Arrive, Pass
    <3>3. ~Change /\ ~Tick /\ ~UNCHANGED vars
          BY <1>4 DEF Change, Tick, vars
    <3> QED BY <1>4, <3>1, <3>2, <3>3 DEF Next
  <2>2. pc'[r] # 0
    <3>1. pc[r] # 0
          BY <2>1, GuardPassed DEF Known
    <3>2. pc[r] \in Nat
          BY DEF Known, ChainInv, RequestInv
    <3> QED BY <3>1, <3>2, Moving
  <2>3. RefusalTrue(r)'
    <3>1. CASE HeaderAuth(r) \/ CookieAuth(r)
          BY <1>4, <3>1, AuthTrue
    <3>2. CASE Role(r) \/ ZeroTrust(r) \/ RateLimit(r)
          BY <1>1, <1>4, <3>2, PlainTrue
    <3>3. CASE EventRole(r) \/ EventPermission(r)
          BY <1>4, <3>3, EventAnswers, AskTrue, HearTrue
    <3>4. CASE ResolverFails(r) \/ Handle(r)
      <4>1. outcome'[r] \in {InternalServerError, Handled}
            BY <3>4 DEF ResolverFails, Handle, Deny, Known, ChainInv, Shape
      <4> QED BY <4>1, QuietReplies, QuietTrueNext
    <3> QED BY <2>1, <3>1, <3>2, <3>3, <3>4 DEF Advance
  <2> QED BY <2>2, <2>3
<1> QED BY <1>2, <1>3, <1>4 DEF ReplyInv

\* Every reply is true in every state after it, and no place of the limiter is
\* taken without a counting (RateLimitGuard and the event guards).
THEOREM RepliesKept == Spec => []ReplyInv
<1>1. Init => ReplyInv
  <2> SUFFICES ASSUME Init PROVE ReplyInv
      OBVIOUS
  <2>1. CountInv
    <3>1. \A c \in Clients : ChargedTo(c) = {} /\ taken[c] = 0
          BY DEF Init, ChargedTo, Limiter!Init
    <3>2. charged = {} /\ IsFiniteSet({}) /\ Cardinality({}) = 0
          BY FS_EmptySet DEF Init
    <3> QED BY <3>1, <3>2 DEF CountInv
  <2>2. \A r \in Requests : outcome[r] = Pending
        BY DEF Init
  <2> QED BY <2>1, <2>2, QuietReplies, QuietTrue DEF ReplyInv
<1>2. ChainInv /\ IdentityInv /\ TypeInv /\ ReplyInv /\ [Next]_vars => ReplyInv'
      BY ReplyStep DEF Known
<1> QED BY <1>1, <1>2, ChainCorrect, IdentityCorrect, ChainTyped, PTL DEF Spec

\* A client that is turned away with a reason is told the truth, whatever other
\* requests the shared guards and the limiter serve meanwhile.
THEOREM RepliesTrue == Spec => []RefusalsTrue
<1>1. ReplyInv => RefusalsTrue
      BY DEF ReplyInv, RefusalsTrue
<1> QED BY <1>1, RepliesKept, PTL
=============================================================================
