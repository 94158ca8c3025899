---------------------------- MODULE GuardChain ----------------------------
(***************************************************************************)
(* The guards a request passes before its handler runs (SecurityModule and *)
(* src/auth): the global ones in the order SecurityModule registers them,  *)
(* then those of the route.  Guards are shared by all requests; the event  *)
(* guards and the limiter await answers, and meanwhile other requests run  *)
(* and event roles and permissions change.                                 *)
(***************************************************************************)
EXTENDS Principal, Exceptions, Integers, FiniteSets

CONSTANTS
    Requests,
    Configs,        \* options: [globalGuards, rateLimit, tenantClaim : BOOLEAN]
    Arrivals,       \* what may arrive at an application with some options, see Request
    Tenants, Users, Events,
    EventRoles, Permissions,
    Clients, Limit, Window,     \* of the rate limiter, see FixedWindow
    MaxChain        \* bound: the longest chain of guards

\* A request: where it goes, the tokens and the tenant it carries, where it
\* names an event, and the address it comes from.
Request(route, bearer, cookie, tenant, source, client) ==
    [route |-> route, with |-> [bearer |-> bearer, cookie |-> cookie, tenant |-> tenant],
     source |-> source, client |-> client]

\* What arrives is made by Request, and a route lists the guards that
\* authenticate before those that ask about an event.
ASSUME ArrivalsAssumption == \A c \in Configs : \A a \in Arrivals[c] :
    /\ a = Request(a.route, a.with.bearer, a.with.cookie, a.with.tenant, a.source, a.client)
    /\ a.route.guards \in Seq({"HeaderAuth", "CookieAuth", "Role", "ZeroTrust", "RateLimit",
                               "EventRole", "EventPermission"})
    /\ Len(a.route.guards) + 4 <= MaxChain
    /\ \A n, m \in DOMAIN a.route.guards :
          /\ a.route.guards[n] \in {"HeaderAuth", "CookieAuth"}
          /\ a.route.guards[m] \in {"EventRole", "EventPermission"}
          => n < m

\* The internal user id a token carries is not its Keycloak subject.
ASSUME SubjectAssumption == \A c \in Configs : \A a \in Arrivals[c] :
    \A token \in {a.with.bearer, a.with.cookie} \ {None} :
        token.userId # None => token.userId # token.sub

\* What requests and tokens name is a user, a tenant, an event or a client.
ASSUME NamesAssumption == \A c \in Configs : \A a \in Arrivals[c] :
    /\ \A token \in {a.with.bearer, a.with.cookie} \ {None} :
          /\ token.userId \in Users \cup {None}
          /\ {token.tenantId, token.configuredClaim} \subseteq Tenants \cup {None}
          /\ token.tenant_ids \subseteq Tenants
    /\ ToSet(Operation(a.source)) \cup {a.source.header, a.source.cookie}
          \subseteq Events \cup {None, EmptyId}
    /\ a.client \in Clients

ASSUME BoundsAssumption == Limit \in Nat /\ Window \in Nat /\ MaxChain \in Nat

VARIABLES
    config,         \* the options the application runs with
    request,        \* each request: route, credentials, source, client
    pc,             \* how many guards of its chain a request has passed
    waiting,        \* is it awaiting an answer of the guard it is at?
    user,           \* req.user, as a principal
    resolvedEventId,    \* the event id the guards left on the request
    outcome,        \* Pending, Handled, or the exception the request ended with
    eventRole, permissions,         \* the applications' projections
    open, taken, since, verdict,    \* the rate limiter, as FixedWindow shows it
    charged,        \* history: the countings, see Countings
    roleSeen, permissionsSeen       \* history: what the user had for the event
                                    \* while a guard asked for it

limiter == <<open, taken, since, verdict>>
access  == <<eventRole, permissions>>
history == <<charged, roleSeen, permissionsSeen>>
vars    == <<config, request, pc, waiting, user, resolvedEventId, outcome,
             access, limiter, history>>

\* The limiter may be global and in the route: it counts a request at each
\* place of its chain where it stands.
Countings == Requests \X (1..MaxChain)

Limiter == INSTANCE FixedWindow WITH Requests <- Countings

Nobody == NoPrincipal("none")

\* Outcomes other than exceptions.
Pending == HttpException(0)
Handled == HttpException(200)

NoRoute == [guards |-> <<>>, roles |-> {}, eventRoles |-> {}, permissions |-> {},
            health |-> FALSE]
-----------------------------------------------------------------------------
\* Mutant: the limiter is registered first.
GlobalGuardsLimiterFirst ==
    (IF config.rateLimit THEN <<"RateLimit">> ELSE <<>>)
      \o (IF config.globalGuards THEN <<"HeaderAuth", "Role", "ZeroTrust">> ELSE <<>>)

\* APP_GUARD providers run in the order they are registered, before the
\* guards of the route.
GlobalGuards ==
    (IF config.globalGuards THEN <<"HeaderAuth", "Role", "ZeroTrust">> ELSE <<>>)
      \o (IF config.rateLimit THEN <<"RateLimit">> ELSE <<>>)

Chain(r) == GlobalGuards \o request[r].route.guards

At(r, guard) ==
    /\ outcome[r] = Pending
    /\ pc[r] \in DOMAIN Chain(r)
    /\ Chain(r)[pc[r]] = guard

Pass(r) == pc' = [pc EXCEPT ![r] = @ + 1] /\ UNCHANGED outcome

Deny(r, exception) == outcome' = [outcome EXCEPT ![r] = exception] /\ UNCHANGED pc

\* Mutant: every required role is asked for.
RoleAllowedEvery(required, roles) == required \subseteq roles

\* What RoleGuard and the permission guard ask of the user.
RoleAllowed(required, roles) == required = {} \/ required \cap roles # {}

hasEveryEventPermission(actual, required) == required \subseteq actual
-----------------------------------------------------------------------------
Init ==
    /\ config \in Configs
    /\ request = [r \in Requests |-> [route |-> NoRoute]]
    /\ pc      = [r \in Requests |-> 0]
    /\ waiting = [r \in Requests |-> FALSE]
    /\ user    = [r \in Requests |-> Nobody]
    /\ resolvedEventId = [r \in Requests |-> None]
    /\ outcome = [r \in Requests |-> Pending]
    /\ eventRole   = [ue \in Users \X Events |-> None]
    /\ permissions = [ue \in Users \X Events |-> {}]
    /\ Limiter!Init
    /\ charged = {}
    /\ roleSeen        = [r \in Requests |-> {}]
    /\ permissionsSeen = [r \in Requests |-> {}]

Arrive(r) ==
    /\ pc[r] = 0
    /\ \E a \in Arrivals[config] : request' = [request EXCEPT ![r] = a]
    /\ Pass(r)
    /\ UNCHANGED <<config, waiting, user, resolvedEventId, access, limiter, history>>

\* Whom and which event an event guard asks about.
Asked(r) == <<user[r].userId, extractEventId(request[r].source)>>

\* What the resolver might answer the guard a request waits at.
Seen(r, guard, projection) ==
    IF At(r, guard) /\ waiting[r] THEN {<<Asked(r), projection[Asked(r)]>>} ELSE {}

Observe ==
    /\ roleSeen'        = [r \in Requests |-> roleSeen[r] \cup Seen(r, "EventRole", eventRole)']
    /\ permissionsSeen' = [r \in Requests |->
                             permissionsSeen[r] \cup Seen(r, "EventPermission", permissions)']

\* AuthGuard('jwt'): passport answers 401 without a token, else it verifies the
\* token and calls validate, whose exception it passes on.
Authenticate(r, token) ==
    /\ LET principal == IF token = None THEN Nobody
                        ELSE validate(token, config.tenantClaim, request[r].with.tenant)
       IN  IF principal.type = "USER"
             THEN Pass(r) /\ user' = [user EXCEPT ![r] = principal]
             ELSE /\ Deny(r, CASE principal = Nobody -> Unauthorized
                               [] principal.type = "unauthorizedTenant" -> UnauthorizedTenant
                               [] OTHER -> InvalidCredentials(principal.type))
                  /\ UNCHANGED user
    /\ UNCHANGED <<config, waiting, resolvedEventId, access, limiter, history>>

HeaderAuth(r) ==
    /\ At(r, "HeaderAuth")
    /\ UNCHANGED request
    /\ Authenticate(r, request[r].with.bearer)

\* The cookie's token goes before the header's, and stays in the header, where
\* later guards find it.
CookieAuth(r) ==
    /\ At(r, "CookieAuth")
    /\ LET carried == request[r].with
           token   == IF carried.cookie # None THEN carried.cookie ELSE carried.bearer
       IN  /\ request' = [request EXCEPT ![r].with.bearer = token]
           /\ Authenticate(r, token)

Role(r) ==
    /\ At(r, "Role")
    /\ LET required == request[r].route.roles
       IN  CASE required = {} -> Pass(r)
             [] required # {} /\ user[r] = Nobody ->
                   Deny(r, ForbiddenOperation("unauthenticated"))
             [] OTHER -> IF RoleAllowed(required, user[r].roles)
                           THEN Pass(r) ELSE Deny(r, ForbiddenOperation("missing-role"))
    /\ UNCHANGED <<config, request, waiting, user, resolvedEventId, access, limiter, history>>

\* ZeroTrustGuard: nobody is denied, for a user any decision may come, or an
\* error of a store (see module ZeroTrust).
Decisions ==
    {AccessBlocked, StepUpRequired("TOTP"), StepUpRequired("WEBAUTHN"), InternalServerError}

ZeroTrust(r) ==
    /\ At(r, "ZeroTrust")
    /\ IF user[r] = Nobody THEN Deny(r, Forbidden)
                           ELSE Pass(r) \/ \E decision \in Decisions : Deny(r, decision)
    /\ UNCHANGED <<config, request, waiting, user, resolvedEventId, access, limiter, history>>

\* /health is exempt, and with limiting disabled so is every request.
Limited(r) == config.rateLimit /\ ~request[r].route.health

\* RateLimitGuard: requests are counted and then let through, refused, or lost
\* with a failing store, unless they are exempt.
RateLimit(r) ==
    /\ At(r, "RateLimit")
    /\ LET c == request[r].client
           k == <<r, pc[r]>>
       IN  \/ ~Limited(r) /\ Pass(r) /\ UNCHANGED <<limiter, charged>>
           \/ /\ Limited(r)
              /\ \/ Limiter!Grant(k, c) /\ Pass(r)
                 \/ Limiter!Refuse(k, c) /\ Deny(r, RateLimitExceeded)
                 \/ Limiter!Lose(c) /\ Deny(r, InternalServerError)
              /\ charged' = charged \cup {k}
    /\ UNCHANGED <<config, request, waiting, user, resolvedEventId, access,
                   roleSeen, permissionsSeen>>

\* Mutant: the id is kept where all requests find it, not on the request.
AskShared(r, guard, required) ==
    /\ At(r, guard)
    /\ ~waiting[r]
    /\ LET eventId == extractEventId(request[r].source)
       IN  IF required = {}
             THEN Pass(r) /\ UNCHANGED <<waiting, resolvedEventId>>
           ELSE IF user[r] = Nobody \/ eventId = None
             THEN /\ Deny(r, EventAccessDenied(IF user[r] = Nobody THEN "unauthenticated"
                                                                  ELSE "event-id-missing"))
                  /\ UNCHANGED <<waiting, resolvedEventId>>
             ELSE /\ resolvedEventId' = [q \in Requests |-> eventId]
                  /\ waiting' = [waiting EXCEPT ![r] = TRUE]
                  /\ UNCHANGED <<pc, outcome>>
    /\ UNCHANGED <<config, request, user, access, limiter, charged>>
    /\ Observe

\* The part of an event guard before its await: nothing required passes;
\* without a user or an event id it throws; else the id is left on the request
\* and the resolver is asked.
Ask(r, guard, required) ==
    /\ At(r, guard)
    /\ ~waiting[r]
    /\ LET eventId == extractEventId(request[r].source)
       IN  IF required = {}
             THEN Pass(r) /\ UNCHANGED <<waiting, resolvedEventId>>
           ELSE IF user[r] = Nobody \/ eventId = None
             THEN /\ Deny(r, EventAccessDenied(IF user[r] = Nobody THEN "unauthenticated"
                                                                  ELSE "event-id-missing"))
                  /\ UNCHANGED <<waiting, resolvedEventId>>
             ELSE /\ resolvedEventId' = [resolvedEventId EXCEPT ![r] = eventId]
                  /\ waiting' = [waiting EXCEPT ![r] = TRUE]
                  /\ UNCHANGED <<pc, outcome>>
    /\ UNCHANGED <<config, request, user, access, limiter, charged>>
    /\ Observe

\* The part after it: the answer is about the id the guard extracted, and the
\* request goes on or ends with a reason.
Hear(r, guard, reason) ==
    /\ At(r, guard)
    /\ waiting[r]
    /\ waiting' = [waiting EXCEPT ![r] = FALSE]
    /\ IF reason = "none" THEN Pass(r) ELSE Deny(r, EventAccessDenied(reason))
    /\ UNCHANGED <<config, request, user, resolvedEventId, access, limiter, history>>

EventRole(r) ==
    \/ Ask(r, "EventRole", request[r].route.eventRoles)
    \/ Hear(r, "EventRole",
            CASE eventRole[Asked(r)] = None -> "event-role-not-found"
              [] eventRole[Asked(r)] \in request[r].route.eventRoles -> "none"
              [] OTHER -> "event-role-mismatch")

EventPermission(r) ==
    \/ Ask(r, "EventPermission", request[r].route.permissions)
    \/ Hear(r, "EventPermission",
            IF hasEveryEventPermission(permissions[Asked(r)], request[r].route.permissions)
              THEN "none" ELSE "event-permission-mismatch")

\* A resolver rejects: the request ends with its error.
ResolverFails(r) ==
    /\ outcome[r] = Pending
    /\ waiting[r]
    /\ waiting' = [waiting EXCEPT ![r] = FALSE]
    /\ Deny(r, InternalServerError)
    /\ UNCHANGED <<config, request, user, resolvedEventId, access, limiter, history>>

\* The role CurrentUser gives the handler.
currentRole(r) == resolvePrimaryRole(user[r].roles)

\* All guards passed: the handler runs, with CurrentUser and CurrentEventId.
Handle(r) ==
    /\ outcome[r] = Pending
    /\ pc[r] = Len(Chain(r)) + 1
    /\ outcome' = [outcome EXCEPT ![r] = Handled]
    /\ UNCHANGED <<config, request, pc, waiting, user, resolvedEventId, access, limiter, history>>

\* Event roles and permissions are given and taken by the applications.  Only
\* changes while a guard waits for an answer matter, for nobody else looks.
Change ==
    /\ \E r \in Requests : waiting[r]
    /\ \/ /\ \E ue \in Users \X Events, role \in EventRoles \cup {None} :
                eventRole' = [eventRole EXCEPT ![ue] = role]
          /\ UNCHANGED permissions
       \/ /\ \E ue \in Users \X Events, granted \in SUBSET Permissions :
                permissions' = [permissions EXCEPT ![ue] = granted]
          /\ UNCHANGED eventRole
    /\ UNCHANGED <<config, request, pc, waiting, user, resolvedEventId, outcome, limiter, charged>>
    /\ Observe

\* The limiter's windows run.
Tick ==
    /\ Limiter!Pass
    /\ UNCHANGED <<config, request, pc, waiting, user, resolvedEventId, outcome, access, history>>

Advance(r) ==
    \/ HeaderAuth(r) \/ CookieAuth(r) \/ Role(r) \/ ZeroTrust(r) \/ RateLimit(r)
    \/ EventRole(r) \/ EventPermission(r) \/ ResolverFails(r) \/ Handle(r)

Next == Change \/ Tick \/ \E r \in Requests : Arrive(r) \/ Advance(r)

Spec == Init /\ [][Next]_vars
-----------------------------------------------------------------------------
(***************************************************************************)
(* Properties.                                                             *)
(***************************************************************************)
Principals ==
    [type : {"none", "USER"}, userId : Users \cup {None}, actorId : Users \cup {None},
     tenantId : Tenants \cup {None}, roles : SUBSET RealmRoles]

Codes == {"none", "INVALID_CREDENTIALS", "UNAUTHORIZED_TENANT", "FORBIDDEN", "ACCESS_BLOCKED",
          "STEP_UP_REQUIRED", "RATE_LIMIT_EXCEEDED", "EVENT_ACCESS_DENIED"}
Reasons == {"none", "missing_subject", "missing_user_claim", "unauthenticated", "missing-role",
            "TOTP", "WEBAUTHN", "event-id-missing", "event-role-not-found",
            "event-role-mismatch", "event-permission-mismatch"}

\* Every variable stays in its set, and req.user is nobody or a user, never a
\* service (src/auth/jwt/jwt.strategy.ts, validate).
TypeOK ==
    /\ config  \in Configs
    /\ \A r \in Requests : pc[r] # 0 =>
          \E a \in Arrivals[config] : request[r] \in {a, [a EXCEPT !.with.bearer = a.with.cookie]}
    /\ \A r \in Requests : pc[r] \in 0..(Len(Chain(r)) + 1)
    /\ waiting \in [Requests -> BOOLEAN]
    /\ user    \in [Requests -> Principals]
    /\ resolvedEventId \in [Requests -> Events \cup {None}]
    /\ \A r \in Requests :
          /\ outcome[r] \in [status : {0, 200, 401, 403, 429, 500}, code : Codes, reason : Reasons]
          /\ outcome[r] \in {Pending, Handled} <=> outcome[r].status \in {0, 200}
    /\ eventRole   \in [Users \X Events -> EventRoles \cup {None}]
    /\ permissions \in [Users \X Events -> SUBSET Permissions]
    /\ open    \in [Clients -> BOOLEAN]
    /\ taken   \in [Clients -> 0..Limit]
    /\ since   \in [Clients -> 0..Window]
    /\ verdict \in [Countings -> {"none", "granted", "refused"}]
    /\ charged \subseteq Countings
    /\ \A r \in Requests :
          /\ roleSeen[r]        \subseteq (Users \X Events) \X (EventRoles \cup {None})
          /\ permissionsSeen[r] \subseteq (Users \X Events) \X SUBSET Permissions

Guarded(r, guard) == \E n \in DOMAIN Chain(r) : Chain(r)[n] = guard

\* Was something like this seen for the user and the event of the request?
Had(seen, r, Test(_)) ==
    \E s \in seen[r] : s[1] = <<user[r].userId, resolvedEventId[r]>> /\ Test(s[2])

\* A handler behind the event guards runs only for a user who, while the guards
\* asked, had a required role and all required permissions for the very event
\* CurrentEventId gives the handler, whatever other requests the shared guards
\* serve and whatever changes between the two guards' answers.
HandlerEntitled ==
    \A r \in Requests : outcome[r] = Handled =>
        LET route == request[r].route
        IN  /\ Guarded(r, "EventRole") /\ route.eventRoles # {} =>
                  Had(roleSeen, r, LAMBDA role : role \in route.eventRoles)
            /\ Guarded(r, "EventPermission") /\ route.permissions # {} =>
                  Had(permissionsSeen, r, LAMBDA granted : route.permissions \subseteq granted)

\* What the reply to a request says is so.
RefusalTrue(r) ==
    LET told   == outcome[r]
        route  == request[r].route
        source == request[r].source
        tokens == {request[r].with.bearer, request[r].with.cookie}
    IN  /\ told = Unauthorized => None \in tokens
        /\ told.code = "INVALID_CREDENTIALS" =>
              \E token \in tokens \ {None} : None \in {token.sub, token.userId}
        /\ told = UnauthorizedTenant =>
              /\ ~config.tenantClaim
              /\ \E token \in tokens \ {None} : request[r].with.tenant \notin token.tenant_ids
        /\ told.reason = "unauthenticated" => user[r] = Nobody
        /\ told.reason = "missing-role"    => user[r].roles \cap route.roles = {}
        /\ told.reason = "event-id-missing" =>
              \/ EmptyId \in ToSet(Operation(source))
              \/ ToSet(Operation(source)) \cup {source.header, source.cookie} \subseteq {None, EmptyId}
        /\ told.reason = "event-role-not-found" => Had(roleSeen, r, LAMBDA role : role = None)
        /\ told.reason = "event-role-mismatch" =>
              Had(roleSeen, r, LAMBDA role : role \notin route.eventRoles \cup {None})
        /\ told.reason = "event-permission-mismatch" =>
              Had(permissionsSeen, r, LAMBDA granted : ~(route.permissions \subseteq granted))
        /\ told = RateLimitExceeded =>
              Limit <= Cardinality({k \in charged \ {<<r, pc[r]>>} :
                                       request[k[1]].client = request[r].client})

\* A client that is turned away with a reason is told the truth: the token, the
\* tenant, the role or the permission the reply complains about was missing
\* when the guard asked, for the event CurrentEventId names, or Limit earlier
\* countings had used up the client's budget.
RefusalsTrue == \A r \in Requests : RefusalTrue(r)

\* An operation that names its event is authorised for an event it names: the
\* active event left in a header or a cookie never takes its place
\* (extract-event-id.util.ts).
OperationNamesEvent ==
    \A r \in Requests :
        resolvedEventId[r] # None /\ ToSet(Operation(request[r].source)) # {None} =>
            resolvedEventId[r] \in ToSet(Operation(request[r].source))

\* While a request is let through, req.user is what one of its tokens says: the
\* internal user id, "never the Keycloak subject" (jwt.strategy.ts:61-64), and
\* a tenant among those the token grants; the role CurrentUser shows is one of
\* its own.
PrincipalFaithful ==
    \A r \in Requests : user[r] # Nobody /\ outcome[r] \in {Pending, Handled} =>
        \E token \in {request[r].with.bearer, request[r].with.cookie} \ {None} :
            /\ user[r].userId = token.userId
            /\ user[r].actorId # token.sub
            /\ user[r].tenantId \in {token.tenantId, token.configuredClaim} \cup token.tenant_ids
            /\ ~config.tenantClaim /\ token.tenant_ids # {} =>
                  user[r].tenantId = request[r].with.tenant
            /\ user[r].roles \subseteq token.realmRoles \cup token.resourceRoles
            /\ currentRole(r) \in user[r].roles \cup {None}

Counted(r) == \E k \in charged : k[1] = r

\* A request the other global guards turn away does not use up the client's
\* rate limit: RateLimitGuard is registered last (security.module.ts:80-90), and
\* none of a route can come before it.
BudgetSpared ==
    [][\A r \in Requests : Counted(r)' /\ ~Counted(r) /\ config.globalGuards /\ config.rateLimit =>
          user[r] # Nobody /\ RoleAllowed(request[r].route.roles, user[r].roles)]_vars
=============================================================================
