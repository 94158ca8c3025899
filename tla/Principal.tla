----------------------------- MODULE Principal -----------------------------
(***************************************************************************)
(* What the package makes of a request before anyone decides on it: the    *)
(* principal of a verified token (SecurityPrincipalResolver, JwtStrategy), *)
(* its realm roles (extract-roles, role-filter) and the event the request  *)
(* is about (extract-event-id).  Pure functions, in src/auth.              *)
(***************************************************************************)
EXTENDS Sequences, SequencesExt

CONSTANTS
    None,           \* undefined, null: a claim or a field that is missing
    RealmRoles,     \* the values of RealmRoleType
    Ignored         \* IGNORED_KEYCLOAK_ROLES

\* The priority list of resolvePrimaryRole.
Priority == <<"ADMIN", "USER", "SUPREME", "ELITE", "BASIC", "GUEST">>

\* The first value of a sequence that is there.
FirstOf(values, missing) ==
    LET present == {i \in DOMAIN values : values[i] \notin missing}
    IN  IF present = {} THEN None ELSE values[Min(present)]
-----------------------------------------------------------------------------
\* filterRelevantRoles: technical roles go, only roles of the enum stay.
filterRelevantRoles(roles) == {r \in roles : r \notin Ignored /\ r \in RealmRoles}

\* Roles of realm_access and of every resource_access.
extractUserRoles(raw) == filterRelevantRoles(raw.realmRoles \cup raw.resourceRoles)

resolvePrimaryRole(roles) == FirstOf(Priority, ToSet(Priority) \ roles)

\* A principal of one of two types, or the reason why there is none.
NoPrincipal(why) ==
    [type |-> why, userId |-> None, actorId |-> None, tenantId |-> None, roles |-> {}]

\* Mutant: the tenant header is believed.
TenantNeverRefused(claims, configured, headerTenantId) == FALSE

\* The configured claim decides alone.  Else a token that lists tenants must
\* list the one the header asks for; the singular claim is the last resort.
TenantRefused(claims, configured, headerTenantId) ==
    /\ ~configured
    /\ claims.tenant_ids # {}
    /\ headerTenantId \notin claims.tenant_ids

resolveTenantClaim(claims, configured, headerTenantId) ==
    IF configured THEN claims.configuredClaim
    ELSE IF claims.tenant_ids # {} THEN headerTenantId ELSE claims.tenantId

\* No subject, no principal; an internal user id makes a user, the caller's
\* hint a service; any other token is turned away.
fromVerifiedJwt(claims, roles, configured, headerTenantId, hint) ==
    LET tenant == resolveTenantClaim(claims, configured, headerTenantId)
    IN  CASE claims.sub = None -> NoPrincipal("undefined")
          [] claims.sub # None /\ TenantRefused(claims, configured, headerTenantId) ->
                NoPrincipal("unauthorizedTenant")
          [] OTHER ->
                IF claims.userId # None
                  THEN [type |-> "USER", userId |-> claims.userId, actorId |-> claims.userId,
                        tenantId |-> tenant, roles |-> roles]
                ELSE IF hint = "SERVICE"
                  THEN [type |-> "SERVICE", userId |-> None, actorId |-> claims.sub,
                        tenantId |-> tenant, roles |-> roles]
                ELSE NoPrincipal("undefined")

\* Mutant: the principal's type is not looked at.
validateAnyone(payload, configured, headerTenantId) ==
    fromVerifiedJwt(payload, extractUserRoles(payload), configured, headerTenantId, None)

\* JwtStrategy.validate: the user of a request, or the reason why there is
\* none.  The strategy gives no hint and takes users only.
validate(payload, configured, headerTenantId) ==
    LET p == fromVerifiedJwt(payload, extractUserRoles(payload), configured, headerTenantId, None)
    IN  CASE p.type \in {"USER", "unauthorizedTenant"} -> p
          [] p.type = "undefined" -> NoPrincipal("missing_subject")
          [] OTHER                -> NoPrincipal("missing_user_claim")
-----------------------------------------------------------------------------
\* An event id that is an empty string.
EmptyId == "empty"

\* The places of a GraphQL operation that may name an event, in the order they
\* are looked at; any string counts, the empty one too.
Operation(source) ==
    <<source.eventId, source.inputEventId, source.firstInputEventId, source.filterEventId>>

\* Mutant: the active event goes before the operation.
extractActiveEventId(source) ==
    LET context == FirstOf(<<source.header, source.cookie>>, {None, EmptyId})
    IN  IF context # None THEN context ELSE FirstOf(Operation(source), {None, EmptyId})

\* extractEventId: the operation, then the header, then the cookie, which both
\* count only when they are not blank.  An empty id is no id for the guards.
extractEventId(source) ==
    LET operation == FirstOf(Operation(source), {None})
        context   == FirstOf(<<source.header, source.cookie>>, {None, EmptyId})
    IN  IF operation = None THEN context
        ELSE IF operation = EmptyId THEN None ELSE operation
=============================================================================
