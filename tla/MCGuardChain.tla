--------------------------- MODULE MCGuardChain ---------------------------
(***************************************************************************)
(* An instance of GuardChain for TLC: every kind of token, credential,     *)
(* event source and route, with and without the global guards, and with    *)
(* limiting enabled and disabled.                                          *)
(***************************************************************************)
EXTENDS GuardChain, TLC

CONSTANT c1

Symmetry == Permutations(Requests)

Config(globalGuards, rateLimit, tenantClaim) ==
    [globalGuards |-> globalGuards, rateLimit |-> rateLimit, tenantClaim |-> tenantClaim]

\* One application relies on the global guards, the other on those of its routes.
Global == Config(TRUE, TRUE, FALSE)
Local  == Config(FALSE, FALSE, TRUE)

SomeConfigs == {Global, Local}

UserToken ==
    [sub |-> "k1", userId |-> "u1", tenant_ids |-> {"t1"}, tenantId |-> None,
     configuredClaim |-> None, realmRoles |-> {"USER", "offline_access"}, resourceRoles |-> {}]
AdminToken ==
    [UserToken EXCEPT !.tenant_ids = {"t1", "t2"}, !.configuredClaim = "t2",
                      !.resourceRoles = {"ADMIN"}]
OldToken      == [UserToken EXCEPT !.tenant_ids = {}, !.tenantId = "t2", !.realmRoles = {}]
MachineToken  == [UserToken EXCEPT !.userId = None]
NamelessToken == [UserToken EXCEPT !.sub = None]

Silent == [eventId |-> None, inputEventId |-> None, firstInputEventId |-> None,
           filterEventId |-> None, header |-> None, cookie |-> None]

\* The operation names e1 although the user's active event is e2; only the
\* header names one; an empty id hides the cookie.
Named  == [Silent EXCEPT !.inputEventId = "e1", !.header = "e2"]
Active == [Silent EXCEPT !.header = "e2", !.cookie = "e1"]
Blank  == [Silent EXCEPT !.eventId = EmptyId, !.cookie = "e2"]

EventRoute ==
    [guards |-> <<"HeaderAuth", "EventRole", "EventPermission">>, roles |-> {},
     eventRoles |-> {"ADMIN"}, permissions |-> {"edit"}, health |-> FALSE]
RoleRoute   == [EventRoute EXCEPT !.guards = <<"HeaderAuth", "EventRole">>, !.permissions = {}]
AdminRoute  == [NoRoute EXCEPT !.roles = {"ADMIN"}]
HealthRoute == [NoRoute EXCEPT !.health = TRUE]
LimitRoute  == [NoRoute EXCEPT !.guards = <<"RateLimit">>]
CookieRoute == [NoRoute EXCEPT !.guards = <<"CookieAuth", "Role">>, !.roles = {"ADMIN", "USER"}]

\* Routes whose authorizing guard comes without an authenticating one.
Unauthenticated(guard) ==
    [guards |-> <<guard>>, roles |-> {"ADMIN"}, eventRoles |-> {"ADMIN"},
     permissions |-> {}, health |-> FALSE]

GlobalArrivals ==
    { Request(EventRoute,  OldToken,      None,       None, Named,  c1),
      Request(AdminRoute,  UserToken,     None,       "t1", Silent, c1),
      Request(AdminRoute,  AdminToken,    None,       "t2", Silent, c1),
      Request(HealthRoute, UserToken,     None,       "t1", Silent, c1),
      Request(LimitRoute,  UserToken,     None,       "t1", Silent, c1),
      Request(CookieRoute, AdminToken,    UserToken,  "t2", Silent, c1) }

LocalArrivals ==
    { Request(EventRoute,  OldToken,      None,       None, Named,  c1),
      Request(RoleRoute,   OldToken,      None,       None, Active, c1),
      Request(RoleRoute,   OldToken,      None,       None, Blank,  c1),
      Request(CookieRoute, AdminToken,    UserToken,  "t1", Silent, c1),
      Request(CookieRoute, MachineToken,  None,       "t1", Silent, c1),
      Request(CookieRoute, NamelessToken, None,       "t1", Silent, c1),
      Request(CookieRoute, None,          None,       None, Silent, c1),
      Request(LimitRoute,  None,          None,       None, Silent, c1) }
    \cup
    { Request(Unauthenticated(guard), UserToken, None, "t1", Named, c1) :
        guard \in {"Role", "EventRole", "ZeroTrust"} }

AllArrivals == [c \in SomeConfigs |-> IF c = Global THEN GlobalArrivals ELSE LocalArrivals]
=============================================================================
