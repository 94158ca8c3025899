-------------------------- MODULE TenantVerifier --------------------------
(***************************************************************************)
(* TenantVerifierService (src/tenant): is this user an active member of an *)
(* active tenant?  The tenant service knows; positive answers are cached   *)
(* in Valkey for a fixed time.  Handlers interleave with each other, with  *)
(* time and with the tenant service's own changes between a cache read,    *)
(* the RPC and the cache write.  Cache calls and RPCs may fail.            *)
(***************************************************************************)
EXTENDS Integers

CONSTANTS
    Users, Tenants,
    Anonymous,      \* stands for a missing userId
    Handlers,       \* calls of verify that can be in progress at once
    CacheTtl,       \* CACHE_TTL_SECONDS, in ticks
    MaxLag,         \* most ticks from the service's answer to the cache write
    CacheFaulty,    \* may cache calls reject?
    ServiceFaulty   \* may RPCs reject?

ASSUME TtlAssumption   == CacheTtl \in Nat \ {0} /\ MaxLag \in Nat
ASSUME FaultAssumption == CacheFaulty \in BOOLEAN /\ ServiceFaulty \in BOOLEAN
ASSUME NoOneAssumption == Anonymous \notin Users

VARIABLES
    caching,    \* a cache is injected and options.cache is not false
    cache,      \* Valkey: cacheKey -> entry of ExpiringStore
    status,     \* the tenant service: tenant -> its status
    member,     \* the tenant service: <<user, tenant>> -> the membership
    pc,         \* where each handler is
    input,      \* the argument of verify
    outcome,    \* what verify did: returned, or the exception it threw
    lag,        \* ticks since the service answered a handler
    since,      \* history: ticks since a pair was last allowed, up to a bound
    doubted     \* history: was the pair denied at some moment of the call?

external == <<status, member>>
handler  == <<pc, input, outcome, lag>>
vars     == <<caching, cache, external, handler, since, doubted>>

Pairs == Users \X Tenants

\* A missing key reads as null.
Null == "null"
Store == INSTANCE ExpiringStore WITH Nil <- Null

Statuses    == {"missing", "active", "disabled"}
Memberships == {"none", "active", "inactive"}
Locations   == {"idle", "cachedHit", "validateMembership", "cachePositive", "getTenant"}
Denials     == {"tenantNotFound", "tenantDisabled", "membershipNotFound", "membershipInactive"}
Outages     == {"unverified", "unavailable"}

\* httpStatus of the exceptions (src/errors/tenant.exception.ts).
httpStatus(o) == CASE o = "tenantNotFound"              -> 404
                   [] o = "unavailable"                 -> 503
                   [] o = "unverified"                  -> 500
                   [] o \in {"none", "accepted"}        -> 200
                   [] OTHER                             -> 403

Codes       == {"INVALID_ARGUMENT", "NOT_FOUND", "OTHER"}
-----------------------------------------------------------------------------
\* Mutant: the tenant is forgotten in the key.
cacheKeyOfUser(userId, tenantId) == <<userId, CHOOSE t \in Tenants : TRUE>>

\* `tenant:membership:${userId}:${tenantId}`
cacheKey(userId, tenantId) == <<userId, tenantId>>

\* Mutant: an inactive membership passes.
assertMembershipExists(tenant, membership) ==
    IF tenant = "missing"       THEN "tenantNotFound"
    ELSE IF tenant = "disabled" THEN "tenantDisabled"
    ELSE IF membership = "none" THEN "membershipNotFound"
    ELSE "accepted"

\* assertMembershipAllowed: the checks in the order the code makes them.
assertMembershipAllowed(tenant, membership) ==
    IF tenant = "missing"           THEN "tenantNotFound"
    ELSE IF tenant = "disabled"     THEN "tenantDisabled"
    ELSE IF membership = "none"     THEN "membershipNotFound"
    ELSE IF membership = "inactive" THEN "membershipInactive"
    ELSE "accepted"

\* assertTenantExistsAndActive
assertTenantExistsAndActive(tenant) ==
    CASE tenant = "missing"  -> "tenantNotFound"
      [] tenant = "disabled" -> "tenantDisabled"
      [] OTHER               -> "accepted"

\* Mutant: an unavailable service is taken for a missing membership.
MembershipFailureAsAbsence(code) ==
    IF code = "INVALID_ARGUMENT" THEN "unverified" ELSE "membershipNotFound"

\* The exception for a rejected RPC, by its gRPC code.
MembershipFailure(code) == IF code = "INVALID_ARGUMENT" THEN "unverified" ELSE "unavailable"

TenantFailure(code) == CASE code = "NOT_FOUND"        -> "tenantNotFound"
                         [] code = "INVALID_ARGUMENT" -> "unverified"
                         [] OTHER                     -> "unavailable"

\* What the tenant service would say now.
Denied(u, t) ==
    IF u = Anonymous THEN status[t] # "active"
                     ELSE status[t] # "active" \/ member[<<u, t>>] # "active"

StaleBound == CacheTtl + MaxLag
-----------------------------------------------------------------------------
Init ==
    /\ caching \in BOOLEAN
    /\ cache   = [p \in Pairs |-> Store!Gone]
    /\ status  \in [Tenants -> Statuses]
    /\ member  \in [Pairs -> Memberships]
    /\ pc      = [h \in Handlers |-> "idle"]
    /\ input   \in [Handlers -> [userId : {Anonymous}, tenantId : Tenants]]
    /\ outcome = [h \in Handlers |-> "none"]
    /\ lag     = [h \in Handlers |-> 0]
    /\ since   = [p \in Pairs |-> IF Denied(p[1], p[2]) THEN StaleBound ELSE 0]
    /\ doubted = [h \in Handlers |-> FALSE]

\* verify is called; a missing userId goes to getTenant at once.
Verify(h) ==
    /\ pc[h] = "idle"
    /\ \E u \in Users \cup {Anonymous}, t \in Tenants :
          /\ input'   = [input EXCEPT ![h] = [userId |-> u, tenantId |-> t]]
          /\ doubted' = [doubted EXCEPT ![h] = Denied(u, t)]
          /\ pc'      = [pc EXCEPT ![h] = IF u = Anonymous THEN "getTenant" ELSE "cachedHit"]
    /\ outcome' = [outcome EXCEPT ![h] = "none"]
    /\ UNCHANGED <<caching, cache, external, lag, since>>

Finish(h, o) ==
    /\ pc'      = [pc EXCEPT ![h] = "idle"]
    /\ outcome' = [outcome EXCEPT ![h] = o]
    /\ lag'     = [lag EXCEPT ![h] = 0]

Key(h) == cacheKey(input[h].userId, input[h].tenantId)

\* Mutant: a hit renews the entry's expiry.
CachedHitSliding(h) ==
    /\ pc[h] = "cachedHit"
    /\ \/ /\ caching
          /\ Store!Exists(cache[Key(h)])
          /\ cache' = [cache EXCEPT ![Key(h)] = Store!Expire(@, CacheTtl)]
          /\ Finish(h, "accepted")
       \/ /\ ~caching \/ ~Store!Exists(cache[Key(h)]) \/ CacheFaulty
          /\ pc' = [pc EXCEPT ![h] = "validateMembership"]
          /\ UNCHANGED <<cache, outcome, lag>>
    /\ UNCHANGED <<caching, external, input, since, doubted>>

\* Mutant: a failed read is not caught.
CachedHitThrows(h) ==
    /\ pc[h] = "cachedHit"
    /\ \/ /\ caching
          /\ Store!Exists(cache[Key(h)])
          /\ Finish(h, "accepted")
       \/ /\ ~caching \/ ~Store!Exists(cache[Key(h)])
          /\ pc' = [pc EXCEPT ![h] = "validateMembership"]
          /\ UNCHANGED <<outcome, lag>>
       \/ CacheFaulty /\ Finish(h, "unavailable")
    /\ UNCHANGED <<caching, cache, external, input, since, doubted>>

\* cachedHit: a hit accepts; no cache, a miss or a failed read goes on to the
\* tenant service.
CachedHit(h) ==
    /\ pc[h] = "cachedHit"
    /\ \/ /\ caching
          /\ Store!Exists(cache[Key(h)])
          /\ Finish(h, "accepted")
       \/ /\ ~caching \/ ~Store!Exists(cache[Key(h)]) \/ CacheFaulty
          /\ pc' = [pc EXCEPT ![h] = "validateMembership"]
          /\ UNCHANGED <<outcome, lag>>
    /\ UNCHANGED <<caching, cache, external, input, since, doubted>>

\* The service answers validateMembership.  A positive answer is cached before
\* verify returns, later and after others may have moved.
ValidateMembership(h) ==
    /\ pc[h] = "validateMembership"
    /\ LET verdict == assertMembershipAllowed(status[input[h].tenantId],
                                              member[<<input[h].userId, input[h].tenantId>>])
       IN  IF verdict = "accepted"
             THEN /\ pc' = [pc EXCEPT ![h] = "cachePositive"]
                  /\ UNCHANGED <<outcome, lag>>
             ELSE Finish(h, verdict)
    /\ UNCHANGED <<caching, cache, external, input, since, doubted>>

\* Mutant: the entry is written without an expiry.
CachePositiveForever(h) ==
    /\ pc[h] = "cachePositive"
    /\ \/ caching /\ cache' = [cache EXCEPT ![Key(h)] = Store!Set("1", Store!Forever)]
       \/ (~caching \/ CacheFaulty) /\ UNCHANGED cache
    /\ Finish(h, "accepted")
    /\ UNCHANGED <<caching, external, input, since, doubted>>

\* cachePositive, then verify returns; a failed write is ignored.
CachePositive(h) ==
    /\ pc[h] = "cachePositive"
    /\ \/ caching /\ cache' = [cache EXCEPT ![Key(h)] = Store!Set("1", CacheTtl)]
       \/ (~caching \/ CacheFaulty) /\ UNCHANGED cache
    /\ Finish(h, "accepted")
    /\ UNCHANGED <<caching, external, input, since, doubted>>

\* The anonymous path asks for the tenant alone and never touches the cache.
GetTenant(h) ==
    /\ pc[h] = "getTenant"
    /\ Finish(h, assertTenantExistsAndActive(status[input[h].tenantId]))
    /\ UNCHANGED <<caching, cache, external, input, since, doubted>>

\* An RPC rejects.  NOT_FOUND from getTenant is an answer, given when the
\* tenant does not exist; every other code is a failure of the service.
RpcFails(h) ==
    \E code \in Codes :
        /\ \/ /\ pc[h] = "validateMembership"
              /\ ServiceFaulty
              /\ Finish(h, MembershipFailure(code))
           \/ /\ pc[h] = "getTenant"
              /\ IF code = "NOT_FOUND" THEN status[input[h].tenantId] = "missing"
                                       ELSE ServiceFaulty
              /\ Finish(h, TenantFailure(code))
        /\ UNCHANGED <<caching, cache, external, input, since, doubted>>

\* The tenant service's own changes: tenants and memberships come and go.
Change ==
    /\ \/ /\ \E t \in Tenants, s \in Statuses : status' = [status EXCEPT ![t] = s]
          /\ UNCHANGED member
       \/ /\ \E p \in Pairs, m \in Memberships : member' = [member EXCEPT ![p] = m]
          /\ UNCHANGED status
    /\ UNCHANGED <<caching, cache, handler>>
    /\ since'   = [p \in Pairs |-> IF Denied(p[1], p[2])' THEN since[p] ELSE 0]
    /\ doubted' = [h \in Handlers |-> doubted[h] \/
                     (pc[h] # "idle" /\ Denied(input[h].userId, input[h].tenantId)')]

\* One tick: cache entries age.  A handler holding a positive answer gets to
\* write it within MaxLag ticks.
Tick ==
    /\ \A h \in Handlers : pc[h] = "cachePositive" => lag[h] < MaxLag
    /\ cache' = [p \in Pairs |-> Store!Elapse(cache[p])]
    /\ lag'   = [h \in Handlers |-> IF pc[h] = "cachePositive" THEN lag[h] + 1 ELSE 0]
    /\ since' = [p \in Pairs |-> IF Denied(p[1], p[2]) /\ since[p] < StaleBound
                                   THEN since[p] + 1 ELSE since[p]]
    /\ UNCHANGED <<caching, external, pc, input, outcome, doubted>>

Advance(h) ==
    CachedHit(h) \/ ValidateMembership(h) \/ CachePositive(h) \/ GetTenant(h) \/ RpcFails(h)

Next == Tick \/ Change \/ \E h \in Handlers : Verify(h) \/ Advance(h)

\* Awaited calls are answered or rejected, and time passes.
Fairness == WF_vars(Tick) /\ \A h \in Handlers : WF_vars(Advance(h))

Spec == Init /\ [][Next]_vars
FairSpec == Spec /\ Fairness
-----------------------------------------------------------------------------
(***************************************************************************)
(* Properties.                                                             *)
(***************************************************************************)
\* Every variable stays in its set; cache entries always have an expiry
\* (src/tenant/tenant-verifier.service.ts).
TypeOK ==
    /\ caching \in BOOLEAN
    /\ cache   \in [Pairs -> [val : {"1", Null}, left : 0..CacheTtl]]
    /\ status  \in [Tenants -> Statuses]
    /\ member  \in [Pairs -> Memberships]
    /\ pc      \in [Handlers -> Locations]
    /\ input   \in [Handlers -> [userId : Users \cup {Anonymous}, tenantId : Tenants]]
    /\ outcome \in [Handlers -> {"none", "accepted"} \cup Denials \cup Outages]
    /\ lag     \in [Handlers -> 0..MaxLag]
    /\ since   \in [Pairs -> 0..StaleBound]
    /\ doubted \in [Handlers -> BOOLEAN]

Accepts(h) == pc[h] # "idle" /\ pc'[h] = "idle" /\ outcome'[h] = "accepted"

\* A user is accepted only if the tenant service would have said yes less than
\* CACHE_TTL_SECONDS plus one write's delay ago, for this very pair; without a
\* cache the delay alone.  Repeated hits never stretch the bound.
StalenessBound ==
    [][\A h \in Handlers : Accepts(h) /\ input[h].userId # Anonymous =>
          LET s == since[<<input[h].userId, input[h].tenantId>>]
          IN  IF caching THEN s < StaleBound ELSE s <= MaxLag]_vars

\* A rejection that names a reason about the tenant or the membership is true:
\* the caller was not allowed at some moment of the call.  No cache state, race
\* or failure turns a member away with a wrong reason.
DenialsJustified == \A h \in Handlers : outcome[h] \in Denials => doubted[h]

\* A failing cache alone never fails a call: with the tenant service up no call
\* ends in an error of the server.
CacheFaultsHarmless ==
    ~ServiceFaulty => \A h \in Handlers : httpStatus(outcome[h]) < 500

\* Handlers, cache and tenant service together keep the promise TenantAnswers
\* makes to the callers of verify.
Verdict(o) == CASE o \in Denials -> "refused"
                [] o \in Outages -> "failed"
                [] OTHER         -> o

Promise == INSTANCE TenantAnswers WITH
    Bound   <- StaleBound,
    Faulty  <- ServiceFaulty,
    allowed <- {q \in (Users \cup {Anonymous}) \X Tenants : ~Denied(q[1], q[2])},
    age     <- since,
    asking  <- [h \in Handlers |-> IF pc[h] = "idle" THEN {}
                                   ELSE {<<input[h].userId, input[h].tenantId>>}],
    answer  <- [h \in Handlers |-> Verdict(outcome[h])]

ImplementsTenantAnswers == Promise!Spec

\* The inductive core of StalenessBound: a cache entry's age plus one write's
\* delay bounds how long ago the pair was allowed.
FreshInv ==
    /\ \A p \in Pairs : Store!Exists(cache[p]) =>
          since[p] <= (CacheTtl - cache[p].left) + MaxLag
    /\ \A h \in Handlers : pc[h] = "cachePositive" =>
          since[<<input[h].userId, input[h].tenantId>>] <= lag[h]

\* When a membership is withdrawn for good, the cache forgets it for good.
RevocationTakesEffect ==
    \A p \in Pairs :
        <>[]Denied(p[1], p[2]) => <>[]~Store!Exists(cache[p])
=============================================================================
