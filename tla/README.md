# A model of @omnixys/security-ts

TLA+ specifications of the security package in `src/`: the guards a request
passes, and the services behind them whose state outlives a request. TLC checks
every component on small instances. TLAPS proves the safety of every service for
every value of the constants: any number of requests, clients, users, tenants,
replies and instances, any limit, time to live and sequence of key rotations. It
also proves that the rate limiter, tenant verification and the risk memory
implement their abstract specifications, and of the chain of guards who gets
through to a handler, for which event and as which user, what uses up a client's
budget, and that whoever is turned away is told the truth.

Modules are named after what they model, actions and operators after the methods
they stand for; `PROJECT.json` (`map`) names the lines of each.

## 1. The system

`SecurityModule.forRoot` wires a NestJS application: authentication (passport
with a JWT strategy), guards, sessions in encrypted cookies, and services that
keep their state in stores the application supplies (Valkey/Redis).

| Component | State it keeps | Operations | What is hard | Module |
| --- | --- | --- | --- | --- |
| Rate limiting (`rate-limit/`) | one counter with an expiry per client address, shared by all instances | `RateLimitGuard.canActivate`, `RateLimitService.isAllowed` | three awaited store calls, two of which must go together | `RateLimit`, `FixedWindow` |
| Tenant verification (`tenant/`) | a cache of positive answers, 45 s | `verify` | cache read, RPC and cache write race with revocations; the cache and the service fail | `TenantVerifier`, `TenantAnswers` |
| Risk memory (`zero-trust/risk/risk-memory.service.ts`) | failures, last address and completed step-ups per user | `incrementFailures`, `resetFailures`, `storeLastIp`, `markStepUpVerified`, `clearStepUp`, readers | two calls per failure; expiry; keys that bind a context | `RiskMemory`, `RiskFacts` |
| Zero-trust evaluation (`zero-trust/`) | trusted devices; an evaluation's local variables | `ZeroTrustGuard.canActivate`, `ZeroTrustService.evaluate`, `RiskEngineService.evaluate`, `GeoIpService.lookup`, `DeviceService` | five awaits, each at another moment; two geo providers with time limits | `ZeroTrust`, `RiskEngine` |
| JWE, sessions, token store (`jwe/`, `session/`) | nothing (sessions are in the client's cookie); tokens in a store | `encrypt`, `decrypt`, `issue`, `read`, `metadata`, `put`, `get`, `delete` | key rotation over several instances, clocks that differ, chains of renewals | `JweSessions` |
| Principal resolution (`auth/context`, `auth/jwt`, `auth/utils`) | none | `fromVerifiedJwt`, `validate`, roles, `extractEventId` | precedence of claims, headers and cookies | `Principal` |
| Guards (`auth/guards`, `security.module.ts`) | `req.user`, `resolvedEventId` on the request | six guards in a fixed order | guards are singletons shared by concurrent requests; answers arrive while roles change | `GuardChain` |
| Token cookies (`cookie/`) | none; two cookies in the browser | `setTokens`, `clearTokens` | several replies on their way to one browser, lifetimes in several units, half a pair of cookies | `TokenCookies` |
| Token revocation (`distributed/`) | revoked ids in a store, until the token expires | `revoke`, `isRevoked` | overlapping and repeated revokes; no guard asks | `TokenCookies` |
| Errors (`errors/`, `zero-trust/error/`) | none | one class per refusal | the reason must be the true one | `Exceptions`, `TenantVerifier` |
| Audit (`distributed/`) | none | `log` | - | not modelled |
| Hashing, encryption, fingerprints (`hash/`, `jwe/core/key.provider.ts`, `zero-trust/device/fingerprint*`) | keys | pure functions | - | not modelled |
| Wiring, types | - | - | - | not modelled |

How they interact: the guards run in the order `HeaderAuthGuard`, `RoleGuard`,
`ZeroTrustGuard`, `RateLimitGuard` (each by option), then the route's own.
`HeaderAuthGuard` and `CookieAuthGuard` put the principal on the request, which
the later guards read. `ZeroTrustGuard` reads what the applications reported to
the risk memory. All services of all instances share the stores.

What makes the components correct, in short: a client gets its budget per window,
no more and no less, and a refused client is served again; a user is accepted by
a tenant only if the tenant service said so recently, about this user and tenant;
failures are remembered as long as promised and no longer, step-ups are bound to
their context; a decision rests on facts that were true during the evaluation; a
session is readable everywhere until it expires; a handler runs only for a user
entitled to it, about the event the request names, and a client that is turned
away is told the true reason; a browser holds the two tokens of one pair, for the
lifetime asked for; a revoked token is known as revoked until it expires.

## 2. Modules

| Module | Kind | Composes |
| --- | --- | --- |
| `ExpiringStore` | data structure: one key of the Valkey/Redis server (external code) | - |
| `FixedWindow` | abstract specification of a rate limiter | - |
| `RateLimit` | guard and service, implements `FixedWindow` | `ExpiringStore` |
| `RateLimitProofs` | theorems about `RateLimit` | `RateLimit` |
| `TenantAnswers` | abstract specification of what `verify` promises its callers | - |
| `TenantVerifier` | service with its cache, the tenant service as environment, implements `TenantAnswers` | `ExpiringStore`, `TenantAnswers` |
| `TenantVerifierProofs` | theorems about `TenantVerifier` | `TenantVerifier` |
| `RiskFacts` | abstract specification of what a reader sees of the risk memory | - |
| `RiskMemory` | service, implements `RiskFacts` | `ExpiringStore` |
| `RiskMemoryProofs` | theorems about `RiskMemory` | `RiskMemory` |
| `RiskEngine` | pure functions: signals, score, decision | - |
| `ZeroTrust` | one evaluation over facts that change | `RiskEngine`, `RiskFacts` |
| `ZeroTrustProofs` | theorems about `ZeroTrust` and `RiskEngine` | `ZeroTrust` |
| `JweSessions` | several instances during key rotations | `ExpiringStore` |
| `JweSessionsProofs` | theorems about `JweSessions` | `JweSessions` |
| `Principal` | pure functions: claims, roles, event id | - |
| `Exceptions` | pure functions: status, code and reason of every exception | - |
| `GuardChain` | concurrent requests through all guards | `Principal`, `Exceptions`, `FixedWindow` |
| `GuardChainProofs` | theorems about `GuardChain` and `Principal`: who gets through | `GuardChain` |
| `GuardChainReplyProofs` | theorems about `GuardChain` and `Exceptions`: types, budget, replies | `GuardChainProofs` |
| `TokenCookies` | replies, browser and revocation store | `ExpiringStore` |
| `TokenCookiesProofs` | theorems about `TokenCookies` | `TokenCookies` |
| `MC*` | instances for TLC | |

`ZeroTrust` uses `RiskFacts` and `GuardChain` uses `FixedWindow` instead of the
detailed modules: the refinement runs show that the detailed ones do nothing else.

Conventions. Every awaited call is a step of its own; the code between two
awaits is one step, because JavaScript runs it without interruption. Time is a
`Tick` action. Expiries run down instead of being compared with a clock that
grows, so models have finitely many states although time never ends. History
variables, marked as such, serve properties only. Definitions marked as mutants
are not used by the specifications: each is a plausible bug of the definition
that follows, and exchanging the two makes the property that names it in
`PROJECT.json` fail.

### RateLimit
`pc` is where a request's handler is (`arriving`, `incr`, `expire`, `ttl`,
`done`), `current` the local variable, `counter` the store. `Bypass` is the
guard's exemption of `/health`, `Unlimited` and `Misconfigured` are the early
returns of `isAllowed`, `Incr`, `Expire` and `Reply` the three calls, `Fail` a
call that rejects, or an instance that stops, with or without the call's effect.
`TTL` may answer rounded up or down.

### TenantVerifier
`Verify`, `CachedHit`, `ValidateMembership`, `CachePositive`, `GetTenant`,
`RpcFails` are the steps of `verify`. `Change` is the tenant service's own
administration. `lag` bounds the time from the service's answer to the cache
write (`MaxLag`): the code has no such bound, so the staleness property is stated
relative to it. `TenantAnswers` has no cache, no keys and no RPCs: a question is asked and
answered, a named user is accepted only if the service would have allowed it less
than `Bound` ticks ago, an anonymous caller only if it does now, a refusal was
true during the call, and a call fails only where the service may. The refinement
reads the verifier's `outcome` through `Verdict`. `httpStatus` is the status of each
exception class.

### RiskMemory and RiskFacts
`incrementFailures` begins with `Begin`, which sends INCR, or ends at once without a
store (`Unreported`); `Incr` and `Expire` are its two calls, `Fail` either of them
rejecting, with or without effect, or its caller stopping. The other operations are one
store call each. A step-up's key is the pair of device and address: that two pairs
make the same string (`risk-memory.service.ts:120-125`) is left out. `RiskFacts` lets a reader see failures
counted one at a time and forgotten all at once, addresses replaced or forgotten,
contexts trusted or not.

### ZeroTrust and RiskEngine
An evaluation goes through `GetFailures`, `GetLastIp`, `LookupIp`,
`LookupPrevious` (only if the address changed) and `Evaluate`. `Lookup` is what
each provider makes of an address, with an answer without a `countryCode` when
it fails. `Remember` and `Trust` are the other callers of the memory and the
device service.

### JweSessions
`Schedule` is the sequence of keyrings a deployment goes through, `Redeploy`
moves one instance on. The discipline a rotation needs is an assumption of the
module, not of the code: a key reaches every instance before it becomes the
first, and is dropped only `RetireAfter` ticks after it was last used. `SignIn` is
`issue` without a time of authentication, `Renew` is `issue` with the one `metadata`
gave of the session that is renewed, on any instance. A session's time of
authentication is kept with the instance whose clock it comes from, so a reader's
view of it is off by the difference of two clocks. Sessions do not affect each
other. `Put` stores a token with a ttl or without one; only the former are
promised to be readable.

### Principal, Exceptions and GuardChain
A request carries tokens as records of claims, a tenant header, and the places
that may name an event. `Ask` and `Hear` are an event guard before and after its
await. Signature verification is passport's: a token in the model is a verified
one. A zero-trust decision is a choice here, the limiter is `FixedWindow`. It may stand
in a chain more than once, globally and in the route, and then counts a request more than
once: `Countings` are the pairs of a request and a place in its chain, up to `MaxChain`.
`Limited` says which requests it counts: none for `/health`, and none while limiting is
disabled, which a route may list the guard under all the same.
`outcome` is the exception a request ended with, as the client sees it: status,
code and reason. Roles and permissions change only while a guard waits for an
answer: in other moments nobody reads them, and whatever they change to then they
can still change to when somebody waits. No guard has a case for `@Public()`
(README.md:415 of the repository says the guards do not apply to such a route), so
routes have no such mark. `ZeroTrustExceptionFilter`, which would rewrite a
step-up's reply, is a plain provider of `ZeroTrustModule` and applied nowhere.

### TokenCookies
A `reply` collects the cookies its handler sets until it is delivered or lost;
`jar` is the browser's cookies as entries with a time to live. `setTokens` gets
the lifetimes after `??` has been applied (`Given`) and throws at the first that
is no number, between the two cookies if it is the second. That error replies
carry the cookies set until then is how Fastify behaves; it is external, and the
worse of the two cases. `SignIn` hands out a fresh pair, which is all the package
needs to know of a renewal too. `last`, `torn`, `due` and `asked` are histories: the pair of
the last reply that arrived, whether `setTokens` threw in it, and the lifetimes
asked for, computed without the code's own operators. Guards and extractors read
the cookie `access_token` under any configuration (`extractAccessTokenCookie`):
with a configured name they find none. `SignOut` revokes a token with the seconds
it had left up to `MaxLag` ticks ago; the call takes effect and may be reported as
failed, and may be repeated.

## 3. Runs

| Run | Instance | Shows |
| --- | --- | --- |
| `rate_limit` | 3 requests, 1 client, limit 1, window 3 ticks of half a second, faults | budget per window and per sliding window, no spurious refusal, every window armed, honest waits, windows never extended, refusals end, refinement of `FixedWindow` |
| `rate_limit_orphan` | same | **violated**: refused forever after a lost EXPIRE |
| `tenant_races` | 2 handlers, 1 user, 1 tenant, TTL 3, lag 1, all faults | denials are true, acceptance is at most TTL plus lag stale, refinement of `TenantAnswers` |
| `tenant_pairs` | 1 handler, 1 user, 2 tenants, TTL 2, cache faults only | pairs are kept apart, cache faults are harmless, a withdrawn membership leaves the cache |
| `risk_memory` | 1 user, 3 reports, 2 addresses, 1 device, TTL 2, faults | failures remembered and faded, step-ups bound, refinement of `RiskFacts` |
| `zero_trust_faults` | 1 user, 2 addresses in 2 countries, 6 failures, ip-api, faults | reasons current, quiet users allowed, monotone risk |
| `zero_trust_outage` | both addresses at home, faults | **violated**: a country change that is none |
| `zero_trust_ipinfo` | ipinfo, no faults | **violated**: high risk never reported |
| `zero_trust_step_up` | 1 context stepped up | **violated**: asked again inside the window |
| `jwe_rotation` | 2 instances, 1 session (TTL 3) followed for 7 ticks, 1 stored token, 3 keys in 7 rings, skew 1 | sessions and tokens survive rotations, expiry within the skew, renewals remember the sign-in |
| `guard_chain` | 2 requests out of 17, with and without global guards and limiting, chains of up to 7 guards, limit 1 | entitlement, event of the operation, principal, spared budget, true reasons of refusals |
| `token_cookies` | 2 replies, 2 pairs, 2 policies, a second of 2 ticks, token life 2, lag 1 | one pair at a time, lifetimes kept, revocations remembered |

Why the bounds are enough. In `RateLimit` a third request is needed for one to
find the window full while another is between INCR and EXPIRE; limit 1 makes the
budget the boundary; a window of three half-seconds does not divide into
seconds, so rounding shows; clients do not share state, and proofs cover any
number. A second handler is what a cache write needs to race; TTL 3 leaves room
for a hit, a revocation and another hit. The risk memory needs a report between
another's INCR and EXPIRE and one after the reset. The failure bound 6 reaches
both thresholds of the engine. Two rotations in a row include dropping a key
while the next is added; one session is enough because sessions share nothing, and 7
ticks are more than two of its lifetimes, so it is renewed again after a renewal.
Two replies are what can arrive in the wrong order; a second of two ticks and
lifetimes of 0, 1 and 3 ticks make rounding up show; one policy has the names the
guards read and no lifetime for the refresh token, the other has neither. Two requests
are what shared guards can confuse; one route lists the limiter that is also global, so that
with limit 1 a request meets the place it used up itself; no chain of the instance is longer
than `MaxChain` (`ArrivalsAssumption`). Every
bound is a constant of the module or a set in the MC module. `MaxFailures` and
`Window`, `StaleBound`, `OldAge`, `MaxAuthAge` cap counters and history clocks where larger
values behave alike.

Symmetry is used only in runs without liveness (`tenant_races`, `jwe_rotation`,
`guard_chain`, `token_cookies`), over sets no definition chooses from.

Fairness. `RateLimit`, `TenantVerifier` and `RiskMemory` assume weak fairness of
`Tick` (time passes) and of a started call (it is answered or rejected, the client
libraries reject when a connection breaks). Nothing makes a request arrive or a failure
be reported: `Arrive`, `Verify` and `Begin` have no fairness. Nothing makes a call
succeed: `Fail` satisfies fairness. Where a failed call can keep the promised end from
coming, the property says in which state: `Orphaned`, a counter without an expiry that
no one is about to give one (`RefusalEnds`, `FailuresFade`). The gRPC calls have no
deadline in the code, so for them fairness says that the tenant service answers
or the connection breaks. The other modules have no liveness properties.

## 4. Findings

1. **A lost EXPIRE refuses a client forever** (`rate-limit.service.ts:48-59`):
   INCR and EXPIRE are two calls, and only the first request of a window sends
   the second. `ArmedOrPending` and `RefusalEnds` say that this is the only way;
   the theorems `LostExpireForever` and `NeverStuck` say both of any instance.
   The risk memory sends EXPIRE after every INCR and heals with the next failure
   (`NextReportHeals`).
2. **A failed geo lookup is a country change** (`risk-engine.service.ts:40`,
   `geoip.service.ts:65`): `undefined` differs from every country. Failed lookups of
   ip-api are its only source (`CountryChangesReal`).
3. **With ipinfo the country is never seen** (`geoip.service.ts:103`), whoever asks
   (`IpInfoBlind`); with ip-api it always is, unless a lookup fails (`HighRiskNamed`).
4. **The step-up window is stored and never consulted**
   (`zero-trust.service.ts:14-25`, `risk-memory.service.ts:54`).

Two more differences show at a reading of the code and have no run: no
guard reads the metadata of `@Public()` (`public.decorator.ts:6`, README.md:415), and
rate limiting without a store makes every request fail (`rate-limit.service.ts:39`)
while README.md:309 calls memory the default.

## 5. Proofs

All theorems are about `Spec`, without fairness, and hold for every value of the
constants that the named assumptions allow. TLC evaluates the assumptions in
every run. The runs check the properties; the parts of the inductive invariants
that only proofs use (`CountInv`, `ArmInv`, `ClockInv`, `SlideInv`, `PathInv`, `AllowedNow`,
`DoubtInv`, `RotationInv`, `AuthGood`, `ChainInv`, `IdentityInv`, `TypeInv`, `GlobalInv`,
`ReplyInv`, `CookieInv`, `RevokedInv`, `ZeroTrustInv`, `GeoInv`, and the `CountInv`s,
`StepUpInv` and `PendingInv` of the proof modules) are in no run, because a theorem says more.

**RateLimitProofs**, from `LimitAssumption` (the limit is a natural number),
`TimeAssumption` (window and second are positive) and `FaultAssumption`.

| Theorem | Says |
| --- | --- |
| `TypeCorrect` | `TypeOK` |
| `CountingCorrect` | `CountInv` |
| `BudgetKept` | `WindowBudget`: at most `Limit` of a window's requests are allowed |
| `RefusalsJustified` | `NoSpuriousRefusal`: a refusal means the window counted more than `Limit` |
| `ArmingCorrect` | `ArmInv` |
| `EveryWindowArmed` | `ArmedOrPending`: without a failed call, a window without expiry has exactly one request that arms it |
| `WindowsNotExtended` | `WindowNeverExtended` |
| `ClocksCorrect` | `ClockInv` |
| `WaitsHonest` | `RetryAfterHonest` |
| `SlidingCorrect` | `SlideInv` |
| `SlidingBudgetKept` | `SlidingBudget`: at most `2 * Limit` requests in any `Window` ticks |
| `FixedWindowImplemented` | `ImplementsFixedWindow`: the refinement of `FixedWindow` |
| `LostExpireForever` | `StaysStuck`: a counter without an expiry that nobody is about to arm stays that way, and its count only grows |
| `NeverStuck` | if store calls do not fail, no counter is in that state |

The budget is not inductive: a handler decides on `current`, a number it read
earlier, and nothing in the budget says how these numbers relate to the counter.
`CountInv` says it: requests counted in one open window that know their number
hold distinct ones, at most the counter's value, and the counter's value is their number. INCR
keeps that because it hands out the next number; the end of a window keeps it
because the window's set becomes empty together with the counter. The allowed
requests then hold distinct numbers from 1 to `Limit`, so there are at most
`Limit` of them. A failed INCR that took effect keeps the invariant by counting a
request that will never be answered.

`ArmInv` adds who sends EXPIRE: only a request that holds number 1 of a window
without expiry. By `CountInv` there is one such request. It follows that an
EXPIRE never meets a window that is already running, hence `WindowsNotExtended`,
and that an unarmed window without such a request had a failed call.

`ClockInv` relates the server's expiry to the age of the window, and the wait a
client was told to both: a running window completes its length, so what a refused
client still has to wait runs down with it, up to the second TTL was rounded by.
`SlideInv` is what two windows in a row need: requests counted in windows that are over
are at least as old as the present window, so in any stretch of `Window` ticks the young
ones are of at most two windows, and those of one window hold numbers of their
own, up to `Limit` of each (`PlacesLimited`).

In the refinement INCR is the moment of decision: the request that gets a number up to
`Limit` is granted, any later one refused, and what follows shows nothing
(`StepKeepsWindow`). An INCR whose answer is lost uses up a place. A window closes
when its counter expires, by `ClockInv` not before `Window` ticks.

`LostExpireForever` and `NeverStuck` are the two halves of finding 1. A stuck counter exists,
so INCR leaves it without an expiry and gives out numbers from 2 on, nobody is the first
any more, and a tick does nothing to it. Without faults a request that ended with an error
was never counted, so by `ArmInv` every unarmed counter has the request that arms it.

**TenantVerifierProofs**, from `TtlAssumption`, `NoOneAssumption` (the missing
user id is no user) and `FaultAssumption`.

| Theorem | Says |
| --- | --- |
| `TypeCorrect` | `TypeOK`; every cache entry has an expiry |
| `FaultsHarmless` | `CacheFaultsHarmless`: with the service up, no call ends in an error of the server |
| `PromiseKept` | `ImplementsTenantAnswers`: the refinement of `TenantAnswers` |
| `CacheFresh` | `FreshInv`: age of an entry and one write's delay bound how long ago its pair was allowed |
| `DenialsTrue` | `DenialsJustified` |
| `StalenessBounded` | `StalenessBound`: an acceptance is at most the time to live and one write's delay stale |

The bound on acceptance follows from `FreshInv`: a hit finds an entry that has not
expired. `FreshInv` needs `AllowedNow` (a pair the service would accept was allowed
0 ticks ago) for the moment the service answers, and the clock of the handler's
write for the time until it is cached. `DenialsTrue` needs `DoubtInv`: a denial
that holds while a call is in progress is remembered for the call, so the one a
handler hears was true during it. `PathInv` keeps anonymous calls away from
the cache.

`PromiseKept` rests on the same invariant. `Allowed`, `Asking` and `Told` are the
abstract state; `FinishAnswers` turns the end of a call into an answer of the
promise, and the cases of `AdvanceKeepsPromise` show which: a hit and a cache
write accept because of `FreshInv`, an anonymous call because of what the service says
now, a denial refuses because of `DoubtInv`, and an outage needs a failing service.
The steps in between change nothing a caller sees (`CallGoesOn`).

**RiskMemoryProofs**, from `TtlAssumption` (times to live are positive) and
`ReportsAssumption` (finitely many reports).

| Theorem | Says |
| --- | --- |
| `TypeCorrect` | `TypeOK` |
| `CountingCorrect` | `CountInv` |
| `NoFailureLost` | `FailuresRemembered` |
| `StepUpTrusted` | `StepUpBound`, by an invariant of its own: the entry of a context lives as long as its verification is to be trusted |
| `FactsOnly` | `ImplementsFacts`: the refinement of `RiskFacts` |
| `PendingCorrect` | `PendingInv`: a counter without an expiry has a report between its two calls, or one that failed, and counts no report that completed |
| `NextReportHeals` | a report that completes arms its user's counter |

`FailuresRemembered` compares a counter with reports whose EXPIRE may lie long back,
so `CountInv` names the reports a counter consists of: its value is their number, a
report still to be remembered is one of them, and the counter lives at least as long.
INCR adds one report that is not there yet; a counter and its reports
go together; each EXPIRE arms the counter for as long as any report before it needs.
Of `PendingInv`, which is what `FailuresFade` rests on, the part about the counted reports
needs it: a counter that INCR makes anew counts no report of the past.
`FactsOnly` uses it twice: an EXPIRE of a counter that is gone shows a reader nothing,
and a counter never exceeds the number of reports.

**JweSessionsProofs**, from `TimeAssumption` (a ring that drops a key waits longer
than a session and the clock skew, and as long as a stored token) and
`ScheduleAssumption` (a key reaches every instance before it becomes the first, and is
dropped only after it has ceased to be).

| Theorem | Says |
| --- | --- |
| `TypeCorrect` | `TypeOK` |
| `RotationCorrect` | `RotationInv` |
| `RotationSafe` | `SessionsSurviveRotation` |
| `StoreSafe` | `StoredReadable` |
| `ExpiryBounded` | `ExpiryWithinSkew` |
| `AuthCorrect` | `AuthGood`: the metadata carry the true age of the sign-in |
| `SignInRemembered` | `AuthenticationRemembered` |

That every ring in use has a token's key is not inductive: the ring of the next
roll-out may lack it. `Good` adds what a token's age has to do with the wait: a token
younger than the wait was issued when every instance had the present ring, so its key
is that ring's first, which the next ring keeps. When a ring drops a key, the wait
is `RetireAfter`, and everything older has expired. `RollInv`, that no instance lags
by more than one ring and no wait begins before all have it, makes it true of the
moment of issue. Both assumptions are needed: with a wait as short as a
session the proof of the roll-out fails.

**GuardChainProofs**, from `ArrivalsAssumption` and `SubjectAssumption`. The former says
what a request is, that its chain is no longer than `MaxChain`, and that a route
authenticates before it asks about an event: a guard that replaced `req.user` after an
event guard would void what was asked, and nothing in the package prevents an application
from writing such a route. The latter says that an internal user id is not the Keycloak
subject of the same token.

| Theorem | Says |
| --- | --- |
| `ChainCorrect` | `ChainInv` |
| `OnlyEntitled` | `HandlerEntitled` |
| `IdentityCorrect` | `IdentityInv` |
| `EventOfOperation` | `OperationNamesEvent` |
| `PrincipalTrue` | `PrincipalFaithful` |

`ChainInv` is one invariant per request: while it waits at an event guard, the
resolver's present answer about its user and event is in its history (`WaitInv`); once
past one, a sufficient answer is, and the id left for the handler is the one asked about
(`PassInv`). A step of another request leaves all of that alone, and a change of roles
and permissions is seen by those who wait (`OthersKeepInv`). A request's own steps keep it
because no authenticating guard follows an event guard in its chain (`ChainOrder`).
`IdentityInv` adds where user and event come from: nothing is left on a request before it
arrives, and afterwards only its own tokens and places count, also after `CookieAuth` put
the cookie's token into the header. `StepKinds` says which steps can matter for it at
all. `UserOfToken` and `OperationFirst` are about the functions of `Principal`.

**GuardChainReplyProofs**, from the same assumptions, `NamesAssumption` (what tokens and
requests name is a user, a tenant, an event and a client of the model) and
`BoundsAssumption` (limit, window and longest chain are natural numbers).

| Theorem | Says |
| --- | --- |
| `ChainTyped` | `TypeInv` |
| `TypesHold` | `TypeOK` |
| `LimiterUsed` | `Limiter!Spec`: the chain uses the limiter in the ways `FixedWindow` has |
| `GlobalGuardsAhead` | `GlobalInv` |
| `BudgetKept` | `BudgetSpared` |
| `RepliesKept` | `ReplyInv` |
| `RepliesTrue` | `RefusalsTrue` |

`TypeOK` is not inductive: what a waiting request may be answered is looked up under its
user and event, and nothing in `TypeOK` says that it has them. `TypeInv` does (`WaitTyped`),
from the users and events that tokens and requests name (`UserTyped`, `EventNamed`).
`LimiterUsed` needs that each pass of the guard is a counting of its own, not decided before:
a place in the chain is left for good once it is passed.

`BudgetSpared` is a property of steps, not of states: after it was counted a request may be
authenticated again by its route, as a user without the role. `GlobalInv` says what the global guards have
made sure of when a request stands before the limiter, and that one which is past the limiter
is counted already, so that a second limiter in the route cannot be the first to count
it.

`RefusalsTrue` is a claim about each reply in every state after it. When it is given, it is true
because the guard has just looked (`AuthTrue`, `PlainTrue`, `HearTrue`); the answer of a
resolver is in the history of who waits, by `WaitInv`. Afterwards nothing about an ended request changes
(`Settled`), and what histories hold they keep (`HistoryGrows`). For the refusals of the limiter
`CountInv` bounds the places taken in a window by the countings there are, and says that a
request is not yet counted where it asks, so its own refusal is no part of what used up the budget.

**TokenCookiesProofs**, from `TimeAssumption`, `LifetimeAssumption`, `NoneAssumption` (a
missing lifetime is no number) and `PolicyAssumption`: the two cookies have
different names, and the refresh token's is not `access_token`, under which every guard
would take it for an access token.

| Theorem | Says |
| --- | --- |
| `CookiesCorrect` | `CookieInv` |
| `RevocationCorrect` | `RevokedInv` |
| `TypeCorrect` | `TypeOK` |
| `PairKept` | `OnePair` |
| `LifetimesKept` | `LifetimeKept` |
| `RevocationsKept` | `RevokedUntilExpiry` |

What makes `OnePair` inductive is an invariant of the replies still on their way: each
carries no cookies, both cookies of one pair (or both cleared), or, only if `setTokens`
threw, the access token alone. Delivered in whatever order, a whole reply replaces the
jar, an empty one leaves it, and a torn one is recorded in `torn`. Lifetimes stay within
a second of what was asked because rounding up adds less than one and both clocks run
together. `RevokedInv` bounds a revocation's entry from both sides: the seconds written
were the token's life up to `MaxLag` ticks ago, so at least what is left of it now.

**ZeroTrustProofs**, from `CountryAssumption` (an unknown country is not a high-risk one),
`DeviceAssumption` (no device id is no device) and `BoundAssumption`.

| Theorem | Says |
| --- | --- |
| `EvaluationsCorrect` | `ZeroTrustInv` |
| `TypeCorrect` | `TypeOK` |
| `ReasonsHeld` | `ReasonsCurrent` |
| `QuietAdmitted` | `QuietUserAllowed` |
| `DecisionsMonotone` | `RiskMonotone` |
| `GeoCorrect` | `GeoInv` |
| `CountryChangesReal` | `CountryChangeReal`, if lookups do not fail or the provider is ipinfo |
| `HighRiskNamed` | `HighRiskReported`, if the provider is ip-api |
| `IpInfoBlind` | no geo signal at all, if it is ipinfo (and a missing answer is no high-risk country) |

While an evaluation runs, what held all along is among what holds now, and that is among
what held at some time; every fact read so far is fair in this sense (`Fair`): it is
reported if it held all along, and if it is reported it held at some time. That carries over the
awaits, between which the stores change (`ChangeKept`), and is what `ReasonsCurrent`
says at the end. `QuietUserAllowed` then follows from the score: with no signal of the
memory, a failed lookup adds a country change at most, which is below the first
threshold (`CountryChangeHarmless`). `ScoreMonotone` and `DecideMonotone` hold of any set of signals.

`GeoInv` follows the provider's answers from the lookups into the decision: those an evaluation
has gathered are about its own two addresses, and none is left over when it ends. The
three theorems after it say under which configurations the two comments that findings 2 and 3
contradict are true: their hypotheses are options of the package and the absence of faults,
and the violating runs are outside them.

What stays with TLC is liveness (`RefusalEnds`, `RevocationTakesEffect`, `FailuresFade`),
which the prover cannot treat under fairness. The safety each of them rests on is proved:
`EveryWindowArmed` and `WindowsNotExtended`, `StalenessBounded`, `PendingCorrect` and
`NextReportHeals`. Every invariant, action property and refinement the passing runs check
is a theorem. Recursive definitions do not occur.

## 6. Not modelled

Signature verification and key fetching (passport, jwks-rsa), cryptography,
Nest's dependency injection, logging, tracing, audit messages and exception wording:
external, pure, or without state. Exceptions thrown nowhere in `src/`
(`RefreshTokenExpiredException`, `AuthenticationRequiredException`,
`TenantMembershipDeniedException`) and the exception filter nobody applies.
`SecurityPrincipalResolver.resolve`: a typed view of what is modelled.
Where `verify` is called from: the interceptor of context-ts, which is not in this
repository. Attributes of cookies other than name and lifetime: they are the same
in every call, so a cleared cookie is always the one that was set. `remaining` and
`resetAt` of the rate limiter: display. An empty keyring, with which every call
throws. A rate-limit window of zero milliseconds, which `TimeAssumption` excludes.

## 7. Plan

Order, most important behaviour first; done items are marked.

1. [done] `RateLimit` with `FixedWindow`, and its proofs: type correctness, the
   counting invariant, budget, refusals, arming, windows not extended.
2. [done] `TenantVerifier`, `RiskMemory` with `RiskFacts`, `RiskEngine` and
   `ZeroTrust`, `JweSessions`, `Principal` and `GuardChain`.
3. [done] `TokenCookies`: cookies, replies, lifetimes and revocation; `Exceptions`
   and the reasons of refusals in `GuardChain`; renewals, metadata and tokens without
   a ttl in `JweSessions`; `TenantAnswers` and the proof that the verifier implements it.
4. [done] Proofs: all safety properties and refinements the runs check, of the services
   and of `GuardChain`; the findings about the limiter and the geo signals in general: how far
   they reach and under which options they do not arise.
5. Open: the zero-trust decision inside `GuardChain` as an evaluation of `ZeroTrust` instead
   of a choice.
