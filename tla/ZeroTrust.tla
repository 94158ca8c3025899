----------------------------- MODULE ZeroTrust -----------------------------
(***************************************************************************)
(* ZeroTrustGuard, ZeroTrustService, PolicyService, GeoIpService and       *)
(* DeviceService (src/zero-trust): one evaluation gathers the user's       *)
(* failures, last address, the countries of both addresses and whether the *)
(* device is known, one awaited call after the other, and lets RiskEngine  *)
(* decide.  Meanwhile the risk memory and the trusted devices change.      *)
(***************************************************************************)
EXTENDS RiskEngine

CONSTANTS
    Users, Ips, Devices,
    Contexts,       \* <<device, ip>> pairs whose step-up is ever recorded
    NoUser,         \* a request without an authenticated user
    NoDevice,       \* a request without a device id
    MaxFailures,    \* bound of RiskFacts
    Evaluations,    \* evaluations that can be in progress at once
    Provider,       \* options.geoip.provider
    Country,        \* the country of each address
    Faulty          \* may store calls and geo lookups fail?

ASSUME ProviderAssumption == Provider \in {"ip-api", "ipinfo"}
ASSUME DeviceAssumption   == NoDevice \notin Devices
ASSUME BoundAssumption    == MaxFailures \in Nat

VARIABLES
    deviceStore,    \* is a DEVICE_STORE configured?
    hmacKey,        \* has HmacService a key for device fingerprints?
    failures, lastIp, trusted,      \* the risk memory, as RiskFacts shows it
    known,          \* trusted devices: set of <<user, device>>
    pc, request,    \* where each evaluation is, and for what request
    context,        \* what it has gathered for RiskEngine
    outcome,        \* what the guard did
    reasons,        \* the signals of the decision
    may, must       \* history: memory signals that held sometime, all the time

facts   == <<failures, lastIp, trusted>>
config  == <<deviceStore, hmacKey>>
history == <<may, must>>
vars    == <<config, facts, known, pc, request, context, outcome, reasons, history>>

Memory == INSTANCE RiskFacts

Requests == [user : Users \cup {NoUser}, ip : Ips \cup {NoIp}, device : Devices \cup {NoDevice}]

Countries == {Country[ip] : ip \in Ips} \cup {NoCountry, NoGeo}

Empty == [failedAttempts |-> 0, previousIp |-> NoIp, geo |-> NoGeo, previousGeo |-> NoGeo]

\* The signals that rest on what the stores hold.
MemorySignals == {"unknown_device", "ip_changed", "failed_attempts>=3", "failed_attempts>=6"}

\* What the stores say right now about a request: the signals above, and
\* whether its context completed a step-up recently.
Now(q) ==
    {s \in MemorySignals \cup {"stepped_up"} :
        CASE s = "unknown_device"     -> ~deviceStore \/ <<q.user, q.device>> \notin known
          [] s = "ip_changed"         -> lastIp[q.user] \notin {NoIp, q.ip}
          [] s = "failed_attempts>=3" -> failures[q.user] > 2
          [] s = "failed_attempts>=6" -> failures[q.user] > 5
          [] s = "stepped_up"         -> <<q.user, <<q.device, q.ip>>>> \in trusted}
-----------------------------------------------------------------------------
Init ==
    /\ deviceStore \in BOOLEAN
    /\ hmacKey \in BOOLEAN
    /\ Memory!Init
    /\ known   = {}
    /\ pc      = [e \in Evaluations |-> "idle"]
    /\ request = [e \in Evaluations |-> [user |-> NoUser, ip |-> NoIp, device |-> NoDevice]]
    /\ context = [e \in Evaluations |-> Empty]
    /\ outcome = [e \in Evaluations |-> "none"]
    /\ reasons = [e \in Evaluations |-> {}]
    /\ may     = [e \in Evaluations |-> {}]
    /\ must    = [e \in Evaluations |-> {}]

Finish(e, o) ==
    /\ pc'      = [pc EXCEPT ![e] = "idle"]
    /\ context' = [context EXCEPT ![e] = Empty]
    /\ outcome' = [outcome EXCEPT ![e] = o]

\* canActivate: without a user the guard answers false at once.
CanActivate(e) ==
    /\ pc[e] = "idle"
    /\ \E q \in Requests :
          /\ request' = [request EXCEPT ![e] = q]
          /\ IF q.user = NoUser
               THEN /\ Finish(e, "unauthenticated")
                    /\ may' = [may EXCEPT ![e] = {}] /\ must' = [must EXCEPT ![e] = {}]
               ELSE /\ pc' = [pc EXCEPT ![e] = "getFailures"]
                    /\ outcome' = [outcome EXCEPT ![e] = "none"]
                    /\ may' = [may EXCEPT ![e] = Now(q)] /\ must' = [must EXCEPT ![e] = Now(q)]
                    /\ UNCHANGED context
    /\ reasons' = [reasons EXCEPT ![e] = {}]
    /\ UNCHANGED <<config, facts, known>>

Gather(e, field, value) == context' = [context EXCEPT ![e][field] = value]

Goto(e, place) == pc' = [pc EXCEPT ![e] = place]

GetFailures(e) ==
    /\ pc[e] = "getFailures"
    /\ Gather(e, "failedAttempts", failures[request[e].user])
    /\ Goto(e, "getLastIp")
    /\ UNCHANGED <<config, facts, known, request, outcome, reasons, history>>

GetLastIp(e) ==
    /\ pc[e] = "getLastIp"
    /\ Gather(e, "previousIp", lastIp[request[e].user])
    /\ Goto(e, "lookup")
    /\ UNCHANGED <<config, facts, known, request, outcome, reasons, history>>

\* Mutant: a failed lookup's { ip } is taken for the country.
LookupOrIp(ip) == IF ip = NoIp THEN {NoGeo} ELSE {Country[ip]} \cup (IF Faulty THEN {ip} ELSE {})

\* GeoIpService.lookup: null without an address; { ip } alone, so without a
\* countryCode, when the provider fails or times out.  ipinfo names the country
\* in another field than the countryCode the engine reads.
Lookup(ip) ==
    IF ip = NoIp THEN {NoGeo}
    ELSE (IF Provider = "ip-api" THEN {Country[ip]} ELSE {NoCountry})
           \cup (IF Faulty THEN {NoCountry} ELSE {})

\* geo = lookup(ip); the previous address is looked up only when it differs.
LookupIp(e) ==
    /\ pc[e] = "lookup"
    /\ \E geo \in Lookup(request[e].ip) : Gather(e, "geo", geo)
    /\ Goto(e, IF IpChanged(request[e].ip, context[e].previousIp)
                 THEN "lookupPrevious" ELSE "isKnown")
    /\ UNCHANGED <<config, facts, known, request, outcome, reasons, history>>

LookupPrevious(e) ==
    /\ pc[e] = "lookupPrevious"
    /\ \E geo \in Lookup(context[e].previousIp) : Gather(e, "previousGeo", geo)
    /\ Goto(e, "isKnown")
    /\ UNCHANGED <<config, facts, known, request, outcome, reasons, history>>

\* DeviceService.isKnown: never without a device id or a store.
IsKnown(q) ==
    q.device # NoDevice /\ deviceStore /\ <<q.user, q.device>> \in known

\* The last answer arrives; the engine scores, PolicyService.enforce passes the
\* result on and the guard admits, asks for a step-up or blocks.
Evaluate(e) ==
    /\ pc[e] = "isKnown"
    /\ LET q == request[e]
           c == context[e]
           r == Reasons([ip |-> q.ip, previousIp |-> c.previousIp, geo |-> c.geo,
                         previousGeo |-> c.previousGeo, isKnownDevice |-> IsKnown(q),
                         failedAttempts |-> c.failedAttempts,
                         isResetFlow |-> FALSE, isPasswordless |-> FALSE])
       IN  /\ q.device # NoDevice /\ deviceStore => hmacKey
           /\ reasons' = [reasons EXCEPT ![e] = r]
           /\ Finish(e, Decide(r))
    /\ UNCHANGED <<config, facts, known, request, history>>

\* An exception on the way ends the request: a store call rejects, or the
\* fingerprint cannot be hashed for want of a key.
Throw(e) ==
    /\ \/ Faulty /\ pc[e] \in {"getFailures", "getLastIp"}
       \/ /\ pc[e] = "isKnown" /\ deviceStore /\ request[e].device # NoDevice
          /\ Faulty \/ ~hmacKey
    /\ Finish(e, "error")
    /\ UNCHANGED <<config, facts, known, request, reasons, history>>

\* The facts that held, or may have been seen, while an evaluation runs.
Observe ==
    /\ may'  = [e \in Evaluations |-> IF pc[e] = "idle" THEN may[e]
                                      ELSE may[e] \cup Now(request[e])']
    /\ must' = [e \in Evaluations |-> IF pc[e] = "idle" THEN must[e]
                                      ELSE must[e] \cap Now(request[e])']

\* The applications report to the risk memory, and it forgets.
Remember ==
    /\ UNCHANGED <<config, known, pc, request, context, outcome, reasons>>
    /\ Memory!Next
    /\ Observe

\* register, revoke and the expiry of a device's trust.
Trust ==
    /\ UNCHANGED <<config, facts, pc, request, context, outcome, reasons>>
    /\ deviceStore
    /\ hmacKey
    /\ \E ud \in Users \X Devices : known' = known \cup {ud} \/ known' = known \ {ud}
    /\ Observe

Advance(e) ==
    \/ GetFailures(e) \/ GetLastIp(e) \/ LookupIp(e) \/ LookupPrevious(e)
    \/ Evaluate(e) \/ Throw(e)

Next == Remember \/ Trust \/ \E e \in Evaluations : CanActivate(e) \/ Advance(e)

Spec == Init /\ [][Next]_vars
-----------------------------------------------------------------------------
(***************************************************************************)
(* Properties.                                                             *)
(***************************************************************************)
Decisions == {"allow", "totp", "webauthn", "block"}

\* Every variable stays in its set: what an evaluation has gathered is always a
\* context RiskEngine can score (src/zero-trust/risk/risk-engine.service.ts).
TypeOK ==
    /\ deviceStore \in BOOLEAN /\ hmacKey \in BOOLEAN
    /\ failures \in [Users -> 0..MaxFailures]
    /\ lastIp   \in [Users -> Ips \cup {NoIp}]
    /\ trusted  \subseteq Users \X Contexts
    /\ known    \subseteq Users \X Devices
    /\ pc      \in [Evaluations -> {"idle", "getFailures", "getLastIp", "lookup",
                                    "lookupPrevious", "isKnown"}]
    /\ request \in [Evaluations -> Requests]
    /\ context \in [Evaluations -> [failedAttempts : 0..MaxFailures,
                                    previousIp : Ips \cup {NoIp},
                                    geo : Countries, previousGeo : Countries]]
    /\ outcome \in [Evaluations -> Decisions \cup {"none", "unauthenticated", "error"}]
    /\ reasons \in [Evaluations -> SUBSET Signals]
    /\ may     \in [Evaluations -> SUBSET (MemorySignals \cup {"stepped_up"})]
    /\ must    \in [Evaluations -> SUBSET (MemorySignals \cup {"stepped_up"})]

Decided(e) == outcome[e] \in Decisions

\* Although the facts are read one after the other while they change, each
\* reported signal held at some moment of the evaluation, and a signal that
\* held all the time is reported.
ReasonsCurrent ==
    \A e \in Evaluations : Decided(e) =>
        must[e] \cap MemorySignals \subseteq reasons[e] /\ reasons[e] \cap MemorySignals \subseteq may[e]

\* A user about whom nothing suspicious held during the evaluation is let in,
\* even when the geo provider is down: an outage alone locks nobody out.
QuietUserAllowed ==
    \A e \in Evaluations :
        Decided(e) /\ may[e] \cap MemorySignals = {} /\ request[e].ip # NoIp
        /\ Country[request[e].ip] \notin HighRisk => outcome[e] = "allow"

\* Further signals never make the guard more lenient, clamping included.
RiskMonotone ==
    \A e \in Evaluations : Decided(e) =>
        \A worse \in SUBSET Signals :
            reasons[e] \subseteq worse => Severity(outcome[e]) <= Severity(Decide(worse))

\* A user in a high-risk country is reported as such when the geo provider
\* answers ("Geo: High Risk Countries", risk-engine.service.ts:45).
HighRiskReported ==
    ~Faulty => \A e \in Evaluations :
        Decided(e) /\ request[e].ip # NoIp /\ Country[request[e].ip] \in HighRisk =>
            "high_risk_country" \in reasons[e]

\* "Geo: Country Change" (risk-engine.service.ts:39): the signal is reported
\* only if the user has an address in another country.
CountryChangeReal ==
    \A e \in Evaluations :
        Decided(e) /\ "country_changed" \in reasons[e] =>
            \E ip \in Ips : Country[ip] # Country[request[e].ip]

\* A completed step-up "creates a short-lived trust window bound to context"
\* (risk-memory.service.ts:54): inside it the same context is not asked for
\* another one.
TrustWindowHonoured ==
    \A e \in Evaluations :
        Decided(e) /\ "stepped_up" \in must[e] => outcome[e] \notin {"totp", "webauthn"}
=============================================================================
