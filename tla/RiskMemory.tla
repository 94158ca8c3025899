---------------------------- MODULE RiskMemory ----------------------------
(***************************************************************************)
(* RiskMemoryService (src/zero-trust/risk): what the zero-trust engine     *)
(* remembers of a user in a shared store -- recent failures, the last      *)
(* address, and which contexts completed a step-up.  The applications that *)
(* use the package call it; incrementFailures makes two store calls, with  *)
(* other callers, time and a crash in between.                             *)
(***************************************************************************)
EXTENDS Integers, FiniteSets

CONSTANTS
    Users,
    Reports,      \* calls of incrementFailures, each made once
    Ips, Devices, \* what a step-up context names; may include "undefined"
    FailureTtl,   \* ttlSeconds, in ticks
    StepUpTtl,    \* stepUpTtlSeconds, in ticks
    LastIpTtl,    \* 86400 s, in ticks
    Faulty        \* may a store call of incrementFailures fail?

ASSUME TtlAssumption ==
    /\ FailureTtl \in Nat \ {0}
    /\ StepUpTtl \in Nat \ {0}
    /\ LastIpTtl \in Nat \ {0}

ASSUME ReportsAssumption == IsFiniteSet(Reports)

VARIABLES
    stored,     \* is a RISK_MEMORY_STORE configured?
    failures,   \* risk:user:<u>:failures
    lastIp,     \* risk:user:<u>:last-ip
    stepUp,     \* risk:user:<u>:stepup:<device>:<ip>
    reporting,  \* where each call of incrementFailures is; how it ended
    reporter,   \* the user each call is about
    counted,    \* history: the reports that the counters now hold
    armed,      \* history: ticks a report is still to be remembered
    verified    \* history: ticks a context's step-up is still to be trusted

store   == <<failures, lastIp, stepUp>>
history == <<counted, armed, verified>>
memory  == <<stored, store, reporting, reporter, history>>

Counters == INSTANCE ExpiringStore WITH Nil <- 0
Null     == "null"
Strings  == INSTANCE ExpiringStore WITH Nil <- Null

Contexts == Devices \X Ips
-----------------------------------------------------------------------------
\* Mutant: the address is forgotten in the key.
buildStepUpKeyOfDevice(context) == <<context[1], CHOOSE ip \in Ips : TRUE>>

\* buildStepUpKey: the device and the address of a context.  A missing part
\* has a name of its own ('unknown-device', 'unknown-ip').
buildStepUpKey(context) == <<context[1], context[2]>>

getFailures(u) == IF stored THEN failures[u].val ELSE 0

getLastIp(u) == IF stored THEN lastIp[u].val ELSE Null

\* The stored payload repeats the device and address of its key, so the strict
\* matching after the read can only agree with the key.
isStepUpValid(u, context) ==
    stored /\ Strings!Exists(stepUp[u][buildStepUpKey(context)])
-----------------------------------------------------------------------------
Init ==
    /\ stored \in BOOLEAN
    /\ failures = [u \in Users |-> Counters!Gone]
    /\ lastIp   = [u \in Users |-> Strings!Gone]
    /\ stepUp   = [u \in Users |-> [k \in Contexts |-> Strings!Gone]]
    /\ reporting = [p \in Reports |-> "before"]
    /\ reporter \in [Reports -> Users]
    /\ counted  = {}
    /\ armed    = [p \in Reports |-> 0]
    /\ verified = [u \in Users |-> [k \in Contexts |-> 0]]

Goto(p, place) == reporting' = [reporting EXCEPT ![p] = place]

\* Without a store a failure is not counted.
Unreported(p) ==
    /\ reporting[p] = "before"
    /\ ~stored
    /\ Goto(p, "done")
    /\ UNCHANGED <<stored, store, reporter, history>>

\* The server's side of INCR.
Count(p) ==
    /\ failures' = [failures EXCEPT ![reporter[p]] = Counters!Incr(@)]
    /\ counted' = counted \cup {p}

\* A caller reports a failure: incrementFailures runs up to its first await,
\* with INCR sent.
Begin(p) ==
    /\ reporting[p] = "before"
    /\ stored
    /\ Goto(p, "incr")
    /\ UNCHANGED <<stored, store, reporter, history>>

\* incrementFailures, first call: INCR.
Incr(p) ==
    /\ reporting[p] = "incr"
    /\ Count(p)
    /\ Goto(p, "expire")
    /\ UNCHANGED <<stored, lastIp, stepUp, reporter, armed, verified>>

\* Mutant: only the first failure arms the expiry, as in the rate limiter.
ExpireFirst(p) ==
    /\ reporting[p] = "expire"
    /\ failures' = [failures EXCEPT ![reporter[p]] =
                      IF @.val = 1 THEN Counters!Expire(@, FailureTtl) ELSE @]
    /\ armed' = [armed EXCEPT ![p] = IF p \in counted THEN FailureTtl ELSE 0]
    /\ Goto(p, "done")
    /\ UNCHANGED <<stored, lastIp, stepUp, reporter, counted, verified>>

\* incrementFailures, second call: EXPIRE, after every failure.
Expire(p) ==
    /\ reporting[p] = "expire"
    /\ failures' = [failures EXCEPT ![reporter[p]] = Counters!Expire(@, FailureTtl)]
    /\ armed' = [armed EXCEPT ![p] = IF p \in counted THEN FailureTtl ELSE 0]
    /\ Goto(p, "done")
    /\ UNCHANGED <<stored, lastIp, stepUp, reporter, counted, verified>>

\* A store call of incrementFailures rejects or its caller stops; what the
\* server executed stays.
Fail(p) ==
    /\ Faulty
    /\ \/ reporting[p] = "incr" /\ Count(p)
       \/ /\ reporting[p] = "expire"
          /\ failures' = [failures EXCEPT ![reporter[p]] = Counters!Expire(@, FailureTtl)]
          /\ UNCHANGED counted
       \/ reporting[p] \in {"incr", "expire"} /\ UNCHANGED <<failures, counted>>
    /\ Goto(p, "failed")
    /\ UNCHANGED <<stored, lastIp, stepUp, reporter, armed, verified>>

\* The reports of the users that have no counter are no longer counted.
Forget == counted' = {p \in counted : Counters!Exists(failures'[reporter[p]])}

\* Mutant: a success takes back one failure only.
resetOneFailure(u) ==
    /\ stored
    /\ failures' = [failures EXCEPT ![u].val = IF @ > 0 THEN @ - 1 ELSE 0]
    /\ Forget
    /\ armed' = [p \in Reports |-> IF reporter[p] = u THEN 0 ELSE armed[p]]
    /\ UNCHANGED <<stored, lastIp, stepUp, reporting, reporter, verified>>

\* resetFailures: DEL, which forgets every report of the user.
resetFailures(u) ==
    /\ stored
    /\ failures' = [failures EXCEPT ![u] = Counters!Gone]
    /\ Forget
    /\ armed' = [p \in Reports |-> IF reporter[p] = u THEN 0 ELSE armed[p]]
    /\ UNCHANGED <<stored, lastIp, stepUp, reporting, reporter, verified>>

storeLastIp(u, ip) ==
    /\ stored
    /\ lastIp' = [lastIp EXCEPT ![u] = Strings!Set(ip, LastIpTtl)]
    /\ UNCHANGED <<stored, failures, stepUp, reporting, reporter, history>>

\* Mutant: the verification is stored without its window.
markStepUpForever(u, context) ==
    /\ stored
    /\ stepUp' = [stepUp EXCEPT ![u][buildStepUpKey(context)] =
                    Strings!Set("verified", Strings!Forever)]
    /\ verified' = [verified EXCEPT ![u][context] = StepUpTtl]
    /\ UNCHANGED <<stored, failures, lastIp, reporting, reporter, counted, armed>>

markStepUpVerified(u, context) ==
    /\ stored
    /\ stepUp' = [stepUp EXCEPT ![u][buildStepUpKey(context)] = Strings!Set("verified", StepUpTtl)]
    /\ verified' = [verified EXCEPT ![u][context] = StepUpTtl]
    /\ UNCHANGED <<stored, failures, lastIp, reporting, reporter, counted, armed>>

clearStepUp(u, context) ==
    /\ stored
    /\ stepUp' = [stepUp EXCEPT ![u][buildStepUpKey(context)] = Strings!Gone]
    /\ verified' = [verified EXCEPT ![u][context] = 0]
    /\ UNCHANGED <<stored, failures, lastIp, reporting, reporter, counted, armed>>

Less(n) == IF n > 0 THEN n - 1 ELSE 0

Tick ==
    /\ failures' = [u \in Users |-> Counters!Elapse(failures[u])]
    /\ lastIp'   = [u \in Users |-> Strings!Elapse(lastIp[u])]
    /\ stepUp'   = [u \in Users |-> [k \in Contexts |-> Strings!Elapse(stepUp[u][k])]]
    /\ Forget
    /\ armed'    = [p \in Reports |-> Less(armed[p])]
    /\ verified' = [u \in Users |-> [k \in Contexts |-> Less(verified[u][k])]]
    /\ UNCHANGED <<stored, reporting, reporter>>

\* What is left to do of a report that began.
Continue(p) == Incr(p) \/ Expire(p) \/ Fail(p)

Report(p) == Unreported(p) \/ Begin(p) \/ Continue(p)

Remember(u) ==
    \/ resetFailures(u)
    \/ \E ip \in Ips : storeLastIp(u, ip)
    \/ \E k \in Contexts : markStepUpVerified(u, k) \/ clearStepUp(u, k)

Next ==
    \/ Tick
    \/ \E p \in Reports : Report(p)
    \/ \E u \in Users : Remember(u)

\* A report that began goes on: each store call is answered or rejects; and time
\* passes.  No report need begin.
Fairness == WF_memory(Tick) /\ \A p \in Reports : WF_memory(Continue(p))

Spec == Init /\ [][Next]_memory
FairSpec == Spec /\ Fairness
-----------------------------------------------------------------------------
(***************************************************************************)
(* Properties.                                                             *)
(***************************************************************************)
\* Every variable stays in its set; only the failure counters can be without an
\* expiry, between INCR and EXPIRE (src/zero-trust/risk/risk-memory.service.ts).
TypeOK ==
    /\ stored \in BOOLEAN
    /\ failures \in [Users -> [val : Nat, left : Nat \cup {Counters!Forever}]]
    /\ lastIp   \in [Users -> [val : Ips \cup {Null}, left : 0..LastIpTtl]]
    /\ stepUp   \in [Users -> [Contexts -> [val : {"verified", Null}, left : 0..StepUpTtl]]]
    /\ reporting \in [Reports -> {"before", "incr", "expire", "done", "failed"}]
    /\ reporter  \in [Reports -> Users]
    /\ counted  \subseteq Reports
    /\ armed    \in [Reports -> 0..FailureTtl]
    /\ verified \in [Users -> [Contexts -> 0..StepUpTtl]]

\* Failures whose EXPIRE took effect are all still counted until the failure
\* TTL has passed since (ttlSeconds), whoever else reports, crashes or lets a
\* counter expire meanwhile; only resetFailures forgets them.
FailuresRemembered ==
    \A u \in Users :
        getFailures(u) >= Cardinality({p \in Reports : reporter[p] = u /\ armed[p] > 0})

\* A step-up is trusted exactly as long as its window runs, and only in the
\* context that completed it: neither another device nor another address of
\* the user, nor another user, is trusted with it.
StepUpBound ==
    \A u \in Users, k \in Contexts : isStepUpValid(u, k) <=> verified[u][k] > 0

\* A counter without an expiry of which every failure it counts belongs to a
\* report that failed, so that none of them is about to arm it.
Orphaned(u) ==
    /\ failures[u].left = Counters!Forever
    /\ \A p \in counted : reporter[p] = u => reporting[p] = "failed"

\* The failures of a user are forgotten some time after the last one ("failures
\* TTL (15 min)", risk-memory.service.ts:12), unless the counter was left without
\* an expiry because every report in it failed before its EXPIRE took effect.
FailuresFade ==
    \A u \in Users : []<>(getFailures(u) = 0 \/ Orphaned(u))

\* What readers see of the store changes only in the ways RiskFacts allows:
\* one failure at a time, and forgetting; never a partial count.
Facts == INSTANCE RiskFacts WITH
    NoIp        <- Null,
    MaxFailures <- Cardinality(Reports),
    failures    <- [u \in Users |-> failures[u].val],
    lastIp      <- [u \in Users |-> lastIp[u].val],
    trusted     <- {uk \in Users \X Contexts : Strings!Exists(stepUp[uk[1]][uk[2]])}

ImplementsFacts == Facts!Spec
=============================================================================
