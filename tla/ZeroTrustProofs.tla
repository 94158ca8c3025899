-------------------------- MODULE ZeroTrustProofs --------------------------
(***************************************************************************)
(* Theorems of ZeroTrust and RiskEngine, for any number of concurrent      *)
(* evaluations, any users, devices, addresses and countries, and a risk    *)
(* memory that changes between any two steps of an evaluation.             *)
(***************************************************************************)
EXTENDS ZeroTrust, TLAPS

\* A signal never lowers the score (RiskEngineService.evaluate).
LEMMA ScoreMonotone ==
    ASSUME NEW A, NEW B, A \subseteq B, B \subseteq Signals
    PROVE  /\ Score(A) \in 0..100 /\ Score(B) \in 0..100
           /\ Score(A) <= Score(B)
<1> DEFINE a(s) == Points(A, s)
           b(s) == Points(B, s)
<1>1. \A s \in Signals : Weight(s) \in Nat
      BY DEF Signals, Weight
<1>2. \A s \in Signals : a(s) \in Nat /\ b(s) \in Nat /\ a(s) <= b(s)
      BY <1>1 DEF Points
<1>3. /\ a("unknown_device") \in Nat /\ b("unknown_device") \in Nat
      /\ a("unknown_device") <= b("unknown_device")
      /\ a("ip_changed") \in Nat /\ b("ip_changed") \in Nat /\ a("ip_changed") <= b("ip_changed")
      /\ a("country_changed") \in Nat /\ b("country_changed") \in Nat
      /\ a("country_changed") <= b("country_changed")
      /\ a("high_risk_country") \in Nat /\ b("high_risk_country") \in Nat
      /\ a("high_risk_country") <= b("high_risk_country")
      /\ a("failed_attempts>=3") \in Nat /\ b("failed_attempts>=3") \in Nat
      /\ a("failed_attempts>=3") <= b("failed_attempts>=3")
      /\ a("failed_attempts>=6") \in Nat /\ b("failed_attempts>=6") \in Nat
      /\ a("failed_attempts>=6") <= b("failed_attempts>=6")
      /\ a("reset_flow") \in Nat /\ b("reset_flow") \in Nat /\ a("reset_flow") <= b("reset_flow")
      /\ a("passwordless_flow") \in Nat /\ b("passwordless_flow") \in Nat
      /\ a("passwordless_flow") <= b("passwordless_flow")
      BY <1>2 DEF Signals
<1> HIDE DEF a, b
<1> DEFINE x == a("unknown_device") + a("ip_changed") + a("country_changed")
                        + a("high_risk_country") + a("failed_attempts>=3")
                        + a("failed_attempts>=6") + a("reset_flow") + a("passwordless_flow")
           y == b("unknown_device") + b("ip_changed") + b("country_changed")
                        + b("high_risk_country") + b("failed_attempts>=3")
                        + b("failed_attempts>=6") + b("reset_flow") + b("passwordless_flow")
<1>4. Score(A) = Clamp(x) /\ Score(B) = Clamp(y)
      BY DEF Score, a, b
<1>5. x \in Nat /\ y \in Nat /\ x <= y
      BY <1>3
<1> HIDE DEF x, y
<1>6. Clamp(x) \in 0..100 /\ Clamp(y) \in 0..100 /\ Clamp(x) <= Clamp(y)
      BY <1>5 DEF Clamp
<1> QED BY <1>4, <1>6

\* Further signals never make the guard more lenient.
LEMMA DecideMonotone ==
    ASSUME NEW A, NEW B, A \subseteq B, B \subseteq Signals
    PROVE  /\ Decide(A) \in Decisions
           /\ Severity(Decide(A)) <= Severity(Decide(B))
<1>1. /\ Score(A) \in 0..100 /\ Score(B) \in 0..100 /\ Score(A) <= Score(B)
      BY ScoreMonotone
<1>2. \A n \in 0..100 : Decision(n) = IF n >= 85 THEN "block" ELSE IF n >= 60 THEN "webauthn"
                                      ELSE IF n >= 35 THEN "totp" ELSE "allow"
      BY DEF Decision
<1>3. /\ Severity("allow") = 0 /\ Severity("totp") = 1 /\ Severity("webauthn") = 2
      /\ Severity("block") = 3
      BY DEF Severity
<1> QED BY <1>1, <1>2, <1>3 DEF Decide, Decisions

\* A country change alone, whether real or not, asks nothing of the user.
LEMMA CountryChangeHarmless ==
    ASSUME NEW A, A \subseteq {"country_changed"}
    PROVE  Decide(A) = "allow"
<1>1. /\ Points(A, "unknown_device") = 0 /\ Points(A, "ip_changed") = 0
      /\ Points(A, "country_changed") \in {0, 30} /\ Points(A, "high_risk_country") = 0
      /\ Points(A, "failed_attempts>=3") = 0 /\ Points(A, "failed_attempts>=6") = 0
      /\ Points(A, "reset_flow") = 0 /\ Points(A, "passwordless_flow") = 0
      BY DEF Points, Weight
<1>2. Score(A) \in {0, 30}
      BY <1>1 DEF Score, Clamp
<1> QED BY <1>2 DEF Decide, Decision

\* What the stores say about a request, signal by signal.
LEMMA NowSays ==
    ASSUME NEW q
    PROVE  /\ "unknown_device" \in Now(q) <=> (~deviceStore \/ <<q.user, q.device>> \notin known)
           /\ "ip_changed" \in Now(q) <=> lastIp[q.user] \notin {NoIp, q.ip}
           /\ "failed_attempts>=3" \in Now(q) <=> failures[q.user] > 2
           /\ "failed_attempts>=6" \in Now(q) <=> failures[q.user] > 5
           /\ Now(q) \subseteq MemorySignals \cup {"stepped_up"}
BY DEF Now, MemorySignals

\* What the engine reports, signal by signal.
LEMMA ReasonsSay ==
    ASSUME NEW c
    PROVE  /\ Reasons(c) \subseteq Signals
           /\ "unknown_device" \in Reasons(c) <=> ~c.isKnownDevice
           /\ "ip_changed" \in Reasons(c) <=> IpChanged(c.ip, c.previousIp)
           /\ "high_risk_country" \in Reasons(c) <=> HighRiskCountry(c.geo)
           /\ "failed_attempts>=3" \in Reasons(c) <=> FailedOften(c.failedAttempts)
           /\ "failed_attempts>=6" \in Reasons(c) <=> FailedVeryOften(c.failedAttempts)
           /\ "reset_flow" \in Reasons(c) <=> c.isResetFlow
           /\ "passwordless_flow" \in Reasons(c) <=> c.isPasswordless
BY DEF Reasons, Signals
-----------------------------------------------------------------------------
Gathered == [failedAttempts : 0..MaxFailures, previousIp : Ips \cup {NoIp},
             geo : Countries, previousGeo : Countries]

Places == {"idle", "getFailures", "getLastIp", "lookup", "lookupPrevious", "isKnown"}

\* Both providers, and a failing one, name a known country or none.
LEMMA LookupType ==
    ASSUME NEW ip \in Ips \cup {NoIp}, NEW geo \in Lookup(ip)
    PROVE  geo \in Countries
BY DEF Lookup, Countries

\* A request that is being evaluated has a user, and has not been answered.
Running(e) == pc[e] # "idle" => request[e].user \in Users /\ outcome[e] = "none"

\* What an evaluation found keeps its type through each of its steps.
LEMMA StepType ==
    ASSUME TypeOK, NEW e \in Evaluations, Running(e), CanActivate(e) \/ Advance(e)
    PROVE  TypeOK' /\ UNCHANGED <<config, facts, known>>
<1> USE BoundAssumption DEF TypeOK
<1>1. Empty \in Gathered /\ 0 \in 0..MaxFailures
      BY DEF Empty, Gathered, Countries
<1>2. context \in [Evaluations -> Gathered] /\ context[e] \in Gathered
      BY DEF Gathered
<1>3. UNCHANGED <<config, facts, known>>
      BY DEF CanActivate, Advance, GetFailures, GetLastIp, LookupIp, LookupPrevious, Evaluate, Throw
<1>4. CASE CanActivate(e)
  <2>1. PICK q \in Requests :
          /\ request' = [request EXCEPT ![e] = q]
          /\ IF q.user = NoUser
               THEN /\ Finish(e, "unauthenticated")
                    /\ may' = [may EXCEPT ![e] = {}] /\ must' = [must EXCEPT ![e] = {}]
               ELSE /\ pc' = [pc EXCEPT ![e] = "getFailures"]
                    /\ outcome' = [outcome EXCEPT ![e] = "none"]
                    /\ may' = [may EXCEPT ![e] = Now(q)] /\ must' = [must EXCEPT ![e] = Now(q)]
                    /\ UNCHANGED context
        BY <1>4 DEF CanActivate
  <2>2. Now(q) \in SUBSET (MemorySignals \cup {"stepped_up"})
        BY NowSays
  <2>3. reasons' = [reasons EXCEPT ![e] = {}]
        BY <1>4 DEF CanActivate
  <2>4. reasons' \in [Evaluations -> SUBSET Signals]
        BY <2>3
  <2>5. CASE q.user = NoUser
    <3>1. /\ pc' = [pc EXCEPT ![e] = "idle"] /\ context' = [context EXCEPT ![e] = Empty]
          /\ outcome' = [outcome EXCEPT ![e] = "unauthenticated"]
          /\ may' = [may EXCEPT ![e] = {}] /\ must' = [must EXCEPT ![e] = {}]
          BY <2>1, <2>5 DEF Finish
    <3>2. /\ may'  \in [Evaluations -> SUBSET (MemorySignals \cup {"stepped_up"})]
          /\ must' \in [Evaluations -> SUBSET (MemorySignals \cup {"stepped_up"})]
          BY <3>1
    <3>3. context' \in [Evaluations -> Gathered]
          BY <1>1, <1>2, <3>1
    <3>4. /\ pc' \in [Evaluations -> Places] /\ request' \in [Evaluations -> Requests]
          /\ outcome' \in [Evaluations -> Decisions \cup {"none", "unauthenticated", "error"}]
          BY <2>1, <3>1 DEF Places
    <3> QED BY <1>3, <2>4, <3>2, <3>3, <3>4 DEF config, facts, Gathered, Places
  <2>6. CASE q.user # NoUser
    <3>1. /\ pc' = [pc EXCEPT ![e] = "getFailures"] /\ context' = context
          /\ outcome' = [outcome EXCEPT ![e] = "none"]
          /\ may' = [may EXCEPT ![e] = Now(q)] /\ must' = [must EXCEPT ![e] = Now(q)]
          BY <2>1, <2>6
    <3>2. /\ may'  \in [Evaluations -> SUBSET (MemorySignals \cup {"stepped_up"})]
          /\ must' \in [Evaluations -> SUBSET (MemorySignals \cup {"stepped_up"})]
          BY <2>2, <3>1
    <3>3. context' \in [Evaluations -> Gathered]
          BY <1>2, <3>1
    <3>4. /\ pc' \in [Evaluations -> Places] /\ request' \in [Evaluations -> Requests]
          /\ outcome' \in [Evaluations -> Decisions \cup {"none", "unauthenticated", "error"}]
          BY <2>1, <3>1 DEF Places
    <3> QED BY <1>3, <2>4, <3>2, <3>3, <3>4 DEF config, facts, Gathered, Places
  <2> QED BY <2>5, <2>6
<1>5. CASE GetFailures(e)
  <2>1. failures[request[e].user] \in 0..MaxFailures
        BY <1>5 DEF GetFailures, Running
  <2>2. context' \in [Evaluations -> Gathered]
        BY <1>2, <1>5, <2>1 DEF GetFailures, Gather, Gathered
  <2> QED BY <1>3, <1>5, <2>2 DEF GetFailures, Goto, Gathered, config, facts, history
<1>6. CASE GetLastIp(e)
  <2>1. lastIp[request[e].user] \in Ips \cup {NoIp}
        BY <1>6 DEF GetLastIp, Running
  <2>2. context' \in [Evaluations -> Gathered]
        BY <1>2, <1>6, <2>1 DEF GetLastIp, Gather, Gathered
  <2> QED BY <1>3, <1>6, <2>2 DEF GetLastIp, Goto, Gathered, config, facts, history
<1>7. CASE LookupIp(e)
  <2>1. request[e].ip \in Ips \cup {NoIp}
        BY DEF Requests
  <2>2. PICK geo \in Lookup(request[e].ip) : Gather(e, "geo", geo)
        BY <1>7 DEF LookupIp
  <2>3. geo \in Countries
        BY <2>1, <2>2, LookupType
  <2>4. context' \in [Evaluations -> Gathered]
        BY <1>2, <2>2, <2>3 DEF Gather, Gathered
  <2> QED BY <1>3, <1>7, <2>4 DEF LookupIp, Goto, Gathered, config, facts, history
<1>8. CASE LookupPrevious(e)
  <2>1. context[e].previousIp \in Ips \cup {NoIp}
        BY <1>2 DEF Gathered
  <2>2. PICK geo \in Lookup(context[e].previousIp) : Gather(e, "previousGeo", geo)
        BY <1>8 DEF LookupPrevious
  <2>3. geo \in Countries
        BY <2>1, <2>2, LookupType
  <2>4. context' \in [Evaluations -> Gathered]
        BY <1>2, <2>2, <2>3 DEF Gather, Gathered
  <2> QED BY <1>3, <1>8, <2>4 DEF LookupPrevious, Goto, Gathered, config, facts, history
<1>9. CASE Evaluate(e)
  <2>1. PICK c : reasons' = [reasons EXCEPT ![e] = Reasons(c)] /\ Finish(e, Decide(Reasons(c)))
        BY <1>9 DEF Evaluate
  <2>2. Reasons(c) \in SUBSET Signals /\ Decide(Reasons(c)) \in Decisions
        BY ReasonsSay, DecideMonotone
  <2>3. context' \in [Evaluations -> Gathered]
        BY <1>1, <1>2, <2>1 DEF Finish
  <2>4. /\ reasons' \in [Evaluations -> SUBSET Signals]
        /\ outcome' \in [Evaluations -> Decisions \cup {"none", "unauthenticated", "error"}]
        /\ pc' \in [Evaluations -> Places]
        BY <2>1, <2>2 DEF Finish, Places
  <2>5. UNCHANGED <<request, may, must>>
        BY <1>9 DEF Evaluate, history
  <2> QED BY <1>3, <2>3, <2>4, <2>5 DEF Gathered, Places, config, facts
<1>10. CASE Throw(e)
  <2>1. context' \in [Evaluations -> Gathered]
        BY <1>1, <1>2, <1>10 DEF Throw, Finish
  <2> QED BY <1>3, <1>10, <2>1 DEF Throw, Finish, Gathered, config, facts, history
<1> QED BY <1>3, <1>4, <1>5, <1>6, <1>7, <1>8, <1>9, <1>10 DEF Advance

\* So do the facts, which no evaluation changes.
LEMMA FactsType ==
    ASSUME TypeOK, Memory!Next
    PROVE  /\ failures' \in [Users -> 0..MaxFailures]
           /\ lastIp' \in [Users -> Ips \cup {NoIp}] /\ trusted' \subseteq Users \X Contexts
<1> USE BoundAssumption DEF TypeOK
<1>1. CASE Memory!Forget
      BY <1>1 DEF Memory!Forget
<1>2. CASE \E u \in Users : Memory!CountFailure(u)
      BY <1>2 DEF Memory!CountFailure
<1>3. CASE \E u \in Users, ip \in Ips : Memory!SeeIp(u, ip)
      BY <1>3 DEF Memory!SeeIp
<1>4. CASE \E u \in Users, k \in Contexts : Memory!Trust(u, k)
      BY <1>4 DEF Memory!Trust
<1> QED BY <1>1, <1>2, <1>3, <1>4 DEF Memory!Next

\* While they change, evaluations stand still and only history is written.
LEMMA ChangeType ==
    ASSUME TypeOK, Remember \/ Trust
    PROVE  /\ TypeOK' /\ Observe
           /\ UNCHANGED <<config, pc, request, context, outcome, reasons>>
<1> USE DEF TypeOK
<1>1. Observe /\ UNCHANGED <<config, pc, request, context, outcome, reasons>>
      BY DEF Remember, Trust
<1>2. \A e \in Evaluations : Now(request[e])' \subseteq MemorySignals \cup {"stepped_up"}
      BY DEF Now
<1>3. /\ may' \in [Evaluations -> SUBSET (MemorySignals \cup {"stepped_up"})]
      /\ must' \in [Evaluations -> SUBSET (MemorySignals \cup {"stepped_up"})]
      BY <1>1, <1>2 DEF Observe
<1>4. CASE Remember
      BY <1>1, <1>3, <1>4, FactsType DEF Remember, config
<1>5. CASE Trust
  <2>1. known' \subseteq Users \X Devices
        BY <1>5 DEF Trust
  <2> QED BY <1>1, <1>3, <1>5, <2>1 DEF Trust, config, facts
<1> QED BY <1>1, <1>4, <1>5
-----------------------------------------------------------------------------
\* A signal that depends on what was read is neither missed nor invented.
Fair(e, signal, held) == (signal \in must[e] => held) /\ (held => signal \in may[e])

\* What an evaluation has read so far.
Read(e) ==
    /\ pc[e] # "getFailures" =>
          /\ Fair(e, "failed_attempts>=3", context[e].failedAttempts > 2)
          /\ Fair(e, "failed_attempts>=6", context[e].failedAttempts > 5)
    /\ pc[e] \notin {"getFailures", "getLastIp"} =>
          Fair(e, "ip_changed", context[e].previousIp \notin {NoIp, request[e].ip})
    /\ pc[e] \in {"lookupPrevious", "isKnown"} /\ request[e].ip # NoIp =>
          context[e].geo \in {Country[request[e].ip], NoCountry}

\* What it decided.
Judged(e) ==
    /\ must[e] \cap MemorySignals \subseteq reasons[e]
    /\ reasons[e] \cap MemorySignals \subseteq may[e]
    /\ outcome[e] = Decide(reasons[e])
    /\ reasons[e] \cap {"reset_flow", "passwordless_flow"} = {}
    /\ "high_risk_country" \in reasons[e] /\ request[e].ip # NoIp =>
          Country[request[e].ip] \in HighRisk

EvaluationInv(e) ==
    /\ Running(e)
    /\ pc[e] # "idle" => must[e] \subseteq Now(request[e]) /\ Now(request[e]) \subseteq may[e]
    /\ pc[e] # "idle" => Read(e)
    /\ Decided(e) => Judged(e)

ZeroTrustInv == TypeOK /\ \A e \in Evaluations : EvaluationInv(e)

\* The facts of a request are the same while no store changes.
LEMMA NowKept ==
    ASSUME UNCHANGED <<config, facts, known>>, NEW CONSTANT q
    PROVE  Now(q)' = Now(q)
BY DEF Now, config, facts

\* One evaluation's step is nothing to another.
LEMMA OthersKept ==
    ASSUME NEW e \in Evaluations, EvaluationInv(e), UNCHANGED <<config, facts, known>>,
           UNCHANGED <<pc[e], request[e], context[e], outcome[e], reasons[e], may[e], must[e]>>
    PROVE  EvaluationInv(e)'
<1>1. PICK q : q = request[e]
      OBVIOUS
<1>2. Now(request[e])' = Now(request[e])
      BY <1>1, NowKept
<1> QED BY <1>2 DEF EvaluationInv, Running, Read, Fair, Decided, Judged

\* A change of the stores is recorded for all who are reading them.
LEMMA ChangeKept ==
    ASSUME TypeOK, NEW e \in Evaluations, EvaluationInv(e), Observe,
           UNCHANGED <<config, pc, request, context, outcome, reasons>>
    PROVE  EvaluationInv(e)'
<1>1. CASE pc[e] = "idle"
  <2>1. may'[e] = may[e] /\ must'[e] = must[e]
        BY <1>1 DEF Observe
  <2> QED BY <1>1, <2>1 DEF EvaluationInv, Running, Decided, Judged
<1>2. CASE pc[e] # "idle"
  <2>1. /\ may'[e] = may[e] \cup Now(request[e])' /\ must'[e] = must[e] \cap Now(request[e])'
        BY <1>2 DEF Observe
  <2>2. Read(e)'
        BY <1>2, <2>1 DEF EvaluationInv, Read, Fair
  <2>3. ~Decided(e)'
        BY <1>2 DEF EvaluationInv, Running, Decided, Decisions
  <2> QED BY <1>2, <2>1, <2>2, <2>3 DEF EvaluationInv, Running
<1> QED BY <1>1, <1>2

\* The steps of an evaluation: each reads what the stores say at that moment.
LEMMA StepKept ==
    ASSUME TypeOK, NEW e \in Evaluations, EvaluationInv(e), CanActivate(e) \/ Advance(e)
    PROVE  EvaluationInv(e)'
<1> DEFINE q == request[e]
<1>1. UNCHANGED <<config, facts, known>> /\ TypeOK'
      BY StepType DEF EvaluationInv
<1>2. CASE CanActivate(e)
  <2>1. PICK p \in Requests :
          /\ request' = [request EXCEPT ![e] = p]
          /\ IF p.user = NoUser
               THEN /\ Finish(e, "unauthenticated")
                    /\ may' = [may EXCEPT ![e] = {}] /\ must' = [must EXCEPT ![e] = {}]
               ELSE /\ pc' = [pc EXCEPT ![e] = "getFailures"]
                    /\ outcome' = [outcome EXCEPT ![e] = "none"]
                    /\ may' = [may EXCEPT ![e] = Now(p)] /\ must' = [must EXCEPT ![e] = Now(p)]
                    /\ UNCHANGED context
        BY <1>2 DEF CanActivate
  <2>2. CASE p.user = NoUser
    <3>1. pc'[e] = "idle" /\ outcome'[e] = "unauthenticated"
          BY <2>1, <2>2 DEF Finish, TypeOK
    <3> QED BY <3>1 DEF EvaluationInv, Running, Decided, Decisions
  <2>3. CASE p.user # NoUser
    <3>1. /\ pc'[e] = "getFailures" /\ outcome'[e] = "none" /\ request'[e] = p
          /\ may'[e] = Now(p) /\ must'[e] = Now(p)
          BY <2>1, <2>3 DEF TypeOK
    <3>2. p.user \in Users /\ Now(p)' = Now(p)
          BY <1>1, <2>3, NowKept DEF Requests
    <3> QED BY <3>1, <3>2 DEF EvaluationInv, Running, Read, Decided, Decisions
  <2> QED BY <2>2, <2>3
<1>3. ASSUME Advance(e), pc'[e] # "idle"
      PROVE  /\ UNCHANGED <<q, may, must, outcome>> /\ pc[e] # "idle"
             /\ Running(e)' /\ Now(request[e])' = Now(q)
             /\ must[e] \subseteq Now(q) /\ Now(q) \subseteq may[e] /\ ~Decided(e)'
  <2>1. UNCHANGED <<request, may, must, outcome>> /\ pc[e] # "idle"
        BY <1>3 DEF Advance, GetFailures, GetLastIp, LookupIp, LookupPrevious, Evaluate, Throw,
                    Finish, history, TypeOK
  <2>2. PICK p : p = request[e]
        OBVIOUS
  <2>3. Now(request[e])' = Now(q)
        BY <1>1, <2>1, <2>2, NowKept
  <2> QED BY <2>1, <2>3 DEF EvaluationInv, Running, Decided, Decisions
<1>4. CASE GetFailures(e)
  <2>1. /\ context'[e].failedAttempts = failures[q.user] /\ pc'[e] = "getLastIp"
        BY <1>4 DEF GetFailures, Gather, Goto, TypeOK
  <2>2. Read(e)'
        BY <1>3, <1>4, <2>1, NowSays DEF Read, Fair, Advance
  <2> QED BY <1>3, <1>4, <2>1, <2>2 DEF EvaluationInv, Advance
<1>5. CASE GetLastIp(e)
  <2>1. /\ context'[e].previousIp = lastIp[q.user] /\ pc'[e] = "lookup" /\ pc[e] = "getLastIp"
        /\ context'[e].failedAttempts = context[e].failedAttempts
        BY <1>5 DEF GetLastIp, Gather, Goto, TypeOK
  <2>2. Read(e)'
        BY <1>3, <1>5, <2>1, NowSays DEF EvaluationInv, Read, Fair, Advance
  <2> QED BY <1>3, <1>5, <2>1, <2>2 DEF EvaluationInv, Advance
<1>6. CASE LookupIp(e)
  <2>1. PICK geo \in Lookup(q.ip) : Gather(e, "geo", geo)
        BY <1>6 DEF LookupIp
  <2>2. /\ context'[e].geo = geo /\ pc[e] = "lookup"
        /\ pc'[e] \in {"lookupPrevious", "isKnown"}
        /\ context'[e].failedAttempts = context[e].failedAttempts
        /\ context'[e].previousIp = context[e].previousIp
        BY <1>6, <2>1 DEF LookupIp, Gather, Goto, TypeOK
  <2>3. q.ip # NoIp => geo \in {Country[q.ip], NoCountry}
        BY <2>1 DEF Lookup
  <2>4. Read(e)'
        BY <1>3, <1>6, <2>2, <2>3 DEF EvaluationInv, Read, Fair, Advance
  <2> QED BY <1>3, <1>6, <2>2, <2>4 DEF EvaluationInv, Advance
<1>7. CASE LookupPrevious(e)
  <2>1. /\ context'[e].geo = context[e].geo /\ pc'[e] = "isKnown" /\ pc[e] = "lookupPrevious"
        /\ context'[e].failedAttempts = context[e].failedAttempts
        /\ context'[e].previousIp = context[e].previousIp
        BY <1>7 DEF LookupPrevious, Gather, Goto, TypeOK
  <2>2. Read(e)'
        BY <1>3, <1>7, <2>1 DEF EvaluationInv, Read, Fair, Advance
  <2> QED BY <1>3, <1>7, <2>1, <2>2 DEF EvaluationInv, Advance
<1>8. CASE Evaluate(e)
  <2> DEFINE c == [ip |-> q.ip, previousIp |-> context[e].previousIp, geo |-> context[e].geo,
                   previousGeo |-> context[e].previousGeo, isKnownDevice |-> IsKnown(q),
                   failedAttempts |-> context[e].failedAttempts,
                   isResetFlow |-> FALSE, isPasswordless |-> FALSE]
             r == Reasons(c)
  <2>1. /\ reasons' = [reasons EXCEPT ![e] = r] /\ Finish(e, Decide(r)) /\ pc[e] = "isKnown"
        /\ UNCHANGED <<request, may, must>>
        BY <1>8 DEF Evaluate, history
  <2>2. /\ reasons'[e] = r /\ outcome'[e] = Decide(r) /\ pc'[e] = "idle"
        BY <2>1 DEF Finish, TypeOK
  <2>3. /\ "unknown_device" \in r <=> ~IsKnown(q)
        /\ "ip_changed" \in r <=> IpChanged(q.ip, context[e].previousIp)
        /\ "high_risk_country" \in r <=> HighRiskCountry(context[e].geo)
        /\ "failed_attempts>=3" \in r <=> FailedOften(context[e].failedAttempts)
        /\ "failed_attempts>=6" \in r <=> FailedVeryOften(context[e].failedAttempts)
        /\ "reset_flow" \notin r /\ "passwordless_flow" \notin r
        BY ReasonsSay
  <2> HIDE DEF r, c
  <2>4. must[e] \subseteq Now(q) /\ Now(q) \subseteq may[e] /\ Read(e) /\ pc[e] # "idle"
        BY <2>1 DEF EvaluationInv
  <2>5. Fair(e, "unknown_device", "unknown_device" \in r)
    <3>1. ~IsKnown(q) <=> "unknown_device" \in Now(q)
          BY NowSays, DeviceAssumption DEF IsKnown, TypeOK
    <3> QED BY <2>3, <2>4, <3>1 DEF Fair
  <2>6. Fair(e, "ip_changed", "ip_changed" \in r)
        BY <2>1, <2>3, <2>4 DEF Fair, Read, IpChanged
  <2>7. /\ Fair(e, "failed_attempts>=3", "failed_attempts>=3" \in r)
        /\ Fair(e, "failed_attempts>=6", "failed_attempts>=6" \in r)
    <3>1. context[e].failedAttempts \in Nat
          BY BoundAssumption DEF TypeOK
    <3> QED BY <2>1, <2>3, <2>4, <3>1 DEF Fair, Read, FailedOften, FailedVeryOften
  <2>8. /\ must[e] \cap MemorySignals \subseteq r
        /\ r \cap MemorySignals \subseteq may[e]
        BY <2>5, <2>6, <2>7 DEF Fair, MemorySignals
  <2>9. "high_risk_country" \in r /\ q.ip # NoIp => Country[q.ip] \in HighRisk
        BY <2>1, <2>3, <2>4, CountryAssumption DEF Read, HighRiskCountry
  <2> QED BY <2>1, <2>2, <2>3, <2>8, <2>9 DEF EvaluationInv, Running, Judged
<1>9. CASE Throw(e)
  <2>1. pc'[e] = "idle" /\ outcome'[e] = "error"
        BY <1>9 DEF Throw, Finish, TypeOK
  <2> QED BY <2>1 DEF EvaluationInv, Running, Decided, Decisions
<1> QED BY <1>2, <1>4, <1>5, <1>6, <1>7, <1>8, <1>9 DEF Advance

\* Although its facts change while it runs, an evaluation knows of each that it
\* held at some moment, and overlooks none that held all the time.
THEOREM EvaluationsCorrect == Spec => []ZeroTrustInv
<1>1. Init => ZeroTrustInv
  <2> SUFFICES ASSUME Init PROVE ZeroTrustInv
      OBVIOUS
  <2>1. Empty \in Gathered
        BY BoundAssumption DEF Empty, Gathered, Countries
  <2>2. TypeOK
        BY <2>1, BoundAssumption DEF Init, TypeOK, Memory!Init, Gathered, Requests
  <2>3. \A e \in Evaluations : pc[e] = "idle" /\ outcome[e] = "none"
        BY DEF Init
  <2> QED BY <2>2, <2>3 DEF ZeroTrustInv, EvaluationInv, Running, Decided, Decisions
<1>2. ZeroTrustInv /\ [Next]_vars => ZeroTrustInv'
  <2> SUFFICES ASSUME ZeroTrustInv, [Next]_vars PROVE ZeroTrustInv'
      OBVIOUS
  <2>1. TypeOK /\ \A e \in Evaluations : EvaluationInv(e) /\ Running(e)
        BY DEF ZeroTrustInv, EvaluationInv
  <2>2. CASE UNCHANGED vars
    <3>1. TypeOK' /\ UNCHANGED <<config, facts, known>>
          BY <2>1, <2>2 DEF vars, config, facts, history, TypeOK
    <3>2. \A e \in Evaluations : EvaluationInv(e)'
          BY <2>1, <2>2, <3>1, OthersKept DEF vars, history
    <3> QED BY <3>1, <3>2 DEF ZeroTrustInv
  <2>3. CASE Remember \/ Trust
        BY <2>1, <2>3, ChangeType, ChangeKept DEF ZeroTrustInv
  <2>4. ASSUME NEW e \in Evaluations, CanActivate(e) \/ Advance(e) PROVE ZeroTrustInv'
    <3>1. TypeOK' /\ UNCHANGED <<config, facts, known>>
          BY <2>1, <2>4, StepType
    <3>2. ASSUME NEW d \in Evaluations, d # e
          PROVE  UNCHANGED <<pc[d], request[d], context[d], outcome[d], reasons[d], may[d], must[d]>>
      <4>1. CASE CanActivate(e)
            BY <2>1, <3>2, <4>1 DEF CanActivate, Finish, TypeOK
      <4>2. CASE Advance(e)
            BY <2>1, <3>2, <4>2 DEF Advance, GetFailures, GetLastIp, LookupIp, LookupPrevious,
               Evaluate, Throw, Finish, Gather, Goto, TypeOK, history
      <4> QED BY <2>4, <4>1, <4>2
    <3>3. EvaluationInv(e)'
          BY <2>1, <2>4, StepKept
    <3>4. \A d \in Evaluations : d # e => EvaluationInv(d)'
          BY <2>1, <3>1, <3>2, OthersKept
    <3> QED BY <3>1, <3>3, <3>4 DEF ZeroTrustInv
  <2> QED BY <2>2, <2>3, <2>4 DEF Next
<1> QED BY <1>1, <1>2, PTL DEF Spec

\* Every variable stays in its set: an evaluation can always be scored.
THEOREM TypeCorrect == Spec => []TypeOK
<1>1. ZeroTrustInv => TypeOK
      BY DEF ZeroTrustInv
<1> QED BY <1>1, EvaluationsCorrect, PTL

\* Each reported signal held during the evaluation; none that held throughout
\* is missing.
THEOREM ReasonsHeld == Spec => []ReasonsCurrent
<1>1. ZeroTrustInv => ReasonsCurrent
      BY DEF ZeroTrustInv, EvaluationInv, Judged, ReasonsCurrent
<1> QED BY <1>1, EvaluationsCorrect, PTL

\* Nobody is locked out by an outage alone.
THEOREM QuietAdmitted == Spec => []QuietUserAllowed
<1>1. ZeroTrustInv => QuietUserAllowed
  <2> SUFFICES ASSUME ZeroTrustInv, NEW e \in Evaluations, Decided(e),
                      may[e] \cap MemorySignals = {}, request[e].ip # NoIp,
                      Country[request[e].ip] \notin HighRisk
               PROVE  outcome[e] = "allow"
      BY DEF QuietUserAllowed
  <2>1. Judged(e) /\ reasons[e] \subseteq Signals
        BY DEF ZeroTrustInv, EvaluationInv, TypeOK
  <2>2. reasons[e] \subseteq {"country_changed"}
        BY <2>1 DEF Judged, MemorySignals, Signals
  <2> QED BY <2>1, <2>2, CountryChangeHarmless DEF Judged
<1> QED BY <1>1, EvaluationsCorrect, PTL

\* More signals never lead to a milder decision.
THEOREM DecisionsMonotone == Spec => []RiskMonotone
<1>1. ZeroTrustInv => RiskMonotone
  <2> SUFFICES ASSUME ZeroTrustInv, NEW e \in Evaluations, Decided(e),
                      NEW worse \in SUBSET Signals, reasons[e] \subseteq worse
               PROVE  Severity(outcome[e]) <= Severity(Decide(worse))
      BY DEF RiskMonotone
  <2>1. outcome[e] = Decide(reasons[e])
        BY DEF ZeroTrustInv, EvaluationInv, Judged
  <2>2. Severity(Decide(reasons[e])) <= Severity(Decide(worse))
        BY DecideMonotone
  <2> QED BY <2>1, <2>2
<1> QED BY <1>1, EvaluationsCorrect, PTL
-----------------------------------------------------------------------------
(***************************************************************************)
(* Where the geo signals come from, and what they are worth while both     *)
(* lookups are answered by a provider whose countries the engine reads.    *)
(***************************************************************************)
\* The countries an evaluation has gathered are answers to its own lookups.
GeoGathered(e) ==
    /\ pc[e] \in {"lookupPrevious", "isKnown"} => context[e].geo \in Lookup(request[e].ip)
    /\ context[e].previousGeo # NoGeo =>
          /\ pc[e] = "isKnown"
          /\ context[e].previousIp # NoIp
          /\ context[e].previousGeo \in Lookup(context[e].previousIp)

\* Its geo signals follow from answers of the provider about the address of the
\* request and one the user was seen at.
GeoJudged(e) ==
    \E geo \in Lookup(request[e].ip) :
        /\ "high_risk_country" \in reasons[e] <=> HighRiskCountry(geo)
        /\ "country_changed" \in reasons[e] =>
              \E ip \in Ips : \E previousGeo \in Lookup(ip) : CountryChanged(geo, previousGeo)

GeoInv(e) == GeoGathered(e) /\ (Decided(e) => GeoJudged(e))

\* What another evaluation or a store does is nothing to them.
LEMMA GeoOthers ==
    ASSUME NEW e \in Evaluations, GeoInv(e),
           UNCHANGED <<pc[e], request[e], context[e], outcome[e], reasons[e]>>
    PROVE  GeoInv(e)'
BY DEF GeoInv, GeoGathered, GeoJudged, Decided

\* An evaluation that ended holds nothing of what it gathered.
LEMMA GeoFinished ==
    ASSUME TypeOK, NEW e \in Evaluations, NEW o, Finish(e, o), ~Decided(e)' \/ GeoJudged(e)'
    PROVE  GeoInv(e)'
<1>1. pc'[e] = "idle" /\ context'[e] = Empty
      BY DEF Finish, TypeOK
<1> QED BY <1>1 DEF GeoInv, GeoGathered, Empty

\* Each lookup adds the provider's answer about one of the two addresses, and the
\* engine reports on these two.
LEMMA GeoStep ==
    ASSUME TypeOK, NEW e \in Evaluations, Running(e), GeoInv(e), CanActivate(e) \/ Advance(e)
    PROVE  GeoInv(e)'
<1> DEFINE q == request[e]
<1>1. /\ q.ip \in Ips \cup {NoIp} /\ context[e].previousIp \in Ips \cup {NoIp}
      BY DEF TypeOK, Requests
<1>2. CASE CanActivate(e)
  <2>1. PICK p \in Requests :
          IF p.user = NoUser
            THEN Finish(e, "unauthenticated")
            ELSE /\ pc' = [pc EXCEPT ![e] = "getFailures"]
                 /\ outcome' = [outcome EXCEPT ![e] = "none"]
                 /\ UNCHANGED context
        BY <1>2 DEF CanActivate
  <2>2. CASE p.user = NoUser
    <3>1. ~Decided(e)'
          BY <2>1, <2>2 DEF Finish, Decided, Decisions, TypeOK
    <3> QED BY <2>1, <2>2, <3>1, GeoFinished
  <2>3. CASE p.user # NoUser
    <3>1. pc[e] = "idle" /\ pc'[e] = "getFailures" /\ outcome'[e] = "none" /\ context'[e] = context[e]
          BY <1>2, <2>1, <2>3 DEF CanActivate, TypeOK
    <3> QED BY <3>1 DEF GeoInv, GeoGathered, Decided, Decisions
  <2> QED BY <2>2, <2>3
<1>3. ASSUME Advance(e), pc'[e] # "idle"
      PROVE  q' = q /\ ~Decided(e)'
      BY <1>3 DEF Advance, GetFailures, GetLastIp, LookupIp, LookupPrevious, Evaluate, Throw,
                  Finish, Running, Decided, Decisions, TypeOK
<1>4. CASE GetFailures(e)
  <2>1. /\ pc[e] = "getFailures" /\ pc'[e] = "getLastIp"
        /\ context'[e].previousGeo = context[e].previousGeo
        BY <1>4 DEF GetFailures, Gather, Goto, TypeOK
  <2> QED BY <1>3, <1>4, <2>1 DEF GeoInv, GeoGathered, Advance
<1>5. CASE GetLastIp(e)
  <2>1. /\ pc[e] = "getLastIp" /\ pc'[e] = "lookup"
        /\ context'[e].previousGeo = context[e].previousGeo
        BY <1>5 DEF GetLastIp, Gather, Goto, TypeOK
  <2> QED BY <1>3, <1>5, <2>1 DEF GeoInv, GeoGathered, Advance
<1>6. CASE LookupIp(e)
  <2>1. PICK geo \in Lookup(q.ip) : Gather(e, "geo", geo)
        BY <1>6 DEF LookupIp
  <2>2. /\ pc[e] = "lookup" /\ pc'[e] \in {"lookupPrevious", "isKnown"}
        /\ context'[e].geo = geo /\ context'[e].previousGeo = context[e].previousGeo
        BY <1>6, <2>1 DEF LookupIp, Gather, Goto, TypeOK
  <2> QED BY <1>3, <1>6, <2>1, <2>2 DEF GeoInv, GeoGathered, Advance, Lookup
<1>7. CASE LookupPrevious(e)
  <2>1. PICK geo \in Lookup(context[e].previousIp) : Gather(e, "previousGeo", geo)
        BY <1>7 DEF LookupPrevious
  <2>2. /\ pc[e] = "lookupPrevious" /\ pc'[e] = "isKnown"
        /\ context'[e].previousGeo = geo /\ context'[e].geo = context[e].geo
        /\ context'[e].previousIp = context[e].previousIp
        BY <1>7, <2>1 DEF LookupPrevious, Gather, Goto, TypeOK
  <2>3. context[e].previousIp = NoIp => geo = NoGeo
        BY <2>1 DEF Lookup
  <2>4. q' = q /\ ~Decided(e)'
        BY <1>3, <1>7, <2>2 DEF Advance
  <2>5. context'[e].geo \in Lookup(q.ip)
        BY <2>2 DEF GeoInv, GeoGathered
  <2> QED BY <2>1, <2>2, <2>3, <2>4, <2>5 DEF GeoInv, GeoGathered, Lookup
<1>8. CASE Evaluate(e)
  <2> DEFINE c == [ip |-> q.ip, previousIp |-> context[e].previousIp, geo |-> context[e].geo,
                   previousGeo |-> context[e].previousGeo, isKnownDevice |-> IsKnown(q),
                   failedAttempts |-> context[e].failedAttempts,
                   isResetFlow |-> FALSE, isPasswordless |-> FALSE]
             r == Reasons(c)
  <2>1. /\ reasons' = [reasons EXCEPT ![e] = r] /\ Finish(e, Decide(r)) /\ pc[e] = "isKnown"
        /\ request' = request
        BY <1>8 DEF Evaluate
  <2>2. /\ "high_risk_country" \in r <=> HighRiskCountry(context[e].geo)
        /\ "country_changed" \in r <=> CountryChanged(context[e].geo, context[e].previousGeo)
        BY DEF Reasons, Signals
  <2> HIDE DEF r, c
  <2>3. reasons'[e] = r
        BY <2>1 DEF TypeOK
  <2>4. /\ context[e].geo \in Lookup(q.ip)
        /\ context[e].previousGeo # NoGeo =>
              /\ context[e].previousIp \in Ips
              /\ context[e].previousGeo \in Lookup(context[e].previousIp)
        BY <1>1, <2>1 DEF GeoInv, GeoGathered
  <2>5. GeoJudged(e)'
        BY <2>1, <2>2, <2>3, <2>4 DEF GeoJudged, CountryChanged, Lookup, HighRiskCountry
  <2> QED BY <2>1, <2>5, GeoFinished
<1>9. CASE Throw(e)
  <2>1. Finish(e, "error")
        BY <1>9 DEF Throw
  <2>2. ~Decided(e)'
        BY <2>1 DEF Finish, Decided, Decisions, TypeOK
  <2> QED BY <2>1, <2>2, GeoFinished
<1> QED BY <1>2, <1>4, <1>5, <1>6, <1>7, <1>8, <1>9 DEF Advance

\* The geo signals of a decision follow from answers of the provider about the
\* request's address and another the user was seen at, never from those of a
\* concurrent evaluation or an earlier one (ZeroTrustService.evaluate).
THEOREM GeoCorrect == Spec => [](\A e \in Evaluations : GeoInv(e))
<1> DEFINE Inv == \A e \in Evaluations : GeoInv(e)
<1>1. Init => Inv
      BY DEF Init, Empty, GeoInv, GeoGathered, Decided, Decisions
<1>2. ZeroTrustInv /\ Inv /\ [Next]_vars => Inv'
  <2> SUFFICES ASSUME ZeroTrustInv, Inv, [Next]_vars PROVE Inv'
      OBVIOUS
  <2>1. TypeOK /\ \A e \in Evaluations : Running(e)
        BY DEF ZeroTrustInv, EvaluationInv
  <2>2. CASE UNCHANGED vars
        BY <2>2, GeoOthers DEF vars
  <2>3. CASE Remember \/ Trust
        BY <2>3, GeoOthers DEF Remember, Trust
  <2>4. ASSUME NEW e \in Evaluations, CanActivate(e) \/ Advance(e) PROVE Inv'
    <3>1. ASSUME NEW d \in Evaluations, d # e
          PROVE  UNCHANGED <<pc[d], request[d], context[d], outcome[d], reasons[d]>>
      <4>1. CASE CanActivate(e)
            BY <2>1, <3>1, <4>1 DEF CanActivate, Finish, TypeOK
      <4>2. CASE Advance(e)
            BY <2>1, <3>1, <4>2 DEF Advance, GetFailures, GetLastIp, LookupIp, LookupPrevious,
               Evaluate, Throw, Finish, Gather, Goto, TypeOK
      <4> QED BY <2>4, <4>1, <4>2
    <3>2. \A d \in Evaluations : d # e => GeoInv(d)'
          BY <3>1, GeoOthers
    <3>3. GeoInv(e)'
          BY <2>1, <2>4, GeoStep
    <3> QED BY <3>2, <3>3
  <2> QED BY <2>2, <2>3, <2>4 DEF Next
<1> QED BY <1>1, <1>2, EvaluationsCorrect, PTL DEF Spec

\* Lookups of ip-api that fail are the only source of false country changes: when
\* both are answered, whoever is said to have changed countries has an address in
\* another one; with ipinfo nobody is said to (RiskEngineService, country change).
THEOREM CountryChangesReal ==
    ASSUME ~Faulty \/ Provider = "ipinfo"
    PROVE  Spec => []CountryChangeReal
<1>1. CASE Provider = "ipinfo"
  <2>1. \A ip : Lookup(ip) \subseteq {NoGeo, NoCountry}
        BY <1>1 DEF Lookup
  <2>2. (\A e \in Evaluations : GeoInv(e)) => CountryChangeReal
        BY <2>1 DEF GeoInv, GeoJudged, CountryChangeReal, CountryChanged
  <2> QED BY <2>2, GeoCorrect, PTL
<1>2. CASE ~Faulty /\ Provider = "ip-api"
  <2>1. (\A e \in Evaluations : GeoInv(e)) => CountryChangeReal
        BY <1>2 DEF GeoInv, GeoJudged, CountryChangeReal, CountryChanged, Lookup
  <2> QED BY <2>1, GeoCorrect, PTL
<1> QED BY <1>1, <1>2, ProviderAssumption

\* The provider is the only reason why high-risk countries go unreported: with
\* ip-api every decision about an address there names it, unless the lookup failed.
THEOREM HighRiskNamed ==
    ASSUME Provider = "ip-api"
    PROVE  Spec => []HighRiskReported
<1>1. (\A e \in Evaluations : GeoInv(e)) => HighRiskReported
      BY DEF GeoInv, GeoJudged, HighRiskReported, HighRiskCountry, Lookup
<1> QED BY <1>1, GeoCorrect, PTL

\* With ipinfo none ever is, wherever the user is: RiskEngineService reads a
\* field of the answer that this provider does not fill.
THEOREM IpInfoBlind ==
    ASSUME Provider = "ipinfo", NoGeo \notin HighRisk
    PROVE  Spec => [](\A e \in Evaluations : Decided(e) =>
                        reasons[e] \cap {"high_risk_country", "country_changed"} = {})
<1> DEFINE Blind == \A e \in Evaluations : Decided(e) =>
                        reasons[e] \cap {"high_risk_country", "country_changed"} = {}
<1>1. (\A e \in Evaluations : GeoInv(e)) => Blind
  <2>1. \A ip : Lookup(ip) \subseteq {NoGeo, NoCountry}
        BY DEF Lookup
  <2> QED BY <2>1, CountryAssumption DEF GeoInv, GeoJudged, CountryChanged, HighRiskCountry
<1> QED BY <1>1, GeoCorrect, PTL
=============================================================================
