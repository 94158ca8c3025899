---------------------------- MODULE RiskEngine ----------------------------
(***************************************************************************)
(* RiskEngineService.evaluate (src/zero-trust/risk) as a function of what  *)
(* it has gathered: which signals it reports, their score and the decision *)
(* the score leads to.                                                     *)
(***************************************************************************)
EXTENDS Integers

CONSTANTS
    NoIp,         \* ip or previousIp missing
    NoCountry,    \* a geo answer without a countryCode
    HighRisk      \* HIGH_RISK_COUNTRIES

ASSUME CountryAssumption == NoCountry \notin HighRisk

\* "No geo answer" is null in the code: the address was missing.
NoGeo == "null"

Signals == {"unknown_device", "ip_changed", "country_changed", "high_risk_country",
            "failed_attempts>=3", "failed_attempts>=6", "reset_flow", "passwordless_flow"}
-----------------------------------------------------------------------------
IpChanged(ip, previousIp) == previousIp # NoIp /\ previousIp # ip

\* geo and previousGeo are country codes, NoCountry when the lookup failed.
CountryChanged(geo, previousGeo) ==
    geo # NoGeo /\ previousGeo # NoGeo /\ geo # previousGeo

\* Mutant: an unknown country is a high-risk one.
HighRiskUnlessKnown(geo) == geo \in HighRisk \cup {NoCountry}

HighRiskCountry(geo) == geo \in HighRisk

\* Mutant: more than three failures instead of three.
FailedTooOften(n) == n > 3

FailedOften(n) == n >= 3

FailedVeryOften(n) == n >= 6

\* The signals of one evaluation.  c has the fields of RiskContext, plus the
\* answers of the geo and device services.
Reasons(c) ==
    {s \in Signals :
        CASE s = "unknown_device"     -> ~c.isKnownDevice
          [] s = "ip_changed"         -> IpChanged(c.ip, c.previousIp)
          [] s = "country_changed"    -> CountryChanged(c.geo, c.previousGeo)
          [] s = "high_risk_country"  -> HighRiskCountry(c.geo)
          [] s = "failed_attempts>=3" -> FailedOften(c.failedAttempts)
          [] s = "failed_attempts>=6" -> FailedVeryOften(c.failedAttempts)
          [] s = "reset_flow"         -> c.isResetFlow
          [] s = "passwordless_flow"  -> c.isPasswordless}

\* What a signal adds to the score.
Weight(s) ==
    CASE s = "unknown_device"     -> 20
      [] s = "ip_changed"         -> 15
      [] s = "country_changed"    -> 30
      [] s = "high_risk_country"  -> 40
      [] s = "failed_attempts>=3" -> 20
      [] s = "failed_attempts>=6" -> 30
      [] s = "reset_flow"         -> 15
      [] s = "passwordless_flow"  -> 10

\* Math.max(0, Math.min(100, score))
Clamp(n) == IF n > 100 THEN 100 ELSE IF n < 0 THEN 0 ELSE n

Points(reasons, s) == IF s \in reasons THEN Weight(s) ELSE 0

Score(reasons) ==
    Clamp(Points(reasons, "unknown_device") + Points(reasons, "ip_changed")
        + Points(reasons, "country_changed") + Points(reasons, "high_risk_country")
        + Points(reasons, "failed_attempts>=3") + Points(reasons, "failed_attempts>=6")
        + Points(reasons, "reset_flow") + Points(reasons, "passwordless_flow"))

\* Mutant: the two step-up methods are swapped.
DecisionSwapped(score) ==
    CASE score >= 85 -> "block"
      [] score >= 60 /\ score < 85 -> "totp"
      [] score >= 35 /\ score < 60 -> "webauthn"
      [] score < 35  -> "allow"

\* BLOCK, STEP_UP with WEBAUTHN, STEP_UP with TOTP, ALLOW.
Decision(score) ==
    CASE score >= 85 -> "block"
      [] score >= 60 /\ score < 85 -> "webauthn"
      [] score >= 35 /\ score < 60 -> "totp"
      [] score < 35  -> "allow"

Decide(reasons) == Decision(Score(reasons))
-----------------------------------------------------------------------------
\* How hard a decision makes it for the user.
Severity(decision) ==
    CASE decision = "allow"    -> 0
      [] decision = "totp"     -> 1
      [] decision = "webauthn" -> 2
      [] decision = "block"    -> 3
=============================================================================
