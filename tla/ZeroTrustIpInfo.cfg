CONSTANTS
    NoIp = noIp
    NoCountry = noCountry
    HighRisk = {"RU", "IR", "KP", "SY"}
    Users = {u1}
    i1 = i1
    i2 = i2
    Ips = {i1, i2}
    Devices = {d1}
    Contexts = {}
    NoUser = noUser
    NoDevice = noDevice
    MaxFailures = 1
    Evaluations = {e1}
    Provider = "ipinfo"
    Country <- OneAbroad
    Faulty = FALSE
SPECIFICATION Spec
INVARIANTS HighRiskReported
