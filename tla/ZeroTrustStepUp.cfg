CONSTANTS
    NoIp = noIp
    NoCountry = noCountry
    HighRisk = {"RU", "IR", "KP", "SY"}
    Users = {u1}
    i1 = i1
    i2 = i2
    Ips = {i1, i2}
    Devices = {d1}
    Contexts <- AllContexts
    NoUser = noUser
    NoDevice = noDevice
    MaxFailures = 3
    Evaluations = {e1}
    Provider = "ip-api"
    Country <- BothHome
    Faulty = FALSE
SPECIFICATION Spec
INVARIANTS TrustWindowHonoured
