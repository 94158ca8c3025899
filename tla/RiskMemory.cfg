CONSTANTS
    Users = {u1}
    Reports = {p1, p2, p3}
    Ips = {i1, i2}
    Devices = {d1}
    FailureTtl = 2
    StepUpTtl = 2
    LastIpTtl = 1
    Faulty = TRUE
SPECIFICATION FairSpec
INVARIANTS TypeOK FailuresRemembered StepUpBound
PROPERTIES FailuresFade ImplementsFacts
