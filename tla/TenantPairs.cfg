CONSTANTS
    Users = {u1}
    Tenants = {t1, t2}
    Anonymous = anonymous
    Handlers = {h1}
    CacheTtl = 2
    MaxLag = 1
    CacheFaulty = TRUE
    ServiceFaulty = FALSE
SPECIFICATION FairSpec
INVARIANTS CacheFaultsHarmless
PROPERTIES StalenessBound RevocationTakesEffect
