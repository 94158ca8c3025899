CONSTANTS
    Users = {u1}
    Tenants = {t1}
    Anonymous = anonymous
    Handlers = {h1, h2}
    CacheTtl = 3
    MaxLag = 1
    CacheFaulty = TRUE
    ServiceFaulty = TRUE
SPECIFICATION Spec
SYMMETRY Symmetry
INVARIANTS TypeOK DenialsJustified
PROPERTIES StalenessBound ImplementsTenantAnswers
