CONSTANTS
    None = none
    RealmRoles = {"ADMIN", "USER"}
    Ignored = {"offline_access"}
    Requests = {r1, r2}
    c1 = c1
    Configs <- SomeConfigs
    Arrivals <- AllArrivals
    Tenants = {"t1", "t2"}
    Users = {"u1"}
    Events = {"e1", "e2"}
    EventRoles = {"ADMIN", "HELPER"}
    Permissions = {"edit"}
    Clients = {c1}
    Limit = 1
    Window = 1
    MaxChain = 7
SPECIFICATION Spec
SYMMETRY Symmetry
INVARIANTS TypeOK HandlerEntitled OperationNamesEvent PrincipalFaithful RefusalsTrue
PROPERTIES BudgetSpared
