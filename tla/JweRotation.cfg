CONSTANTS
    Instances = {i1, i2}
    Sessions = {s1}
    StoreKeys = {"pending:1"}
    Schedule <- TwoRotations
    SessionTtl = 3
    StoreTtl = 4
    MaxSkew = 1
    RetireAfter = 5
    MaxAuthAge = 7
SPECIFICATION Spec
SYMMETRY Symmetry
INVARIANTS TypeOK SessionsSurviveRotation ExpiryWithinSkew AuthenticationRemembered StoredReadable
