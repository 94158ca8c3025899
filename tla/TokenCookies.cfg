CONSTANTS
    Replies = {r1, r2}
    Pairs = {p1, p2}
    None = none
    Invalid = invalid
    Policies <- SomePolicies
    Lifetimes <- SomeLifetimes
    Second = 2
    TokenLife = 2
    MaxLag = 1
SPECIFICATION Spec
SYMMETRY Symmetry
INVARIANTS TypeOK OnePair LifetimeKept RevokedUntilExpiry
