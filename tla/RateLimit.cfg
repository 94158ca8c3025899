CONSTANTS
    Requests = {r1, r2, r3}
    Clients = {c1}
    Limit = 1
    Window = 3
    Second = 2
    Faulty = TRUE
SPECIFICATION FairSpec
INVARIANTS TypeOK WindowBudget SlidingBudget NoSpuriousRefusal ArmedOrPending RetryAfterHonest
PROPERTIES WindowNeverExtended RefusalEnds ImplementsFixedWindow
