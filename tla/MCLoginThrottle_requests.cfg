SPECIFICATION FairThrottleSpec
CONSTANTS
    NoRequest = NoRequest
    Addresses = {a, b}
    Usernames = {n}
    Callers = {r1, r2}
    Limit = 2
    Window = 1
INVARIANTS
    WithinBudget
PROPERTIES
    ForgottenFairly BlockExpires
