CONSTANTS
    u1 = u1  u2 = u2  u3 = u3
    None = None
    Users = {u1, u2}
    Handlers = {h1}
    Gender <- MCGender2
    Filters = {"male", "female"}
    InitCoins = 4
    Requests <- MCNoRequests
    Overlap = FALSE
    Faults = TRUE
    MaxSearches = 2
    MaxSettles = 3
    MaxRestarts = 0
SPECIFICATION Spec
CHECK_DEADLOCK FALSE
INVARIANT RefundedOnce
