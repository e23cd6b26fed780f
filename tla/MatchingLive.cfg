CONSTANTS
    u1 = u1  u2 = u2  u3 = u3
    None = None
    Users = {u1, u2}
    Handlers = {h1, h2}
    Gender <- MCGender2
    Filters = {"random", "female"}
    InitCoins = 2
    Requests <- MCNoRequests
    Overlap = FALSE
    Faults = FALSE
    MaxSearches = 2
    MaxSettles = 3
    MaxRestarts = 0
SPECIFICATION FairSpec
CHECK_DEADLOCK FALSE
PROPERTIES SearchAnswered FlagHeals
