CONSTANTS
    u1 = u1  u2 = u2  u3 = u3
    None = None
    Users = {u1, u2}
    Handlers = {h1, h2}
    Gender <- MCGender2
    Filters = {"female"}
    InitCoins = 2
    Requests <- MCOneRequest
    Overlap = TRUE
    Faults = TRUE
    MaxSearches = 2
    MaxSettles = 1
    MaxRestarts = 1
SPECIFICATION Spec
CHECK_DEADLOCK FALSE
SYMMETRY HandlerSymmetry
INVARIANTS CoinsNeverNegative ChatNamesOwner TickHandlesUserOnce
