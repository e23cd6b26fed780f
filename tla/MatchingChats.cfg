CONSTANTS
    u1 = u1  u2 = u2  u3 = u3
    None = None
    Users = {u1, u2, u3}
    Handlers = {h1, h2}
    Gender <- MCGender3
    Filters = {"random"}
    InitCoins = 0
    Requests <- MCLateRequest
    Overlap = FALSE
    Faults = FALSE
    MaxSearches = 2
    MaxSettles = 1
    MaxRestarts = 1
SPECIFICATION Spec
CHECK_DEADLOCK FALSE
SYMMETRY HandlerSymmetry
INVARIANTS ChatsAreMutual RandomSideFits OrderMattersOnlyForNearby
