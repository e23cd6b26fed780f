CONSTANTS
    u1 = u1  u2 = u2  u3 = u3
    None = None
    Users = {u1, u2}
    Handlers = {h1, h2}
    Gender <- MCGender2
    Filters = {"random", "female"}
    InitCoins = 4
    Requests <- MCNoRequests
    Overlap = FALSE
    Faults = FALSE
    MaxSearches = 3
    MaxSettles = 3
    MaxRestarts = 0
SPECIFICATION Spec
CHECK_DEADLOCK FALSE
SYMMETRY HandlerSymmetry
INVARIANTS TypeOK OneEntryPerUser SettledOnce NoSearchLost QueuedUsersAreFree
PROPERTIES ImplementsContract ChatNotReplaced
