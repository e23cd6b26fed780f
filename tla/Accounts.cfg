SPECIFICATION Spec
CONSTANTS
    Users = {ann, bob, cyn}
    Handlers = {h1, h2}
    None = None
    ReferralCoins = 2
    ProfileBonus = 1
    PoorThreshold = 2
    Amounts = {1}
    MaxUpdates = 2
    Overlap = TRUE
    Faults = TRUE
INVARIANTS
    CoinsBacked
    InvitesBacked
    BooksBalance
CHECK_DEADLOCK FALSE
SYMMETRY Symmetry
