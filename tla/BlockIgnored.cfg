SPECIFICATION Spec
CONSTANTS
    Users = {ann, bob}
    Admins = {ann}
    Handlers = {h1, h2}
    None = None
    Commands = {give}
    Payloads = {five, nine}
    Beginning <- Known
    MaxUpdates = 4
    Overlap = FALSE
INVARIANT BlockIsKept
CHECK_DEADLOCK FALSE
SYMMETRY Symmetry
