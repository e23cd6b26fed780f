SPECIFICATION Spec
CONSTANTS
    Users = {ann, bob}
    Admins = {ann}
    Handlers = {h1, h2}
    None = None
    Commands = {give}
    Payloads = {five, nine}
    Beginning <- Known
    MaxUpdates = 4
    Overlap = FALSE
INVARIANTS
    TypeOK
    AnswerFitsQuestion
    QuestionStaysOpen
    RunsWhatWasShown
CHECK_DEADLOCK FALSE
SYMMETRY Symmetry
