SPECIFICATION Spec
CONSTANTS
    None = None
    Hidden = Hidden
    BoardKinds = {"gravity", "classic"}
    Side <- MCSide
    Line <- MCLine
    Gravity = {"gravity"}
    Letters = {"x", "y"}
    Digits = {"1", "2"}
    Lengths = {2}
    Racing = {"classic", "rps", "word", "dare"}
    RacingMarks = 2
    MaxRound = 5
INVARIANTS
    TypeOK
    BoardsLegal
    NoMissedEnd
    DisplaysTruthful
    NeverStuck
    OneResult
PROPERTY NothingTakenBack
CHECK_DEADLOCK FALSE
