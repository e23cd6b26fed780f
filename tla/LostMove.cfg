SPECIFICATION Spec
CONSTANTS
    None = None
    Hidden = Hidden
    BoardKinds = {"gravity", "classic"}
    Side <- MCSide
    Line <- MCLine
    Gravity = {"gravity"}
    Letters = {"x", "y"}
    Digits = {"1", "2"}
    Lengths = {2}
    Racing = {"rps"}
    RacingMarks = 2
    MaxRound = 5
PROPERTY RegisteredMoveKept
CHECK_DEADLOCK FALSE
