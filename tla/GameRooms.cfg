SPECIFICATION Spec
CONSTANTS
    None = None
    a = a
    b = b
    dare = dare
    word = word
    h1 = h1
    h2 = h2
    Users = {a, b}
    Handlers = {h1, h2}
    Kinds = {word, dare}
    BoardKinds = {}
    Dare = dare
    MaxRooms = 1
    MaxChats = 1
SYMMETRY PairSymmetry
INVARIANTS
    TypeOK
    RequestsWaitForTheEnd
    ChatEndClosesGames
PROPERTIES
    FullRoomKeepsPlayers
    RestartNeedsBoth
    RemovedStaysRemoved
CHECK_DEADLOCK FALSE
