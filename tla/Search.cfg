SPECIFICATION Spec
CONSTANTS
    me = me
    ann = ann
    bob = bob
    eve = eve
    Users = {ann, bob, eve}
    Searchers = {me}
    None = None
    Earlier <- earlier
    StartTime = 3
    MaxTime = 4
    MaxUpdates = 2
    MaxFaults = 1
    Gender <- gender
    Age <- age
    Province <- province
    New = {bob, eve}
    GPS = {me, ann}
    Near <- near
    SearchTypes = {"age", "advanced"}
    Provinces = {"fars"}
    searchPageSize = 1
    RecentWindow = 2
    DefaultWindow = 3
    MaxPresses = 3
INVARIANTS
    NoneSkipped
    NothingLostOtherwise
PROPERTIES ActivityReachesTable
CHECK_DEADLOCK FALSE
