SPECIFICATION Spec
CONSTANTS
    p1 = p1
    p2 = p2
    t1 = t1
    t2 = t2
    troll = troll
    Troll = Troll
    house = house
    Users = {u1, u2}
    Stories = {zork1}
    Commands = {north}
    Names = {troll, house}
    NoCase <- CaseOfNames
    Fold <- CaseOfNames
    GameIds = {1}
    SaveIds = {1, 2}
    MaxSaves = 1
    Threads = {t1, t2, t3}
    Processes = {p1, p2}
    procOf <- TwoProcesses
    Ops = {"new", "play", "save", "restore", "restart", "deleteSave"}
    MaxRequests = 4
    NoRow = NoRow
    NoState = NoState
    NoThread = NoThread
    NoRequest = NoRequest
SYMMETRY ProcessSymmetry
INVARIANTS
    SavesSound
    LocksAreHeld
PROPERTIES
    OverwritesWhatItRead
    OnlyOwnersWrite
