SPECIFICATION Spec
CONSTANTS
    p1 = p1
    p2 = p2
    t1 = t1
    t2 = t2
    troll = troll
    Troll = Troll
    house = house
    Users = {u1}
    Stories = {zork1, zork2}
    Commands = {north}
    Names = {troll, Troll, house}
    NoCase <- CaseOfNames
    Fold <- CaseOfNames
    GameIds = {1, 2}
    SaveIds = {1, 2}
    MaxSaves = 2
    Threads = {t1, t2}
    Processes = {p1}
    procOf <- OneProcess
    Ops = {"new", "play", "save", "restore", "restoreNamed", "restart", "delete", "deleteSave"}
    MaxRequests = 4
    NoRow = NoRow
    NoState = NoState
    NoThread = NoThread
    NoRequest = NoRequest
SYMMETRY ThreadSymmetry
INVARIANTS
    TypeOK
    ScreenMatchesState
    StatesFitTheirStory
    LockCoversCycle
    SavesSound
PROPERTIES
    ImplementsGameSpec
