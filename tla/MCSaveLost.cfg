SPECIFICATION Spec
CONSTANTS
    p1 = p1
    p2 = p2
    t1 = t1
    t2 = t2
    troll = troll
    Troll = Troll
    house = house
    Users = {u1}
    Stories = {zork1}
    Commands = {north}
    Names = {troll}
    NoCase <- CaseOfNames
    Fold <- CaseOfNames
    GameIds = {1}
    SaveIds = {1}
    MaxSaves = 1
    Threads = {t1, t2}
    Processes = {p1}
    procOf <- OneProcess
    Ops = {"new", "save"}
    MaxRequests = 3
    NoRow = NoRow
    NoState = NoState
    NoThread = NoThread
    NoRequest = NoRequest
PROPERTIES
    ReportedSaveIsWritten
