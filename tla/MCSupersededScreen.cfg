SPECIFICATION HSpec
CONSTANTS
    p1 = p1
    troll = troll
    Users = {u1}
    Stories = {zork1}
    Commands = {north}
    Names = {troll}
    NoCase <- ExactNames
    Fold <- ExactNames
    GameIds = {1}
    SaveIds = {1}
    MaxSaves = 1
    Threads = {t1, t2}
    Processes = {p1}
    procOf <- OneProcess
    Ops = {"new", "play", "restart"}
    MaxRequests = 4
    NoRow = NoRow
    NoState = NoState
    NoThread = NoThread
    NoRequest = NoRequest
PROPERTIES
    StaleTurnRefused
