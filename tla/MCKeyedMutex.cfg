SPECIFICATION FairSpec
CONSTANTS
    Threads = {t1, t2, t3}
    Keys = {k1, k2}
    Entries = {e1, e2, e3}
    NoThread = NoThread
    NoKey = NoKey
    NoEntry = NoEntry
INVARIANTS
    TypeOK
    MutualExclusion
    EntriesMatchHolders
PROPERTIES
    ImplementsKeyedLock
    AskersServed
