SPECIFICATION Spec
CONSTANTS
    zork = zork
    Zork = Zork
    flood = flood
    Addresses <- AsTyped
    Normalized <- LowerCase
    Passwords = {pw}
    UserIds = {1, 2}
    Links = {l1, l2}
    Cookies = {c1}
    InviteTTL = 1
    SessionTTL = 1
    Threads = {t1, t2}
    MaxTime = 2
    MaxRequests = 3
    NoRow = NoRow
    NoTime = NoTime
    NoUser = NoUser
    NoRequest = NoRequest
SYMMETRY Symmetry
INVARIANTS
    TypeOK
    AccountsConsistent
    OnlyLiveServed
PROPERTIES
    AccountPerInvitation
    NobodyElseLogsOut
