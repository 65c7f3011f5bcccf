SPECIFICATION Spec
CONSTANTS
    Openers = {server, init}
    Inits = {init}
    Server = server
    Last = 2
    PingTimeout = 2
    StaleAfter = 3
    Sweeps <- SweepsOfServe
    Turns = {t1}
INVARIANTS TypeOK AppliedInOrder RaceIsHarmless TurnsAreStored ShutdownIsNoFailure
PROPERTIES WedgedForGood FailureIsReported RecoveryIsReported SweepsGoOn StopsWhenAsked
CHECK_DEADLOCK FALSE
