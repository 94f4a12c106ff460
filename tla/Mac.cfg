SPECIFICATION MCSpec
CONSTANTS
    Stas = {a, b}
    NoSta = NoSta
    MaxStations = 2
    Tids = {1, 2}
    NoTid = 0
    MaxQueue = 2
    MaxSessions = 2
    MaxStaTroubles = 1
    Values = {0, 1}
    Groups <- MCGroups
    Monitors = {TRUE, FALSE}
    DeepSleep = TRUE
    MAX_REQS = 3
    PsTroubles = {"lost", "early", "crossed"}
    MaxRrmQueue = 3
    MaxRrmTroubles = 2
SYMMETRY MCSymmetry
INVARIANTS  ParInv PsInv RrmInv
PROPERTIES WakesSleeper
CHECK_DEADLOCK FALSE
