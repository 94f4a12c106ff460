SPECIFICATION MCSpec
CONSTANTS
    Is9116 = FALSE
    Events = {"fault", "assert", "suspend", "hibernate"}
    HIBERNATIONS = 2
    CHANNELS = 2
    SplitCallback = TRUE
    BgTroubles = {"lost", "late", "left", "debug"}
    MAX_CFMS = 2
    Vifs = {v1}
    NoVif = NoVif
    NoChan = NoChan
    Chans <- MCChans
    MaxTroubles = 1
INVARIANTS InStep  CompletesItsScan BgInv VifInv
PROPERTIES AttachesOnce    WholeList BgLive RocEnds
CHECK_DEADLOCK FALSE
