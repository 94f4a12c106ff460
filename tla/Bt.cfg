SPECIFICATION MCSpec
CONSTANTS
    MAX_BT_Q = 1
    MAX_SLEEPS = 2
    QUEUE_SIZE = 3
    MAX_FRAMES = 5
    RfEvals = {TRUE, FALSE}
    MaxPerTroubles = 2
INVARIANTS  PerInv
PROPERTIES HciGone 
CHECK_DEADLOCK FALSE
