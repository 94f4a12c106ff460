SPECIFICATION MCSpec
CONSTANTS
    MAX_SKBS = 3
    STOP_OWN <- MCStopOwn
    VO_STOP = 2 VI_STOP = 2 BE_STOP = 3 LATE_BE_STOP = 1 LATE_STOP = 2
    VO_WAKE = 2 VI_WAKE = 3 BE_WAKE = 2 BK_WAKE = 1 VI_LOW = 1 BE_LOW = 2
    MAX_QLEN = 6
    MAX_AMSDUS = 3
    LifeTroubles = {"no_memory", "pins", "no_tx_thread", "coex", "workqueue", "socket", "mode", "bus", "id", "no_rx_thread", "irq", "load", "endpoints", "urb", "submit", "register", "dir", "read", "late_boot"}
    FLOWS = {0, 1}
    RETRY_LIMIT = 1
    MAX_AIR = 1
    TwtTroubles = {"descriptor", "no_skb", "lost"}
INVARIANTS  LifeInv TwtInv
CHECK_DEADLOCK FALSE
