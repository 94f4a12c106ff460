SPECIFICATION MCFairSpec
CONSTANTS
    COMMON_ID = COMMON_ID
    Owners = {WLAN_ID, BT_ZB_ID}
    Direct = {per1}
    AckOutcomes = {"sent"}
    NUM_EDCA_QUEUES = 2
    wme_params <- MCWme
    BURST <- MCBurst
    Troubles = {"connect", "unsent"}
    U8_RANGE = 3
    MaxLen = 1
    DeviceAnswers = {"QUEUE_NOT_FULL", "QUEUE_FULL"}
INVARIANT RefusedEntryAnswered
PROPERTIES EntryLeadsToSleep NoStarvation
