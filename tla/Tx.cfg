SPECIFICATION MCSpec
CONSTANTS
    COMMON_ID = COMMON_ID
    Owners = {WLAN_ID, BT_ZB_ID}
    Direct = {per1}
    AckOutcomes = {"sent", "nomem", "buserr"}
    NUM_EDCA_QUEUES = 2
    wme_params <- MCWme
    BURST <- MCBurst
    Troubles = {"block", "purge", "connect", "denied", "unsent"}
    U8_RANGE = 3
    MaxLen = 2
    DeviceAnswers = {"QUEUE_NOT_FULL", "QUEUE_FULL", "error"}
INVARIANTS OwnersWriteAwake WokenIsGranted AckMatchesEntry
PROPERTY GateSpec
  
