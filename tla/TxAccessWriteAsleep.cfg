CONSTANTS
    COMMON_ID = COMMON_ID
    Owners = {WLAN_ID}
    Direct = {per1}
    AckOutcomes = {"sent"}
SPECIFICATION Spec
INVARIANT EveryWriteAwake
