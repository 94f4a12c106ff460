SPECIFICATION SchedSpec
CONSTANTS
    NUM_EDCA_QUEUES = 2
    wme_params <- MCWme
    BURST <- MCBurst
    U8_RANGE = 3
    Troubles = {}
    MaxLen = 1
    DeviceAnswers = {"QUEUE_NOT_FULL"}
PROPERTY LeastBackOffServed
