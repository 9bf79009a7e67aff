\* One port, two flows, complete lines.
CONSTANTS
    FlowConfigs <- OnePortConfigs
    Ports = {0}
    Devices <- OneDevice
    MAX_NUM_FLOWS = 2
    NUM_TX_QUEUE = 2
    NUM_RX_QUEUE = 1
    MaxLines = 2
    ReadCounts = {7}
    TAILROOM = 2048
    WORD = 64
    INT_HALF = 32
SPECIFICATION Spec
INVARIANTS
    PayloadInFrame
