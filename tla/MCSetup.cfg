\* Two ports, a table of three flows, a line more than it has room for.
CONSTANTS
    FlowConfigs <- MCFlowConfigs
    Ports = {0, 1}
    Devices <- MCDevices
    MAX_NUM_FLOWS = 3
    NUM_TX_QUEUE = 2
    NUM_RX_QUEUE = 1
    MaxLines = 4
    ReadCounts = {0, 2, 7}
    TAILROOM = 2048
    WORD = 64
    INT_HALF = 8
SPECIFICATION Spec
INVARIANTS
    TypeOK
    CycleIsLeastCommonMultiple
    SortedStable
    FramesExact
    FlowsAsWritten
    FlowsReady
    ChecksumStands
