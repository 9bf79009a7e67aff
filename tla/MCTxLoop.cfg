CONSTANTS
    Flows <- MCFlows
    Queues = {0}
    FlowTable <- MixedTable
    Order <- MixedOrder
    FUDGE_FACTOR = 1
    ONE_SECOND = 4
    LeadSeconds = 1
    PIT_OFFSET = 0
    PIT_RUNTIME = 2
    PIT_HW = TRUE
    PIT_ETF = TRUE
    NUM_TX_DESC = 1
    Start = 0
    MaxTime = 18
SPECIFICATION Spec
INVARIANTS
    TypeOK
    GridAligned
    CountersBalance
    CycleAligned
    SampleLocals
    OverrunBounded
    JitterWholePeriods
PROPERTIES
    LaunchOrder
