CONSTANTS
    Flows <- MCFlows
    Queues = {0, 1}
    FlowTable <- ConfigQueueTable
    Order <- ConfigQueueOrder
    FUDGE_FACTOR = 1
    ONE_SECOND = 4
    LeadSeconds = 1
    PIT_OFFSET = 0
    PIT_RUNTIME = 1
    PIT_HW = TRUE
    PIT_ETF = TRUE
    NUM_TX_DESC = 1
    Start = 0
    MaxTime = 16
SPECIFICATION PromptSpec
PROPERTIES
    StampIsOwn
