CONSTANTS
    Flows <- MCFlows
    Queues = {0, 1}
    FlowTable <- QueueTable
    Order <- QueueOrder
    FUDGE_FACTOR = 1
    ONE_SECOND = 2
    LeadSeconds = 1
    PIT_OFFSET = 2
    PIT_RUNTIME = 1
    PIT_HW = TRUE
    PIT_ETF = TRUE
    NUM_TX_DESC = 1
    Start = 1
    MaxTime = 11
SPECIFICATION FairSpec
PROPERTIES
    ImplementsFlowService
    Finishes
