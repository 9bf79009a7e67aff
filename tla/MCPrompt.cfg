CONSTANTS
    Flows <- MCFlows
    Queues = {0, 1}
    FlowTable <- TightTable
    Order <- TightOrder
    FUDGE_FACTOR = 1
    ONE_SECOND = 40
    LeadSeconds = 1
    PIT_OFFSET = 4
    PIT_RUNTIME = 1
    PIT_HW = TRUE
    PIT_ETF = TRUE
    NUM_TX_DESC = 1
    Start = 15
    MaxTime = 70
SPECIFICATION PromptSpec
PROPERTIES
    InTimeOnceSending
