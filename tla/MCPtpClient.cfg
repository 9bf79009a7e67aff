CONSTANTS
    Masters = {m1}
    NoMaster = none
    Delays = {1, 3}
    Offsets <- MCOffsets
    Start = 5
    Overlap = FALSE
    PromptCard = TRUE
    Limit <- MCLimit
SPECIFICATION FairSpec
INVARIANTS
    TypeOK
PROPERTIES
    CorrectionSynchronizes
    Recovers
