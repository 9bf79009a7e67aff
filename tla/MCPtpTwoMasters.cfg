CONSTANTS
    Masters = {m1, m2}
    NoMaster = none
    Delays = {1, 3}
    Offsets <- MCOffsets
    Start = 5
    Overlap = FALSE
    PromptCard = TRUE
    Limit <- TwoMastersLimit
SPECIFICATION Spec
PROPERTIES
    CorrectionSynchronizes
