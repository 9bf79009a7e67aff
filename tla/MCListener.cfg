\* Six buffers, of which two are in the ring and one is main()'s: three receptions,
\* and then a ring that fills up.
CONSTANTS
    NUM_MBUF_ELEMENTS = 6
    NUM_RX_DESC = 2
    MaxFrames = 7
SPECIFICATION FairSpec
INVARIANTS
    TypeOK
    EachFrameOnce
    StampIsOwn
PROPERTIES
    HeardWhilePoolLasts
