CONSTANTS
    DtdStartValues <- AudioDtdStarts
    BlockSizes <- AudioSizes
    ExtTagValues <- AudioExtTags
    AllocMayFail = TRUE

SPECIFICATION Spec

INVARIANTS
    NoStrayAllocation

CHECK_DEADLOCK FALSE
