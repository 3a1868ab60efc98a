CONSTANTS
    DtdStartValues <- IfDtdStarts
    BlockSizes <- IfSizes
    ExtTagValues <- IfExtTags
    AllocMayFail = FALSE

SPECIFICATION Spec

INVARIANTS
    NoStrayAllocation

CHECK_DEADLOCK FALSE
