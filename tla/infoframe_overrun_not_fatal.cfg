CONSTANTS
    DtdStartValues <- IfDtdStarts
    BlockSizes <- IfSizes
    ExtTagValues <- IfExtTags
    AllocMayFail = FALSE

SPECIFICATION Spec

INVARIANTS
    InfoFrameOverrunAborts

CHECK_DEADLOCK FALSE
