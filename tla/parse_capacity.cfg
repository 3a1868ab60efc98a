CONSTANTS
    DtdStartValues <- CapDtdStarts
    BlockSizes <- CapSizes
    ExtTagValues <- CapExtTags
    AllocMayFail = FALSE

SPECIFICATION Spec

INVARIANTS
    CapacityBounds

CHECK_DEADLOCK FALSE
