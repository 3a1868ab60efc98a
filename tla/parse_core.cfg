CONSTANTS
    DtdStartValues <- CoreDtdStarts
    BlockSizes <- CoreSizes
    ExtTagValues <- CoreExtTags
    AllocMayFail = TRUE

SPECIFICATION Spec

INVARIANTS
    TypeOK
    ReadsWithinRegions
    NoOffsetMismatch
    FailureReleasesRecords

PROPERTIES
    Termination
    ReleaseOnlyOnFailure

CHECK_DEADLOCK FALSE
