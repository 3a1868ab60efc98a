\* Up to three blocks of five tags, two SVD bytes per video block from the
\* boundary values of parse_svd, capability maps of zero or one byte.
CONSTANTS
    BlockTags <- SomeTags
    RawValues <- SvdBoundaryBytes
    MapByteValues = {0, 1}
    MaxBlocks = 3
    MaxSvdBytes = 2
    MaxMapBytes = 1
    VicTableLen = 220
    VicTableRows <- VicRowsCta861H
    ExtTagValues = {0}
    AllocMayFail = TRUE
SPECIFICATION Spec
INVARIANT SvdDecodeAgrees
INVARIANT AccessorsExclusive
CHECK_DEADLOCK FALSE
