\* A Video Data Block of two SVDs (VIC 1) whose calloc may fail, and a
\* one-byte capability map.
CONSTANTS
    BlockTags <- VideoAndMapTags
    RawValues = {1}
    MapByteValues = {1}
    MaxBlocks = 2
    MaxSvdBytes = 2
    MaxMapBytes = 1
    VicTableLen = 220
    VicTableRows <- VicRowsCta861H
    ExtTagValues = {0}
    AllocMayFail = TRUE
SPECIFICATION Spec
INVARIANT CapMapByPosition
CHECK_DEADLOCK FALSE
