\* One Video Data Block holding the SVD byte 220 (non-native VIC 220).
CONSTANTS
    BlockTags = {2}
    RawValues = {220}
    MapByteValues = {0}
    MaxBlocks = 1
    MaxSvdBytes = 1
    MaxMapBytes = 0
    VicTableLen = 220
    VicTableRows <- VicRowsCta861H
    ExtTagValues = {0}
    AllocMayFail = FALSE
SPECIFICATION Spec
INVARIANT VicLookupInBounds
CHECK_DEADLOCK FALSE
