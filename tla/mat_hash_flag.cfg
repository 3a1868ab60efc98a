\* One MAT SAD (format code 12 in byte 0), byte 2 with every value of its
\* two low bits.
CONSTANTS
    MaxPayload = 3
    B0Values = {96}
    B1Values = {0}
    B2Values = {0, 1, 2, 3}
    ExtTagValues = {0}
    AllocMayFail = FALSE
SPECIFICATION Spec
INVARIANT MatHashFlagFromBit1
CHECK_DEADLOCK FALSE
