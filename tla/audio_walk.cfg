\* The SAD walk over every payload size, with one SAD of a known format
\* (L-PCM, 2 channels) and one of the reserved format code 0.
CONSTANTS
    MaxPayload = 31
    B0Values = {0, 9}
    B1Values = {0}
    B2Values = {0}
    ExtTagValues = {0}
    AllocMayFail = TRUE
SPECIFICATION Spec
INVARIANT SadsFit
PROPERTY AudioRefined
CHECK_DEADLOCK FALSE
