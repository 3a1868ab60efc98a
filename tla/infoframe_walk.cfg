CONSTANTS
    MaxPayload = 30
    ExtTagValues = {0}
    AllocMayFail = TRUE
SPECIFICATION Spec
INVARIANT InfoFramesFit
PROPERTY DecodeRefined
CHECK_DEADLOCK FALSE
