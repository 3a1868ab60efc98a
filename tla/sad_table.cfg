\* One SAD (a 3-byte payload), every value of bytes 0 and 2.
CONSTANTS
    MaxPayload = 3
    B0Values <- AllBytes
    B1Values <- SomeByte1Values
    B2Values <- AllBytes
    ExtTagValues = {0}
    AllocMayFail = FALSE
SPECIFICATION Spec
INVARIANT SubRecordsDocumented
INVARIANT SampleRatesOfFormat
CHECK_DEADLOCK FALSE
