SPECIFICATION Spec
CONSTANTS
    LIMB = 2
    LIMBS = 6
    FIX32 = 2
    FIX64 = 3
    Fields <- AllFields
    Depth <- AllDepths
    Messages <- AllMessages
    Versions <- AllVersions
    Exchanges <- AllExchanges
INVARIANTS
    SizeIsExact
    OffsetsAreFieldStarts
    ReadsWhatWasWritten
CHECK_DEADLOCK FALSE
