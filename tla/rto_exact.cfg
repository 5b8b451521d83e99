CONSTANTS
    IntBits <- MC_IntBits
    UBits <- MC_UBits
    NsPerUs <- MC_NsPerUs
    RtoMinNs <- MC_RtoMinNs
    RtoMaxNs <- MC_RtoMaxNs
    Samples <- MC_SafeSamples
    MaxSamples = 4
SPECIFICATION Spec
CHECK_DEADLOCK FALSE
INVARIANTS
    RtoMatchesReference
