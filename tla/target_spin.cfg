\* The user disables the only interface of a target the registry still
\* lists; the next StateUpdateTimer sends IDENTIFY to it.
CONSTANTS
    t1 = t1
    t2 = t2
    l1 = l1
    l2 = l2
    Slots <- MC_Slots
    Links <- MC_Links
    TargetLinks <- MC_TargetLinks
    Offline = 1
    CStrMax = 3
    Ours <- MC_Ours
    OurStrings <- MC_OurStrings
    ForeignBytes <- MC_ForeignTerminated
    InitBytes <- MC_InitForeign
    Switched <- MC_Switched
SPECIFICATION Spec
INVARIANTS
    WorkLoopNeverSpins
