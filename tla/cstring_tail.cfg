\* This host claims a target; another initiator then claims it with a
\* shorter config string sent, as the AoE protocol allows, without a NUL.
CONSTANTS
    t1 = t1
    t2 = t2
    l1 = l1
    l2 = l2
    Slots <- MC_Slots
    Links <- MC_Links
    TargetLinks <- MC_TargetLinks
    Offline = 1
    CStrMax = 3
    Ours <- MC_Ours
    OurStrings <- MC_OurStrings
    ForeignBytes <- MC_ForeignUnterminated
    InitBytes <- MC_InitForeign
    Switched <- MC_Switched
SPECIFICATION Spec
CHECK_DEADLOCK FALSE
INVARIANTS
    ClaimMatchesTarget
