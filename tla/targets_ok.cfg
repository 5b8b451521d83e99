\* Two targets appear, age out, come back, are claimed and released by this
\* host and by another initiator; interfaces are disabled and enabled.
\* A disabled last interface can hang the work loop in send_packet, where
\* the system really stops, so deadlock is not checked.
CONSTANTS
    t1 = t1
    t2 = t2
    l1 = l1
    l2 = l2
    Slots <- MC_Slots
    Links <- MC_Links
    TargetLinks <- MC_TargetLinks
    Offline = 1
    CStrMax = 3
    Ours <- MC_Ours
    OurStrings <- MC_OurStrings
    ForeignBytes <- MC_ForeignTerminated
    InitBytes <- MC_InitForeign
    Switched <- MC_Switched
SPECIFICATION Spec
CHECK_DEADLOCK FALSE
INVARIANTS
    TypeOK
    RegistryIdentity
PROPERTIES
    OfflineTargetRemoved
    RefinesRegistry
