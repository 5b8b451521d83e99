\* A read or write timed out by the host while its request is still on
\* the wire, then the next command; StateUpdateTimer may send IDENTIFY.
CONSTANTS
    l1 = l1
    l2 = l2
    MaxTag <- MC_WideTags
    Per = 2
    Ops = {"read", "write"}
    SectorCounts = {1, 3}
    Lbas <- MC_LbaZero
    Lba48Modes <- MC_Lba48
    ByteCountBits = 64
    Links <- MC_OneLink
    TargetLinks <- MC_OneLink
    Replies <- MC_RepliesOk
    TimeoutAfterDrop = FALSE
    MaxCommands = 2
    MaxSearches = 0
    MaxIdentifies = 1
SPECIFICATION Spec
CHECK_DEADLOCK FALSE
INVARIANT
    RepliesMatchIssued
