\* Reads only, one aoe_search on the user thread, no link events.
CONSTANTS
    l1 = l1
    l2 = l2
    MaxTag <- MC_WideTags
    Per = 2
    Ops = {"read"}
    SectorCounts = {3}
    Lbas <- MC_LbaZero
    Lba48Modes <- MC_Lba48
    ByteCountBits = 64
    Links <- MC_OneLink
    TargetLinks <- MC_OneLink
    Replies <- MC_RepliesOk
    TimeoutAfterDrop = TRUE
    MaxCommands = 1
    MaxSearches = 1
    MaxIdentifies = 0
SPECIFICATION Spec
CHECK_DEADLOCK FALSE
INVARIANT
    ReadDataPlaced
