\* Writes of 3 sectors (two packets) whose replies may carry ATA errors.
CONSTANTS
    l1 = l1
    l2 = l2
    MaxTag <- MC_WideTags
    Per = 1
    Ops = {"write"}
    SectorCounts = {3}
    Lbas <- MC_LbaZero
    Lba48Modes <- MC_Lba48
    ByteCountBits = 64
    Links <- MC_OneLink
    TargetLinks <- MC_OneLink
    Replies <- MC_RepliesMixed
    TimeoutAfterDrop = TRUE
    MaxCommands = 1
    MaxSearches = 0
    MaxIdentifies = 0
SPECIFICATION Spec
CHECK_DEADLOCK FALSE
INVARIANT
    ErrorReported
