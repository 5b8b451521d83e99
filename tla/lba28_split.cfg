\* One 4-sector write addressed with 28-bit LBA at LBA 0, split into
\* 2-sector packets: asyncCommand counts its replies from ataTFSector.
CONSTANTS
    l1 = l1
    l2 = l2
    MaxTag <- MC_WideTags
    Per = 2
    Ops = {"write"}
    SectorCounts = {4}
    Lbas <- MC_LbaZero
    Lba48Modes <- MC_Lba28
    ByteCountBits = 64
    Links <- MC_Links
    TargetLinks <- MC_TargetLinks
    Replies <- MC_RepliesOk
    TimeoutAfterDrop = FALSE
    MaxCommands = 1
    MaxSearches = 1
    MaxIdentifies = 0
SPECIFICATION Spec
CHECK_DEADLOCK FALSE
PROPERTIES
    PacketsCoverCommand
