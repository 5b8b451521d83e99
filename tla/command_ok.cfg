\* Two reads, writes or faked flushes of 1 and 3 sectors, with an aoe_search
\* racing on the tag counter, one StateUpdateTimer IDENTIFY, dropped
\* requests, host timeouts and the target's link going down.
CONSTANTS
    l1 = l1
    l2 = l2
    MaxTag <- MC_WideTags
    Per = 2
    Ops <- MC_Ops
    SectorCounts = {1, 3}
    Lbas <- MC_LbaCarry
    Lba48Modes <- MC_Lba48
    ByteCountBits = 64
    Links <- MC_Links
    TargetLinks <- MC_TargetLinks
    Replies <- MC_RepliesOk
    TimeoutAfterDrop = FALSE
    MaxCommands = 2
    MaxSearches = 1
    MaxIdentifies = 1
SPECIFICATION Spec
CHECK_DEADLOCK FALSE
INVARIANTS
    TypeOK
    CommandNotStranded
PROPERTIES
    PacketsCoverCommand
