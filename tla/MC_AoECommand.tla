--------------------------- MODULE MC_AoECommand ---------------------------
(***************************************************************************)
(* Instances of AoECommand.  Two sectors fit in a packet, so a 3-sector    *)
(* transfer is a full packet and a leftover one; MAX_TAG is scaled down.   *)
(***************************************************************************)
EXTENDS AoECommand

CONSTANTS l1, l2

\* a status of DRDY (0x40) with no error
MC_ReplyOk == [stat |-> 64, err |-> 0]
\* DRDY | ERR (0x41) with ABRT (0x04) in the error register
MC_ReplyErr == [stat |-> 65, err |-> 4]

MC_RepliesOk == {MC_ReplyOk}
MC_RepliesMixed == {MC_ReplyOk, MC_ReplyErr}

MC_Links == {l1, l2}
\* the target is reachable on both links
MC_TargetLinks == {l1, l2}
\* a target with a single link
MC_OneLink == {l1}
MC_Ops == {"read", "write", "flush"}
\* the host's 48-bit commands, or its 28-bit ones
MC_Lba48 == {TRUE}
MC_Lba28 == {FALSE}
\* a command starting at sector 0
MC_LbaZero == {0}
\* a command starting at the last sector below 2^24, so that its second
\* packet's address carries out of the low three bytes
MC_LbaCarry == {2^24 - 1}
\* a tag space the bounded runs cannot wrap
MC_WideTags == 16
=============================================================================
