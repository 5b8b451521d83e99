----------------------------- MODULE AoECommand -----------------------------
(***************************************************************************)
(* The command translator of one target (AoEController.cpp) together with *)
(* the tag counter it draws from (AoEControllerInterface::next_tag).       *)
(*                                                                         *)
(* A host command is started by asyncCommand, which splits a read or a     *)
(* write into packets of at most m_nMaxSectorsPerTransfer sectors and      *)
(* issues each with issueCommand, taking a fresh tag for each.  Replies    *)
(* come back through ata_response in any order; reads are copied to the   *)
(* offset (tag - m_unReadBaseTag) * chunk; the command completes, through  *)
(* asyncStatus, when m_nReadWriteRepliesRequired reaches zero.  FLUSH and  *)
(* the like are answered by the zero-delay FakeReturnTimer.                *)
(*                                                                         *)
(* asyncCommand, ata_response, cancel_command and the fake timer all run   *)
(* on the service's work loop and are atomic with respect to each other;   *)
(* asyncCommand is split into one step per issueCommand only because the   *)
(* user thread's aoe_search calls next_tag without a lock, between two of  *)
(* those steps and between the read and the write of its own ++.           *)
(*                                                                         *)
(* The transport is abstracted to the set of requests on the wire, each    *)
(* answered once or dropped silently (what AoETransport does with them).  *)
(***************************************************************************)
EXTENDS Integers, Sequences, FiniteSets

CONSTANTS
    MaxTag,          \* MAX_TAG (tags run from MIN_TAG = 1 to MAX_TAG - 1)
    Per,             \* m_nMaxSectorsPerTransfer
    Ops,             \* host commands: subset of {"read", "write", "flush"}
    SectorCounts,    \* sector counts of host reads and writes
    Lbas,            \* starting LBAs of host reads and writes
    Lba48Modes,      \* TRUE: the host builds a 48-bit command; FALSE: 28-bit
    ByteCountBits,   \* width of IOByteCount in the build
    Links,           \* the enabled interfaces of the service
    TargetLinks,     \* those the target is connected to
    Replies,         \* reply status/error registers a target may return
    TimeoutAfterDrop,\* the host's command timeout outlasts the drop age
    MaxCommands,     \* bound on host commands
    MaxSearches,     \* bound on aoe_search calls from the user thread
    MaxIdentifies    \* bound on identify_all_targets calls

MinTag == 1
NoRead == 0          \* the user thread is not inside next_tag
NoCmd == [op |-> "none", sectors |-> 0, id |-> 0, lba |-> 0, ext |-> TRUE]
BufLen == IF SectorCounts = {} THEN 0
          ELSE CHOOSE n \in SectorCounts : \A m \in SectorCounts : m <= n

VARIABLES
    curTag,      \* m_nCurrentTag
    userTag,     \* value of m_nCurrentTag read by the user thread's ++
    searches,    \* aoe_search calls made
    cmd,         \* _currentCommand
    cstate,      \* "none", "issuing" (inside asyncCommand) or "wait"
    plan,        \* the packets asyncCommand still issues: [cnt, inc, extra]
    tf,          \* the command's address registers (IOExtendedLBA or ataTaskFile)
    sent,        \* <<lba, cnt>> of the AoE headers issued for the command
    required,    \* m_nReadWriteRepliesRequired
    baseTag,     \* m_unReadBaseTag
    actual,      \* _currentCommand->getActualTransfer(), in sectors
    buf,         \* the host buffer: sector -> LBA offset + 1 written there
    prevStat, prevErr,   \* m_PreviousWriteStatus, m_PreviousWriteError
    lastStat, lastErr,   \* registers of m_pReceivedATAHeader
    net,         \* requests on the wire
    fakeFor,     \* command the armed FakeReturnTimer was set for (0: none)
    nCmds,       \* host commands so far
    errSeen,     \* a reply to the current command carried the error bit
    lost,        \* a request of the current command was dropped or purged
    lastDone,    \* outcome of the last completed command
    down,        \* links whose interface cg_disable_interface took down
    identTag,    \* m_nOutstandingIdentTag
    idents       \* identify_all_targets calls so far

vars == <<curTag, userTag, searches, cmd, cstate, plan, tf, sent, required,
          baseTag, actual, buf, prevStat, prevErr, lastStat, lastErr, net,
          fakeFor, nCmds, errSeen, lost, lastDone, down, identTag, idents>>

MIN(a, b) == IF a <= b THEN a ELSE b
MAX(a, b) == IF a >= b THEN a ELSE b

StatDRDY == 64        \* 0x40: what targets and the fake timer return
IsErr(stat) == stat % 2 = 1     \* stat & mATAError

(* next_tag: ++, clamp to [MIN_TAG, MAX_TAG], wrap MAX_TAG to MIN_TAG.    *)
NextTag(c) ==
    LET t == MIN(MAX(c + 1, MinTag), MaxTag)
    IN  IF t = MaxTag THEN MinTag ELSE t

(* getTransferChunkSize after asyncCommand, in sectors.                   *)
Chunk(c) == MIN(Per, c.sectors)

-----------------------------------------------------------------------------
(* Addresses.  A host read or write reaches asyncCommand with its address *)
(* in registers: an IOExtendedLBA for a 48-bit command, whose 16-bit      *)
(* registers hold the current byte and, above it, the previous ("HOB")    *)
(* byte, or an ataTaskFile for a 28-bit one, whose Sector, CylLo and      *)
(* CylHigh hold bits 0-23 and the low nibble of SDH bits 24-27.            *)

(* Byte k of a non-negative integer, taken a byte at a time so that no   *)
(* constant exceeds TLC's 32-bit integers.                                *)
RECURSIVE Byte(_, _)
Byte(x, k) == IF k = 0 THEN x % 256 ELSE Byte(x \div 256, k - 1)

(* The integer of the six bytes of b, lowest first (Horner's rule).      *)
Bytes6(b) == ((((b[6] * 256 + b[5]) * 256 + b[4]) * 256 + b[3]) * 256 + b[2]) * 256 + b[1]

Regs48(lba) == [low16  |-> Byte(lba, 3) * 256 + Byte(lba, 0),
                mid16  |-> Byte(lba, 4) * 256 + Byte(lba, 1),
                high16 |-> Byte(lba, 5) * 256 + Byte(lba, 2)]

Regs28(lba) == [sector |-> Byte(lba, 0), cylLo |-> Byte(lba, 1),
                cylHigh |-> Byte(lba, 2), sdh |-> 64 + (Byte(lba, 3) % 16)]

(* is_extended_command: mATAFlag48BitLBA, or a PIO extended opcode.       *)
IsExtendedCommand(c) == c.ext

HostRegs(c) == IF IsExtendedCommand(c) THEN Regs48(c.lba) ELSE Regs28(c.lba)

(* lba[0..5] of an IOExtendedLBA: the low byte of each register, then    *)
(* the high bytes, as issueCommand and increment_address take them apart. *)
Lba48(r) ==
    Bytes6(<<r.low16 % 256, r.mid16 % 256, r.high16 % 256,
             r.low16 \div 256, r.mid16 \div 256, r.high16 \div 256>>)

(* The lba[0..5] bytes issueCommand writes into the AoE header, as the    *)
(* target reads them: 48 bits with AOE_AFLAGS_E; without it lba[3] is the *)
(* device register, of which the target takes bits 24-27.                 *)
HeaderLba(c, r) ==
    IF IsExtendedCommand(c)
    THEN Lba48(r)
    ELSE ((r.sdh % 16) * 256 + r.cylHigh) * 2^16 + r.cylLo * 256 + r.sector

(* Mutant: the 48-bit increment written like the 24-bit one, adding to    *)
(* the low bytes only and carrying nothing into the HOB bytes.            *)
IncrementAddress48Low(r, n) ==
    LET add == ((r.high16 % 256) * 256 + (r.mid16 % 256)) * 256 + (r.low16 % 256) + n
    IN  [low16  |-> (r.low16 \div 256) * 256 + Byte(add, 0),
         mid16  |-> (r.mid16 \div 256) * 256 + Byte(add, 1),
         high16 |-> (r.high16 \div 256) * 256 + Byte(add, 2)]

(* increment_address of an IOExtendedLBA: gather the six bytes into a    *)
(* UInt64, add, and scatter the low six bytes back (a sum below 2^49      *)
(* never wraps the UInt64).                                               *)
IncrementAddress48(r, n) == Regs48(Lba48(r) + n)

(* increment_address of an ataTaskFile: a UInt32 of Sector, CylLo and    *)
(* CylHigh is incremented (below 2^25, it never wraps) and written back;  *)
(* nothing is carried into SDH.                                           *)
IncrementAddress28(r, n) ==
    LET add == (r.cylHigh * 256 + r.cylLo) * 256 + r.sector + n
    IN  [r EXCEPT !.sector = Byte(add, 0), !.cylLo = Byte(add, 1),
                  !.cylHigh = Byte(add, 2)]

IncrementAddress(c, r, n) ==
    IF IsExtendedCommand(c) THEN IncrementAddress48(r, n) ELSE IncrementAddress28(r, n)

(* The register m_nReadWriteRepliesRequired is computed from: the sector  *)
(* count (getSectorCount16) in the 48-bit branch, ataTFSector in the      *)
(* 28-bit one.                                                            *)
CountRegister(c) ==
    IF IsExtendedCommand(c) THEN c.sectors ELSE Regs28(c.lba).sector

(* Mutant: the reply count rounded up instead of down.                   *)
RepliesBeforeCeil(c) == MAX(1, (CountRegister(c) + Chunk(c) - 1) \div Chunk(c))

(* m_nReadWriteRepliesRequired as asyncCommand sets it before its loop.   *)
RepliesBefore(c) == MAX(1, CountRegister(c) \div Chunk(c))

(* The leftover test.  getByteCount() - required * chunk * 512 is taken   *)
(* in the unsigned IOByteCount of ByteCountBits bits, divided by 512 and  *)
(* stored in the int nNumSectorsPerTranser.  For a difference of x        *)
(* sectors (|x| < 2^22) the bytes are zero exactly when x is, and the int *)
(* is x, except that a negative x wraps to 2^(ByteCountBits - 9) + x when *)
(* that is below 2^31 (a 32-bit IOByteCount) and truncates back to x when *)
(* it is not (a 64-bit one, whose low 32 bits are those of x).            *)
LeftoverSectors(c) ==
    LET x == c.sectors - RepliesBefore(c) * Chunk(c)
    IN  IF x < 0 /\ ByteCountBits - 9 < 31 THEN 2^(ByteCountBits - 9) + x ELSE x

(* The packets asyncCommand issues for a read or write: getByteCount() /  *)
(* chunk whole ones, each with the count register set to the chunk       *)
(* (UInt16 setSectorCount16, or the UInt8 ataTFCount) and the address     *)
(* incremented after it, then, if the leftover test finds bytes left and  *)
(* a positive sector count, one more after ++required.                    *)
Plan(c) ==
    LET k     == Chunk(c)
        width == IF IsExtendedCommand(c) THEN 2^16 ELSE 2^8
        full  == [i \in 1 .. c.sectors \div k |->
                    [cnt |-> k % width, inc |-> k, extra |-> FALSE]]
        left  == LeftoverSectors(c)
    IN  IF left # 0 /\ left > 0
        THEN Append(full, [cnt |-> left % width, inc |-> left, extra |-> TRUE])
        ELSE full

(* Requests of the current command still on the wire, the fake included. *)
OwnPending == {r \in net : r.id = cmd.id}

(* What completeIO leaves behind, after the step's reply is consumed.    *)
Outcome(ok) ==
    [id |-> cmd.id, op |-> cmd.op, ok |-> ok, errSeen |-> errSeen,
     left |-> Cardinality({r \in net' : r.id = cmd.id})
                + (IF fakeFor' = cmd.id THEN 1 ELSE 0),
     lost |-> lost,
     dataOk |-> \A s \in 0 .. cmd.sectors - 1 : buf'[s] = s + 1]

(* completeIO: the command leaves the controller with the given result.  *)
Complete(ok) ==
    /\ lastDone' = Outcome(ok)
    /\ cmd' = NoCmd
    /\ cstate' = "none"

(* asyncCommand, up to its loop: the chunk, the reply count, the base    *)
(* tag and the write-error latch are reset; the loop is IssueCommand.     *)
AsyncCommand(op, n, lba, ext) ==
    LET c == [op |-> op, sectors |-> IF op = "flush" THEN 0 ELSE n,
              id |-> nCmds + 1, lba |-> lba, ext |-> ext]
    IN  /\ cstate = "none"
        /\ nCmds < MaxCommands
        /\ cmd' = c
        /\ cstate' = "issuing"
        /\ tf' = HostRegs(c)
        /\ sent' = <<>>
        /\ plan' = IF op = "flush" THEN <<[cnt |-> 0, inc |-> 0, extra |-> FALSE]>>
                   ELSE Plan(c)
        /\ required' = IF op = "flush" THEN required ELSE RepliesBefore(c)
        /\ baseTag' = 0
        /\ prevStat' = IF op = "write" THEN 0 ELSE prevStat
        /\ prevErr' = IF op = "write" THEN 0 ELSE prevErr
        /\ actual' = 0
        /\ buf' = [s \in DOMAIN buf |-> 0]
        /\ nCmds' = nCmds + 1
        /\ errSeen' = FALSE
        /\ lost' = FALSE
        /\ UNCHANGED <<identTag, idents, down, curTag, userTag, searches, lastStat, lastErr, net,
                       fakeFor, lastDone>>

(* send_ata_packet: SET FEATURES, SLEEP and FLUSH CACHE are answered by  *)
(* arming the zero-delay FakeReturnTimer for the sender; anything else    *)
(* goes to send_packet, which picks an active link of the target (and     *)
(* spins, taking no step, when it has none).                              *)
SendAtaPacket(c, tag, first, cnt) ==
    IF c.op = "flush"
    THEN /\ fakeFor' = c.id
         /\ UNCHANGED net
    ELSE /\ \E l \in TargetLinks \ down :
              net' = net \cup {[tag |-> tag, id |-> c.id, link |-> l,
                               first |-> first, cnt |-> cnt]}
         /\ UNCHANGED fakeFor

(* Mutant: the data is taken at the command's position only, without the *)
(* bytes already attached.                                                *)
AppendWriteDataAtPosition(c, a) ==
    IF c.sectors - a < 1 THEN [off |-> a, len |-> 0]
    ELSE [off |-> 0, len |-> MIN(c.sectors - a, Chunk(c))]

(* append_write_data: with nothing remaining no data is attached;        *)
(* otherwise the data starts at position + ActualTransfer and runs for    *)
(* the remaining bytes, cut to the chunk size.  The double buffer holds   *)
(* m_nMaxTransferSize bytes, at least a chunk, so its inner loop runs     *)
(* once; the host's ATA commands have position 0.  In sectors.            *)
AppendWriteData(c, a) ==
    IF c.sectors - a < 1 THEN [off |-> a, len |-> 0]
    ELSE [off |-> a, len |-> MIN(c.sectors - a, Chunk(c))]

(* One issueCommand of the asyncCommand loop, with the loop's            *)
(* ++required before the leftover packet and increment_address after     *)
(* each packet: take a tag, remember the first as the base tag, write the *)
(* address and the low byte of the count register into the AoE header,   *)
(* and hand the packet to send_ata_packet, which fakes FLUSH with the     *)
(* timer.  send_packet sends the others on an active link of the target;  *)
(* with none active its do-while loop spins and the model takes no step.  *)
(* After the last packet asyncCommand returns and waits for replies.      *)
IssueCommand ==
    LET tag == NextTag(curTag)
        pkt == Head(plan)
        data == IF cmd.op = "write" THEN AppendWriteData(cmd, actual)
                ELSE [off |-> 0, len |-> 0]
        hdr == [lba |-> HeaderLba(cmd, tf), cnt |-> pkt.cnt % 256, data |-> data]
    IN  /\ cstate = "issuing"
        /\ curTag' = tag
        /\ baseTag' = IF baseTag = 0 THEN tag ELSE baseTag
        /\ required' = IF pkt.extra THEN required + 1 ELSE required
        /\ sent' = Append(sent, hdr)
        /\ tf' = IF cmd.op = "flush" THEN tf ELSE IncrementAddress(cmd, tf, pkt.inc)
        /\ SendAtaPacket(cmd, tag, hdr.lba - cmd.lba, hdr.cnt)
        /\ plan' = Tail(plan)
        /\ cstate' = IF Tail(plan) = <<>> THEN "wait" ELSE "issuing"
        /\ actual' = actual + data.len
        /\ UNCHANGED <<identTag, idents, down, userTag, searches, cmd, buf, prevStat, prevErr,
                       lastStat, lastErr, nCmds, errSeen, lost, lastDone>>

(* asyncStatus and completeIO: the result is a device error if the last  *)
(* reply or the latched write status carries the error bit.              *)
AsyncStatus(stat) ==
    /\ Complete(~IsErr(stat) /\ ~(IsErr(prevStat) /\ prevErr # 0))
    /\ prevStat' = 0
    /\ prevErr' = 0

(* completeDataRead: copy the reply's data to (tag - base) * chunk,       *)
(* clamped to the packet, the transfer and the buffer; a tag below the    *)
(* base wraps the UInt32 difference past the end of the buffer.           *)
CompleteDataRead(tag, first, size, stat, req) ==
    LET rem   == cmd.sectors - actual
        pos   == IF tag >= baseTag THEN (tag - baseTag) * Chunk(cmd) ELSE BufLen
        bytes == MIN(MIN(Per, size), rem)
    IN  IF rem < 1
        THEN UNCHANGED <<actual, buf>> /\ AsyncStatus(stat)
        ELSE /\ actual' = actual + bytes
             /\ buf' = [s \in DOMAIN buf |->
                          IF pos <= s /\ s < pos + bytes /\ s < cmd.sectors
                          THEN first + (s - pos) + 1 ELSE buf[s]]
             /\ IF req # 0
                THEN UNCHANGED <<cmd, cstate, lastDone, prevStat, prevErr>>
                ELSE AsyncStatus(stat)

(* Mutant: the faked FLUSH reply is counted like a read or write reply.  *)
AtaResponseFlushCounts(tag, id, first, size, stat, err) ==
    /\ lastStat' = stat
    /\ lastErr' = err
    /\ errSeen' = (errSeen \/ (id = cmd.id /\ IsErr(stat)))
    /\ identTag' = IF cstate = "none" /\ tag = identTag THEN 0 ELSE identTag
    /\ CASE cstate = "none" ->
              UNCHANGED <<cmd, cstate, required, actual, buf, prevStat,
                          prevErr, lastDone>>
         [] cmd.op = "write" ->
              /\ required' = required - 1
              /\ UNCHANGED <<actual, buf>>
              /\ IF required - 1 # 0
                 THEN /\ IF prevStat # 0 \/ prevErr # 0
                            THEN UNCHANGED <<prevStat, prevErr>>
                            ELSE /\ prevStat' = stat
                                 /\ prevErr' = IF IsErr(stat) THEN err ELSE prevErr
                      /\ UNCHANGED <<cmd, cstate, lastDone>>
                 ELSE AsyncStatus(stat)
         [] cmd.op = "read" ->
              /\ required' = required - 1
              /\ CompleteDataRead(tag, first, size, stat, required - 1)
         [] OTHER ->
              /\ required' = required - 1
              /\ UNCHANGED <<actual, buf>>
              /\ AsyncStatus(stat)

(* ata_response for a reply with the given tag and registers; when it    *)
(* decides an interrupt is due, handleDeviceInterrupt runs asyncStatus.   *)
AtaResponse(tag, id, first, size, stat, err) ==
    /\ lastStat' = stat
    /\ lastErr' = err
    /\ errSeen' = (errSeen \/ (id = cmd.id /\ IsErr(stat)))
    /\ identTag' = IF cstate = "none" /\ tag = identTag THEN 0 ELSE identTag
    /\ CASE cstate = "none" ->
              UNCHANGED <<cmd, cstate, required, actual, buf, prevStat,
                          prevErr, lastDone>>
         [] cmd.op = "write" ->
              /\ required' = required - 1
              /\ UNCHANGED <<actual, buf>>
              /\ IF required - 1 # 0
                 THEN /\ IF prevStat # 0 \/ prevErr # 0
                            THEN UNCHANGED <<prevStat, prevErr>>
                            ELSE /\ prevStat' = stat
                                 /\ prevErr' = IF IsErr(stat) THEN err ELSE prevErr
                      /\ UNCHANGED <<cmd, cstate, lastDone>>
                 ELSE AsyncStatus(stat)
         [] cmd.op = "read" ->
              /\ required' = required - 1
              /\ CompleteDataRead(tag, first, size, stat, required - 1)
         [] OTHER ->
              /\ UNCHANGED <<required, actual, buf>>
              /\ AsyncStatus(stat)

(* cg_aoe_incoming matched request r and passes the reply to the target. *)
Reply(r, rep) ==
    /\ cstate # "issuing"
    /\ net' = net \ {r}
    /\ UNCHANGED <<idents, down, curTag, userTag, searches, plan, tf, sent, baseTag,
                   fakeFor, nCmds, lost>>
    /\ AtaResponse(r.tag, r.id, r.first,
                   IF IsErr(rep.stat) THEN 0 ELSE r.cnt, rep.stat, rep.err)

(* FakeReturnTimer: a DRDY status with tag 0 and no data.                 *)
FakeReturnTimer ==
    /\ fakeFor # 0
    /\ cstate # "issuing"
    /\ fakeFor' = 0
    /\ UNCHANGED <<idents, down, curTag, userTag, searches, plan, tf, sent, baseTag, net,
                   nCmds, lost>>
    /\ AtaResponse(0, 0, 0, 0, StatDRDY, 0)

Init ==
    /\ curTag = MinTag
    /\ userTag = NoRead
    /\ searches = 0
    /\ cmd = NoCmd
    /\ cstate = "none"
    /\ plan = <<>>
    /\ tf = [low16 |-> 0, mid16 |-> 0, high16 |-> 0]
    /\ sent = <<>>
    /\ required = 0
    /\ baseTag = 0
    /\ actual = 0
    /\ buf = [s \in 0 .. BufLen - 1 |-> 0]
    /\ prevStat = 0
    /\ prevErr = 0
    /\ lastStat = 0
    /\ lastErr = 0
    /\ net = {}
    /\ fakeFor = 0
    /\ nCmds = 0
    /\ errSeen = FALSE
    /\ lost = FALSE
    /\ down = {}
    /\ identTag = 0
    /\ idents = 0
    /\ lastDone = [id |-> 0, op |-> "none", ok |-> TRUE, errSeen |-> FALSE,
                   left |-> 0, lost |-> FALSE, dataOk |-> TRUE]

(* The transport gives up on request r (MAX_TIMEOUT_BEFORE_DROP_US)      *)
(* without telling the controller.                                       *)
Drop(r) ==
    /\ cstate # "issuing"
    /\ net' = net \ {r}
    /\ lost' = (lost \/ r.id = cmd.id)
    /\ UNCHANGED <<identTag, idents, down, curTag, userTag, searches, cmd, cstate, plan, tf, sent,
                   required, baseTag, actual, buf, prevStat, prevErr, lastStat,
                   lastErr, fakeFor, nCmds, errSeen, lastDone>>

(* connected_to_interface: l is one of the target's interfaces.          *)
ConnectedToInterface(l) == l \in TargetLinks

(* cancel_command(FALSE): completeIO with kATADeviceError for the command *)
(* in progress (completeIO does nothing without one).                     *)
CancelCommand ==
    IF cstate = "wait" THEN Complete(FALSE) ELSE UNCHANGED <<cmd, cstate, lastDone>>

(* cancel_commands_on_interface: cancel_command(FALSE) on the first       *)
(* controller connected to l (with one target: on ours, if it is).        *)
CancelCommandsOnInterface(l) ==
    IF ConnectedToInterface(l) THEN CancelCommand
    ELSE UNCHANGED <<cmd, cstate, lastDone>>

(* cg_disable_interface purges the requests sent on link l and calls      *)
(* cancel_commands_on_interface.                                          *)
CgDisableInterface(l) ==
    LET purged == {r \in net : r.link = l}
    IN  /\ cstate # "issuing"
        /\ down' = down \cup {l}
        /\ net' = net \ purged
        /\ UNCHANGED <<identTag, idents, curTag, userTag, searches, plan, tf, sent, required,
                       baseTag, actual, buf, prevStat, prevErr, lastStat,
                       lastErr, fakeFor, nCmds, errSeen>>
        /\ CancelCommandsOnInterface(l)
        /\ lost' = (lost \/ (ConnectedToInterface(l) /\ cstate = "wait")
                         \/ \E r \in purged : r.id = cmd.id)

(* The host's command timer (IOATAController::handleTimeout) completes    *)
(* the command with a timeout error; with TimeoutAfterDrop it only fires  *)
(* once the transport holds none of the command's requests.               *)
HostTimeout ==
    /\ cstate = "wait"
    /\ TimeoutAfterDrop => OwnPending = {} /\ fakeFor # cmd.id
    /\ UNCHANGED <<identTag, idents, down, curTag, userTag, searches, plan, tf, sent, required, baseTag,
                   actual, buf, prevStat, prevErr, lastStat, lastErr, net,
                   fakeFor, nCmds, errSeen, lost>>
    /\ Complete(FALSE)

(* cg_enable_interface: the interface is used again and reenable_controllers *)
(* marks the targets online; a command in progress is not touched.          *)
CgEnableInterface(l) ==
    /\ l \in down
    /\ cstate # "issuing"
    /\ down' = down \ {l}
    /\ UNCHANGED <<identTag, idents, curTag, userTag, searches, cmd, cstate, plan, tf, sent,
                   required, baseTag, actual, buf, prevStat, prevErr, lastStat,
                   lastErr, net, fakeFor, nCmds, errSeen, lost, lastDone>>

(* aoe_search on the user thread: its next_tag reads m_nCurrentTag ...     *)
SearchReadTag ==
    /\ userTag = NoRead
    /\ searches < MaxSearches
    /\ userTag' = curTag
    /\ UNCHANGED <<identTag, idents, down, curTag, searches, cmd, cstate, plan, tf, sent, required,
                   baseTag, actual, buf, prevStat, prevErr, lastStat, lastErr,
                   net, fakeFor, nCmds, errSeen, lost, lastDone>>

(* ... and writes back its successor, whatever the work loop did between. *)
SearchWriteTag ==
    /\ userTag # NoRead
    /\ curTag' = NextTag(userTag)
    /\ userTag' = NoRead
    /\ searches' = searches + 1
    /\ UNCHANGED <<identTag, idents, down, cmd, cstate, plan, tf, sent, required, baseTag, actual, buf,
                   prevStat, prevErr, lastStat, lastErr, net, fakeFor,
                   nCmds, errSeen, lost, lastDone>>

(* identify_all_targets (from StateUpdateTimer's aoe_search_all, or the   *)
(* user thread's find_targets) calls send_identify: a fresh tag, an       *)
(* IDENTIFY packet (id 0, one sector of data back) handed to              *)
(* send_ata_packet, and m_nOutstandingIdentTag set to the tag once it is  *)
(* sent.  It does not look at the command in progress.                    *)
SendIdentify ==
    LET tag == NextTag(curTag)
    IN  /\ idents < MaxIdentifies
        /\ idents' = idents + 1
        /\ curTag' = tag
        /\ identTag' = tag
        /\ SendAtaPacket([op |-> "identify", id |-> 0], tag, 0, 1)
        /\ UNCHANGED <<down, userTag, searches, cmd, cstate, plan, tf, sent, required,
                       baseTag, actual, buf, prevStat, prevErr, lastStat, lastErr,
                       nCmds, errSeen, lost, lastDone>>

Next ==
    \/ \E n \in SectorCounts, op \in Ops \ {"flush"}, a \in Lbas, e \in Lba48Modes :
          AsyncCommand(op, n, a, e)
    \/ "flush" \in Ops /\ \E e \in Lba48Modes : AsyncCommand("flush", 0, 0, e)
    \/ IssueCommand
    \/ \E r \in net, rep \in Replies : Reply(r, rep)
    \/ FakeReturnTimer
    \/ \E r \in net : Drop(r)
    \/ \E l \in Links : CgDisableInterface(l)
    \/ \E l \in down : CgEnableInterface(l)
    \/ HostTimeout
    \/ SearchReadTag
    \/ SearchWriteTag
    \/ SendIdentify

Spec == Init /\ [][Next]_vars

-----------------------------------------------------------------------------
TypeOK ==
    /\ curTag \in MinTag .. MaxTag - 1
    /\ cstate \in {"none", "issuing", "wait"}
    /\ required \in 0 .. BufLen
    /\ actual \in 0 .. BufLen
    /\ fakeFor \in 0 .. MaxCommands
    /\ buf \in [0 .. BufLen - 1 -> 0 .. BufLen]
    /\ sent \in Seq([lba : Nat, cnt : 0 .. 255, data : [off : 0 .. BufLen, len : 0 .. Per]])
    /\ net \subseteq [tag : MinTag .. MaxTag - 1, id : 0 .. MaxCommands,
                      link : Links, first : 0 .. BufLen, cnt : 0 .. Per]
    /\ identTag \in 0 .. MaxTag - 1

(* A read that completes without error has every sector of the transfer  *)
(* in its place in the host buffer, whatever order the replies came in:   *)
(* completeDataRead's (tag - m_unReadBaseTag) * chunk offsets and the     *)
(* reply count of asyncCommand agree with the tags issueCommand took.     *)
ReadDataPlaced == lastDone.op = "read" /\ lastDone.ok => lastDone.dataOk

(* m_nReadWriteRepliesRequired counts exactly the replies to the packets *)
(* asyncCommand issued: a read or write that completes without error has  *)
(* no request of its own left on the wire, i.e. no reply it did not ask   *)
(* for (a stale one of an earlier command) was counted in its place.      *)
RepliesMatchIssued ==
    lastDone.ok /\ lastDone.op \in {"read", "write"} => lastDone.left = 0

(* No command is stranded: a command waiting for replies, none of whose   *)
(* requests was dropped or purged, still has a request or the fake on     *)
(* its way, so ata_response will see m_nReadWriteRepliesRequired reach 0. *)
CommandNotStranded ==
    cstate = "wait" /\ ~lost => OwnPending # {} \/ fakeFor = cmd.id

(* A read or write a reply of which carried the ATA error bit completes  *)
(* with a device error (the write-error latch of ata_response and         *)
(* asyncStatus).                                                          *)
ErrorReported == lastDone.errSeen => ~lastDone.ok
(* The AoE headers of a command's packets cut its extent in order: the   *)
(* first starts at the command's LBA, each next one where the previous   *)
(* one ended, every count is positive and the last ends at the extent's  *)
(* end; a write packet carries the data of exactly the sectors its header *)
(* names.                                                                 *)
Tiles(c, s) ==
    /\ s # <<>>
    /\ s[1].lba = c.lba
    /\ \A i \in 1 .. Len(s) - 1 : s[i + 1].lba = s[i].lba + s[i].cnt
    /\ \A i \in 1 .. Len(s) : s[i].cnt > 0
    /\ s[Len(s)].lba + s[Len(s)].cnt = c.lba + c.sectors
    /\ c.op = "write" =>
          \A i \in 1 .. Len(s) : s[i].data = [off |-> s[i].lba - c.lba, len |-> s[i].cnt]

(* When asyncCommand's loops end, the packets it issued for a read or     *)
(* write cover exactly the sectors the host asked for (the spec: ceil(n / *)
(* max) packets at increasing LBAs), and m_nReadWriteRepliesRequired is   *)
(* their number: the reply count, the leftover test, increment_address   *)
(* and append_write_data agree.                                           *)
PacketsCoverCommand ==
    [][cstate = "issuing" /\ cstate' = "wait" /\ cmd.op # "flush"
         => Tiles(cmd, sent') /\ required' = Len(sent')]_vars
=============================================================================
