# TLA+ models of the AoE initiator driver

These modules model the AoE (ATA over Ethernet) initiator kernel extension
under `src/AoE`. They cover the transport engine, its RTO estimator, the
command translator that turns one host ATA command into AoE packets and their
replies back into one completion, and the target registry that discovers,
claims and ages out targets. TLC checks them.

## The system and how its parts interact

| Part | Source | State | Operations |
|---|---|---|---|
| TransportEngine | `AoEService.cpp` | `m_sent_queue`, `m_to_send_queue`, transmit / retransmit / idle timers, `m_nRTO_ns` | `send_packet_on_interface`, `TransmitTimer` + `send_packet_from_queue`, `cg_aoe_incoming`, `RetransmitTimer` + `resend_packet`, `IdleTimer`, `cg_disable_interface`, `disable_interface`, `cg_enable_interface` |
| Link state | `EInterfaces.cpp`, `EInterface.cpp` | per link: enabled, cwnd + fraction, ssthresh, outstanding counter, per-shelf buffer count, last send time; `m_nInterfacesInUse` | `grow_cwnd`, `set_cwnd`, `set_ssthresh`, `all_full`, `set_max_outstanding`, `reset_if_idle`, `enable_interface`, `interface_disconnected`, `interface_reconnected` |
| RTO estimator | `AoEService.cpp` `update_rto` | scaled RTT average and variance | `update_rto`, `get_rto_us` |
| TargetRegistry | `AoEControllerInterface.cpp`, target parts of `AoEController.cpp` | the controller array, target numbers, interface lists and round-robin cursor, config strings, registration, tag counter | `aoe_config_receive`, `get_next_target_number`, `remove_target`, `check_down_targets` / `StateUpdateTimer`, `identify_all_targets`, `set_targets_cstring`, `aoe_search`, `send_packet`, `cancel_commands_on_interface` |
| CommandTranslator | `AoEController.cpp` | per-command state: reply count, address registers, write error, buffers | issue, split, address increment, reply handling, completion |
| Packet filter | `AoEtherFilter.c` | attached filters | frame capture; `KEV_DL_LINK_OFF/ON` events |
| Control socket | `AoEUserInterface.c` | preferences | enabling and disabling ports, target queries |

Concurrency works as follows:
- The transmit, retransmit and idle timers, the command gate and the controller timers are all event sources of one `IOWorkLoop`. Their handlers therefore run one at a time.
- Each such handler is one atomic step of the model.
- Work also arrives from outside the work loop:
  - the user thread of the control socket (`find_targets` → `aoe_search`);
  - the filter's event thread (link on).

Requests reach the engine from the command translator (`send_packet`) and from discovery (`aoe_search`). Replies reach it through `cg_aoe_incoming`. The engine passes config replies to the registry and ATA replies to the translator.

## Module `AoETransport`

The module models the engine and the link state. Its variables mirror the code:
- `sentQueue` and `toSendQueue` are sequences of records with the fields of `SentPktQueue` and `ToSendPktQueue`. The mbufs are left out.
- Timestamps are ages in ticks. `Unsent` stands for the code's 0.
- `retransmitTimer` and `idleTimer` count down the ticks until the timer fires. `Off` means the timer is disabled. `transmitTimer` is always armed with delay 0.
- `wire` holds the <<tag, link>> pairs sent so far. A reply to any of them may arrive at any time, any number of times, or never.
- `filtered` says whether a port's packet filter is attached, and `carrier` whether its link is up (the last `KEV_DL_LINK_*` event).
- `prefs` is the port list of `g_PreferenceData`, and `calls` the `c_enable_interface` and `c_disable_interface` calls of the current preference setting not yet made.

The actions, and the code each one stands for:
- `IssueRequest` is `send_packet`, and `Search` is `aoe_search`. Both call `SendPacketOnInterface`, which is `send_packet_on_interface` followed by `add_to_send_queue`.
- `TransmitTimer` first sends every send-immediately entry. It then scans the rest of the queue with the window and `all_full` logic and sends at most one entry. Each send goes through `SendFromQueue`, which is `send_packet_from_queue`.
- `Receive` is `cg_aoe_incoming`. It matches the tag, gives back the counter (`ReplyCredit`: no decrement for a retransmitted entry, and a negative count clamped to 0 either way), feeds the RTO, grows cwnd, returns early on an AoE error, passes config replies to `set_max_outstanding`, and re-arms the transmit timer. `set_max_outstanding` looks the link up by `m_ifnet`, which `interface_disconnected` zeroes, so it leaves a disabled link alone. The AoE-error return skips the re-arm: a request queued behind the full window waits for the next `add_to_send_queue`. At the latest that is `StateUpdateTimer`'s `aoe_search_all`, 60 s later. The transport model has no `StateUpdateTimer`, so this stall is a hazard and not a run.
- `RetransmitTimer` decides drop, resend or keep for each entry (`Verdict`). It gives back counters, cuts the window of the first resent entry's link, doubles the timeout (`ResendPacket`) and re-arms.
- `IdleTimer` is `reset_if_idle`.
- Timers are armed through `EnableRetransmitTimer` and `EnableIdleTimer` (`enable_retransmit_timer`, `enable_idle_timer`). `TRIGGER_RETRANSMIT_WHEN_TX_COMPLETE` is defined, so every call restarts the retransmit timer at `get_rto_us`. It is not left running. While other requests keep going out, this restart postpones the resend and the drop of a lost request. The runs bound the number of sends, so they check only that a lost request is resolved once the sends stop.
- `SetPreferences` is the `AOEINTERFACE_PREFERENCES` case of `aoeinterface_set`. It clamps the list to six ports and queues the calls its two loops make (`PrefCalls`): an enable for each new port, then a disable for each dropped one.
- The calls are made one at a time, and the work loop and link events interleave with them. `EnableInterface` is `cg_enable_interface`: it attaches the filter and resets the link. `DisableInterface` is `interface_disconnected` through the command gate. `DetachFilter` is the `disable_filtering` that follows it outside the gate.
- `LinkOff` and `Reconnect` are `KEV_DL_LINK_OFF` and `KEV_DL_LINK_ON`. They reach the driver only while the port's filter is attached. Frames are also received only then: `Receive` needs an attached filter and a live carrier.
- `Tick` lets time pass. It is enabled only when no timer is due.

The RTO estimate after a reply is a choice from `RtoValues`. The estimator itself is modelled separately, in `RTOEstimator`.

A tag is taken only when no queue entry carries it. This leaves out both wrap-around and the unsynchronized `next_tag`, and the hazards list records both.

`MC_AoETransport` gives the time constants in ticks. One tick stands for 1 ms:
- RTO floor 1, initial RTO 2, retransmit cap 2;
- idle delay 6, drop limit 7.

The ordering `RtoMin <= cap < idle < drop` is the ordering of `RTO_MIN_NS`, `MAX_RETRANSMIT_TIMEOUT_US`, `IDLE_DELAY_US` and `MAX_TIMEOUT_BEFORE_DROP_US`. The idle delay is three times the cap. As a result, a request in flight is always retransmitted before its link counts as idle, even when a send or a preference change has restarted the retransmit timer. In the code the ratio is 1000.

Three bounds keep the state space finite:
- `MaxCwnd`: no reply is taken once a link's cwnd reaches it;
- `MaxPrefChanges`: the number of preference settings, each taken from the run's `PrefLists`;
- `MaxSearches`: the number of discovery broadcasts.

### Fairness

The transmit, retransmit and idle timers are weakly fair, because the work loop runs every armed source once it is due. `Tick` is strongly fair, because time passes whenever the work loop keeps becoming idle. Replies, requests, link events and new preference settings have no fairness. Once a setting has been made, its remaining calls are weakly fair (`PrefCall`): the client's thread keeps making them, and each waits only for the command gate. Lost replies are therefore part of every behaviour that is checked.

## Module `RTOEstimator`

This module models `update_rto` (`AoEService.cpp` 1055-1073) and `get_rto_us` (1082-1085). `UpdateRto(r)` performs the same conversions as the code:
- `nRTT - m_nScaledRTTavg` is computed in `uint64_t` and narrowed to `int` (`ToInt(ToU(...))`);
- the average and the variance are `int` additions, and the compiler's two's-complement wrap stands for the undefined signed overflow;
- `>>` is the arithmetic shift, written `\div 2^k`;
- `m_nScaledRTTvar<<2` is an `int`;
- the sum is sign-extended into the `UInt64` field `m_nRTO_ns`.

`GetRtoUs` applies the `RTO_MIN_NS` floor and `CONVERT_NS_TO_US`, whose `+500` is evaluated in `UInt64`.

`Sample(r)` is the call at line 716: one sample per reply to a request that was never retransmitted. Next to these variables the module keeps `RefUpdate`, the specification's estimator in unbounded integers, fed with the same samples.

**Widths.** TLC integers are 32-bit, so `MC_RTOEstimator` scales the types. An `int` has 12 bits, the unsigned type has 16 bits, and 8 scaled ns make one µs. The scaled `RTO_MIN_NS` is 16 and the scaled `RTO_MAX_NS` is 160.

**The bound.** `SafeSample = (2^(IntBits-1)-1) div 5` is the largest sample for which no overflow can happen. The average never leaves the range of the samples, and the variance never exceeds the largest error, so the sum `avg + 4*var` is at most 5 times the largest sample. The argument does not depend on the width. For the real 32-bit `int`, the bound is about 429 ms.

## Module `AoECommand`

This module models one target's controller (`AoEController.cpp`) and the parts of `AoEControllerInterface.cpp` it uses. It follows one host command at a time, as the ATA family hands them over. Its state mirrors the code:
- `cmd` is `_currentCommand`; `cstate` is `"issuing"` while `asyncCommand` runs its `issueCommand` loop, `"wait"` while replies are due, and `"none"` when no command is in progress;
- `required`, `baseTag`, `actual` and `buf` are `m_nReadWriteRepliesRequired`, `m_unReadBaseTag`, the actual transfer count and the host buffer (sector `s` should receive `s + 1`);
- `prevStat` and `prevErr` are the write-error latch `m_PreviousWriteStatus` and `m_PreviousWriteError`;
- `curTag` is `m_nCurrentTag`; `userTag` is the value the user thread's `next_tag` has read but not yet written back;
- `net` holds the requests the transport still carries, with their tag, link and sectors;
- `fakeFor` is the armed `FakeReturnTimer` (`m_pControllerToFakeResponse`), recorded with the command that armed it;
- `down` is the set of links `cg_disable_interface` took down;
- `tf` is the command's address registers (the `IOExtendedLBA`'s `low16`, `mid16`, `high16`, or the task file's `Sector`, `CylLo`, `CylHigh`, `SDH`), which `increment_address` advances after each packet;
- `plan` is the packets `asyncCommand`'s loop still has to issue, each with its count register, address increment and whether it is the leftover; `sent` is the `[lba, cnt]` headers issued so far for the command.

The actions, and the code each one stands for:
- `AsyncCommand` is `asyncCommand` up to its loop. It sets the chunk (`Chunk`), the base tag, the address registers (`HostRegs`), the reply count `RepliesBefore` and, for writes, resets the latch. `IsExtendedCommand` (`is_extended_command`) picks the branch. `CountRegister` is what the reply count is computed from: the sector count in the 48-bit branch, `ataTFSector` (the LBA-low register) in the 28-bit one. `Plan` is the loop: `sectors / chunk` full packets, then the leftover test, whose unsigned `IOByteCount` arithmetic is `LeftoverSectors` (a closed form, derived in its comment, valid for a 32- or 64-bit `ByteCountBits`).
- `IncrementAddress48` and `IncrementAddress28` are the two `increment_address` routines: the first gathers the six interleaved bytes (`Lba48`), adds and scatters them back; the second adds in 24 bits and carries nothing into `SDH`. `HeaderLba` is the LBA the target reads from the header `issueCommand` builds.
- `IssueCommand` is one `issueCommand`: `next_tag`, the base tag, `++required` for the leftover, and `send_ata_packet`; it records the header and increments the address. For a write, `AppendWriteData` (`append_write_data`) attaches the data from `ActualTransfer` on, at most a chunk, and advances `actual`; each entry of `sent` records that offset and length. Sending is `SendAtaPacket` (`send_ata_packet`). A FLUSH is faked by arming the timer. Any other packet goes out on an active link of the target. With no active link, `send_packet`'s loop spins, and the model takes no step.
- `Reply` is `aoe_ata_receive` passing a matched reply to `AtaResponse` (`ata_response`). `AtaResponse` does not check the tag. It counts write replies and latches the first non-final one. It counts read replies and copies their data with `CompleteDataRead` (`completeDataRead`, at `(tag - base) * chunk`). It completes through `AsyncStatus` (`asyncStatus` and `completeIO`).
- `FakeReturnTimer` delivers the faked DRDY status, with tag 0.
- `Drop` is the transport's silent drop after `MAX_TIMEOUT_BEFORE_DROP_US`.
- `CgDisableInterface` purges the link's requests and cancels the command through `CancelCommandsOnInterface` (`cancel_commands_on_interface`, which asks `connected_to_interface`) and `CancelCommand` (`cancel_command(FALSE)`, a no-op with no command waiting). `CgEnableInterface` brings the link back.
- `HostTimeout` is the ATA family's command timeout. `TimeoutAfterDrop` says whether it can fire only after the transport dropped every request. Host timeouts are about 30 s and the drop age is 60 s, so the realistic value is `FALSE`.
- `SearchReadTag` and `SearchWriteTag` are the read and the write-back of `++m_nCurrentTag` in `next_tag`, called by `aoe_search` on the user thread. They do not hold the work-loop gate, so they interleave with `issueCommand`.
- `SendIdentify` is `send_identify`, called for every target by `identify_all_targets` from `aoe_search_all` (every `StateUpdateTimer`, and `find_targets` on the user thread). It takes a tag, sends an IDENTIFY (a request with command id 0) and sets `identTag` (`m_nOutstandingIdentTag`). It does not look at the command in progress. `AtaResponse` clears `identTag` only when no command is current and the tag matches, as the code does; with a command current it dispatches on the command's opcode, so an IDENTIFY reply counts as a read or write reply. `MaxIdentifies` bounds the calls.

Every other action holds the work-loop gate. None of them runs while `cstate = "issuing"`.

`MC_AoECommand` fixes the packet size at 2 sectors, so a 3-sector transfer is one full packet and a leftover. `MC_LbaCarry` starts transfers at LBA 2^24 - 1, so their second packet carries from the third address byte into the fourth (stored in the high byte of `low16`). TLC's integers are 32-bit, so the byte arithmetic is written with `\div 256` and Horner's rule and every LBA stays below 2^31; `ByteCountBits` is 64, as on a 64-bit kernel. `MAX_TAG` is 16, which the bounded runs cannot wrap. Reply registers are DRDY (`0x40`), or DRDY|ERR (`0x41`) with ABRT.

## Module `AoETargets`

This module models the registry: `AoEControllerInterface`'s `OSArray` of controllers and the target data each controller keeps (`AoEController.cpp`). Its state mirrors the code:
- `ctrls` is `m_pControllers`, as the sequence of the targets' shelf.slot addresses in array order. Iteration, "first aged" and "first with this number" follow that order.
- `num`, `ifs` and `last` are `nTargetNumber`, `aInterfaces[0..nNumberOfInterfaces-1]` and `nLastSentInterface`.
- `age` counts ticks since `m_time_since_last_comm`. A target has aged when `age >= Offline` (`m_TimeUntilTargetOffline_us`).
- `cstr` is the byte array `m_aConfigString`, and `reg` is `m_fRegistered`.
- `active` is the set of interfaces `AoEInterfaces` has enabled.
- The environment is three variables:
  - `tstr`: the config string bytes each target stores;
  - `up`: the targets that answer;
  - `synced`: whether a config reply came back after `tstr` last changed.
- `hung` records that `send_packet` spins.

Strings are byte sequences: `0` is NUL and `1`, `2` are characters. `CopyCString` is `handle_aoe_cmd`'s copy of `cslen` bytes, with no terminator. `CStr` reads up to the first NUL, as `strncmp` does.

The actions, and the code each one stands for:
- `ConfigReply(s, l)` is `aoe_config_receive`:
  - For a known target it copies the string, then records the interface and the time (`update_target_info`, `KnownInterfaces`). It removes the target if it is registered and the string is no longer ours (`LostOwnership`).
  - For an unknown target it appends a controller numbered `get_next_target_number` (`NextNumber`). The controller is registered if the string is ours.
- `StateUpdateTimer` runs three things in one handler:
  - `check_down_targets`, which removes the first aged controller and breaks;
  - the broadcast of `aoe_search_all`, which can fail and skip the rest;
  - `identify_all_targets`, which sends IDENTIFY to every controller in array order.

  `send_packet`'s round-robin is `RoundRobin`. A controller with interfaces of which none is enabled makes the loop spin (`SendSpins`, `IdentifyStops`), and the action sets `hung`.
- `SetTargetsCString(n, str)` is `cg_set_targets_cstring`:
  - `set_config_string` stores `str` and a NUL;
  - it sends `CONFIG_STR_FORCE_SET`, which a target that is up may or may not store;
  - it removes a registered target whose new string is not ours, and registers an unregistered one whose new string is ours.
- `LinkDisable` and `LinkEnable` are `cg_disable_interface` and `cg_enable_interface`. Targets keep a disabled interface in their lists.
- The environment actions are `Tick` (time passes), `ForeignSetCString` (another initiator writes a target's string), `TargetDown` and `TargetUp`.

Once `hung` is set, the work loop is stuck and no action is enabled.

Fairness is `WF(Tick) /\ WF(StateUpdateTimer)`. Time passes, and `StateUpdateTimer` re-arms itself with `setTimeoutMS` at the end of every firing. `start_lun_search` starts it and nothing stops it.

`MC_AoETargets` has two targets:
- `t1` is cabled to interfaces `l1` and `l2`; `t2` to `l2` only.
- The user toggles `l2`, so `t1` exercises the round-robin with one interface down, and `t2` can lose its only interface.
- Our string is "ab". The user claims a target with "ab" or releases it with "".
- Targets start out claimed by "b". Another initiator claims with "b" and a NUL in `targets_ok` and `target_spin`. In `cstring_tail` it claims with the single byte "a" and no NUL (`MC_ForeignUnterminated`), and `ClaimMatchesTarget` is violated.
- A target ages out after one tick.

## Module `AoERegistry` and the refinement

`AoERegistry` is the registry's promise, taken from the spec. Targets are known with a number, and a subset of them is exposed. There are three actions:
- `Discover` gives a new target a number from 1..|Slots| that no known target has, and may expose it.
- `Claim` exposes a known hidden target.
- `Destroy` forgets a target and hides it.

A known target's number never changes. Exposure ends only with the target.

`AoETargets` instantiates it as `Registry == INSTANCE AoERegistry WITH known <- [s \in Present |-> num[s]], exposed <- {s \in Present : reg[s]}`. `targets_ok` checks `Registry!Spec` as the property `RefinesRegistry`. Steps map as follows:
- a first `ConfigReply` is `Discover`;
- a `SetTargetsCString` that registers is `Claim`;
- every `remove_target` is `Destroy`;
- every other step is a stuttering step.

## Runs

| Run | Expect | Checks | What it shows |
|---|---|---|---|
| `transport_reliable` | pass | TypeOK, OutstandingMatchesInFlight | Two links listed by one preference setting, two data tags, lost, late and duplicated replies, retransmits. Each link's counter equals its un-retransmitted requests on the wire. This answers the spec's open question: the retransmitted-flag guard prevents the double decrement. |
| `transport_progress` | pass | PendingHasRecord, ReliableRequestsResolve | One port listed and dropped by up to two settings. Without error replies, every request leaves the sent queue, answered or dropped. While a port is disabled, every pending first transmission keeps its sent-queue record. |
| `transport_all` | pass | CwndWellFormed, TransmittedIsWatched, FiltersFollowPreferences | Broadcasts, error replies, link flaps, buffer-count changes, and a port listed and dropped by up to two settings (2.6 M states, about 100 s). The window stays well formed, and an armed retransmit timer watches every transmitted request. Once a setting's calls are done, a port's filter is attached exactly when the preferences list the port. |
| `rto_exact` | pass | RtoMatchesReference | Every history of up to 4 samples from {0, 5, 24, 160, SafeSample} was checked (553 states). The code's estimate equals the reference. Above `SafeSample` the code overflows; that case is a hazard. |
| `command_ok` | pass | TypeOK, CommandNotStranded, PacketsCoverCommand | Two reads, writes and faked flushes on a target with two links. An `aoe_search` races on the tag, `StateUpdateTimer` sends one IDENTIFY, requests are dropped, the host times commands out, and links go down and up. A command waiting for replies always has a request or its fake on the way: the reply count never outruns the packets. When a read or write has issued its last packet, the packets tile its extent from its LBA with no gap, overlap or overrun, across the byte carry, and their number is the reply count. Each write packet carries the data of exactly the sectors its header names (about 80 s). |
| `read_tag_race` | violation | ReadDataPlaced | An `aoe_search` takes a tag between the two packets of a 3-sector read. The second reply's data lands past the buffer, and the read completes without error with a sector missing. |
| `write_error_latch` | violation | ErrorReported | In a 3-packet write, the first reply is DRDY and the second is an error. The latch holds the DRDY status, so the write completes without error. The spec's own example expects a device error. |
| `stale_reply` | violation | RepliesMatchIssued | Replies a command did not ask for. TLC's shortest trace: `StateUpdateTimer` sends IDENTIFY while a 1-sector read waits, and `ata_response` counts the IDENTIFY reply as the read's, so the read completes without error, with nothing placed and its own request still on the wire. The same run also reaches the longer path where a read is timed out by the host and its late reply is counted for the next read. |
| `targets_ok` | pass | TypeOK, RegistryIdentity, OfflineTargetRemoved, RefinesRegistry | Two targets are discovered, age out and come back. This host claims and releases them, and another initiator claims them with a terminated string, while `l2` goes down and up (about 200 k states). Controllers and their numbers stay unique across removal and re-discovery. A target that stops answering is eventually removed unless the work loop has hung. Every step refines `AoERegistry` (about 1.5 minutes in all). Deadlock is not checked: the hung state is a real stop. |
| `cstring_tail` | violation | ClaimMatchesTarget | This host claims `t1` with "ab". Another initiator then claims it with "a", `cslen` 1 and no NUL, as the protocol's length-delimited strings allow. `handle_aoe_cmd` copies one byte over "ab", `cstring_is_ours` still matches, and `t1` stays exposed to this host while another initiator owns it. |
| `target_spin` | violation | WorkLoopNeverSpins | `t1` is heard on `l2`, the user disables `l2`, and `StateUpdateTimer` sends IDENTIFY to `t1`. `send_packet` loops forever on the work loop. |
| `lba28_split` | violation | PacketsCoverCommand | A 4-sector 28-bit write at LBA 0 in 2-sector packets. The reply count is taken from `ataTFSector`, which is 0, so it is 1. The loop sends two packets, the leftover test sees 2 sectors left and sends a third at LBA 4, past the write, and the command waits for 2 replies out of 3. |

Earlier checks that are kept as properties but no longer have a run, each listed as a hazard in `PROJECT.json`:
- `SSThreshPositive` (`AoETransport`), violated by a buffer count of 1.
- `InterfacesInUseCounts` (`AoETransport`), violated by link off followed by removal of the port. It is also violated when a port is enabled while its cable is out and then plugged in: `enable_interface` counts it, and `interface_reconnected` counts it again.
- `EnabledOnlyIfListed` (`AoETransport`), violated by a carrier flap between `interface_disconnected` and `disable_filtering`. The `KEV_DL_LINK_ON` still passes the filter, and `interface_reconnected` re-enables the port the user has just dropped. The filter follows the preferences (`FiltersFollowPreferences` holds), but the enabled flag does not.
- `OutstandingNonNegative` (`AoETransport`), violated when a broadcast waiting behind a full window is dropped and its counter decremented.
- `OutstandingMatchesInFlight` with link off/on (`AoETransport`): the counter keeps the purged requests.
- `EstimatorExact` (`RTOEstimator`), violated by one sample just under 2^31 ns, where `var<<2` overflows. In that range `get_rto_us` can also fall below the minimum that spec.md promises for any history.

Each property of a passing run has a mutant in `PROJECT.json`: a plausible slip in the code that TLC shows breaks it. The mutants are an uncapped backoff, a decrement without the retransmit guard, a purge of only one queue, a drop limit measured from the last send, `set_cwnd` keeping the fraction, and a send that does not arm the retransmit timer, an `update_rto` without the absolute value of the error, a reply count rounded up (`RepliesBeforeCeil`), a 48-bit `increment_address` that carries only through the three low bytes (`IncrementAddress48Low`), an `append_write_data` that takes the data at the command's position without the bytes already sent (`AppendWriteDataAtPosition`), a faked FLUSH reply counted like a data reply (`AtaResponseFlushCounts`), an interface appended without the lookup (`KnownInterfacesAppend`), target numbers taken as count + 1 (`NextNumberCount`), an aging test with `>` instead of `>=` (`AgedStrict`), a `remove_target` that tears a controller down but leaves it in the array (`RemoveTargetKeep`), and a removal loop in `aoeinterface_set` that looks previous ports up in the previous list (`PrefCallsNoRemoval`).

## Not modelled, and the plan

- **RTO coupling**: `AoETransport` still picks its RTO from `RtoValues`. It does not run `RTOEstimator`, because the number of states would grow too much. The transport's properties hold for every RTO in `RtoValues`.
- **AoEControllerInterface** (registry): `AoETargets` has no commands in flight. `cancel_commands_on_interface` is modelled in `AoECommand` for one target only, so its `break` after the first target has no effect there. The user thread's `get_target_info` copies a controller's data without the gate (`m_pTargetListMutex` is never taken). That race, and the `aoed -i` listing of numbers 1..count (which misses targets after a removal leaves a gap), are hazards without a run. MTU and transfer-size adjustment and `force_packet_send` are left out.
- **AoECommand**: one target, and host commands one at a time. `handle_identify`'s fix-ups of the IDENTIFY data and its capacity check (which calls `remove_target`), IDENTIFY commands from the host, `registerAccess` and the byte copy of the write data are left out. `AppendWriteData` keeps only where each packet's data starts and how long it is. `completeDataRead`'s `checkTimeout` early return (lines 1443-1447), which makes a read past its host deadline return a timeout error, is left out; the host's timeout is `HostTimeout`. `Complete` and `HostTimeout` stand for the base class's `IOATAController::completeIO` and `handleTimeout`. The map names the driver's overrides of them (compiled in debug builds only), the only lines of the repository for those calls. `IsExtendedCommand` is the host's 48-bit flag; a DMA-extended opcode sent without it is not considered. `SendIdentify` is one atomic step; on the user thread (`find_targets`) its `next_tag` could also be split like `aoe_search`'s. The tag wrap is not reached with these bounds. `command_ok` does not check for deadlock, because its bounded command count ends every behaviour. So the `send_packet` spin with every link of the target down shows only as a missing step there. `AoETargets` checks that spin (`target_spin`).
- **A composition** of `AoECommand` with `AoETransport` (the translator's `net` is the transport's queues). **An abstract transport** (requests answered or timed out), refined by `AoETransport` through a refinement mapping.
- **Preferences**: a setting's transfer size, user window and config string are held fixed in `AoETransport`. `ifnet_find_by_name` failing in `enable_interface` is not modelled. The code then marks the port enabled with no `ifnet`.
- **28-bit boundary**: `increment_address` of a task file does not carry into the LBA bits 24-27 of `ataTFSDH`. The model has it (`IncrementAddress28`), but no run starts a 28-bit transfer below 2^24 that crosses it, since the reply-count bug already breaks `PacketsCoverCommand` for every 28-bit split.
- Left out for good: frame layout (`aoe.h`, replaced by tags), mbufs and memory reuse, MTU and registry properties, the OS storage glue (`AoEDevice`), and the user-space tools.
