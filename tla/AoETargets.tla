----------------------------- MODULE AoETargets -----------------------------
(***************************************************************************)
(* The target registry of the AoE initiator: AoEControllerInterface's     *)
(* array of controllers (one per shelf.slot that answered a config query), *)
(* the target numbers it hands out, each target's list of interfaces and   *)
(* its round-robin cursor, the config string each controller keeps and the *)
(* registration (exposure to the storage stack) that depends on it, and    *)
(* the aging done by StateUpdateTimer.                                     *)
(*                                                                         *)
(* Every action runs on the IOWorkLoop (a filter callback routed through   *)
(* the command gate, a timer, or a user request through a cg_ handler),   *)
(* so each is one atomic step.  A target's own stored config string and   *)
(* its reachability are the environment.  Strings are byte sequences: 0 is *)
(* the NUL byte, other small naturals stand for characters.               *)
(***************************************************************************)
EXTENDS Naturals, Sequences, SequencesExt, FiniteSets

CONSTANTS
    Slots,          \* shelf.slot addresses of the targets on the network
    Links,          \* Ethernet interfaces of the host
    TargetLinks,    \* [Slots -> SUBSET Links]: where each target is cabled
    Offline,        \* m_TimeUntilTargetOffline_us, in ticks of aging
    CStrMax,        \* MAX_CONFIG_STRING_LENGTH
    Ours,           \* get_com_cstring(): this host's config string, no NUL
    OurStrings,     \* strings the user hands to set_targets_cstring
    ForeignBytes,   \* cslen bytes another initiator writes to a target
    InitBytes,      \* bytes a target holds when the model starts
    Switched        \* interfaces the user disables and enables

NUL == 0

VARIABLES
    ctrls,      \* m_pControllers: the OSArray of controllers, by shelf.slot
    num,        \* m_target.nTargetNumber
    ifs,        \* m_target.aInterfaces[0..nNumberOfInterfaces-1]
    last,       \* m_target.nLastSentInterface (0-based)
    age,        \* ticks since m_time_since_last_comm
    cstr,       \* m_aConfigString[0..MAX_CONFIG_STRING_LENGTH-1]
    reg,        \* m_fRegistered
    active,     \* interfaces enabled in AoEInterfaces (is_used)
    tstr,       \* the config string bytes stored on each target
    up,         \* targets that are powered and answering
    synced,     \* the last config reply was sent after tstr last changed
    hung        \* the work loop spins in send_packet's do-while

vars == <<ctrls, num, ifs, last, age, cstr, reg, active, tstr, up, synced, hung>>

Present == ToSet(ctrls)

-----------------------------------------------------------------------------
(* Strings.                                                                *)

\* The C string held in a byte array: the bytes before the first NUL.
CStr(b) == LET z == SelectInSeq(b, LAMBDA c : c = NUL)
           IN  IF z = 0 THEN b ELSE SubSeq(b, 1, z - 1)

\* handle_aoe_cmd, CONFIG_STR_GET: copy MIN(cslen, MAX) bytes over the old
\* array; nothing terminates the copy, the rest of the array is kept.
CopyCString(arr, bytes) ==
    [i \in 1..CStrMax |-> IF i <= Len(bytes) THEN bytes[i] ELSE arr[i]]

EmptyCString == [i \in 1..CStrMax |-> NUL]

\* cstring_is_ours: strncmp(ours, m_aConfigString, MAX) == 0
CStringIsOurs(arr) == CStr(arr) = Ours

-----------------------------------------------------------------------------
(* Lookups over the controller array, in its iteration order.              *)

\* get_next_target_number: the smallest n >= 1 no controller carries.
NextNumberCount == Len(ctrls) + 1
NextNumber == Min({n \in 1..Len(ctrls) + 1 : \A s \in Present : num[s] # n})

\* interface_active(pTargetInfo, i), i 0-based
IfActive(s, i) == ifs[s][i + 1] \in active

\* interfaces_active: one of the target's interfaces is enabled
HasActive(s) == \E i \in 0..Len(ifs[s]) - 1 : IfActive(s, i)

\* send_packet's load balancing: the do-while steps the cursor until it
\* lands on an enabled interface.  The new cursor, when one exists.
RoundRobin(s) ==
    LET n == Len(ifs[s])
        k == CHOOSE k \in 1..n :
                 /\ IfActive(s, (last[s] + k) % n)
                 /\ \A j \in 1..k - 1 : ~IfActive(s, (last[s] + j) % n)
    IN  (last[s] + k) % n

\* send_packet returns -1 at once for a target with no interface, sends when
\* one of its interfaces is enabled, and otherwise never returns.
SendSpins(s) == Len(ifs[s]) > 0 /\ ~HasActive(s)
Sent(s) == IF Len(ifs[s]) > 0 /\ HasActive(s) THEN RoundRobin(s) ELSE last[s]

RemoveTargetKeep(n) ==
    LET i == SelectInSeq(ctrls, LAMBDA s : num[s] = n)
    IN  /\ i > 0
        /\ ctrls' = ctrls
        /\ ifs' = [ifs EXCEPT ![ctrls[i]] = <<>>]
        /\ reg' = [reg EXCEPT ![ctrls[i]] = FALSE]

\* remove_target(nNumber): the first controller with that number is
\* cancelled, loses its interfaces and leaves the array.
RemoveTarget(n) ==
    LET i == SelectInSeq(ctrls, LAMBDA s : num[s] = n)
    IN  /\ i > 0
        /\ ctrls' = RemoveAt(ctrls, i)
        /\ ifs' = [ifs EXCEPT ![ctrls[i]] = <<>>]
        /\ reg' = [reg EXCEPT ![ctrls[i]] = FALSE]

\* check_down_targets: time_since_now_us(last comm) >= the offline threshold.
AgedStrict(s) == age[s] > Offline
Aged(s) == age[s] >= Offline

\* update_target_info(ifnet, mac, TRUE): the interface list after a packet
\* from the target on l; an interface not yet listed is appended.
KnownInterfacesAppend(s, l) == Append(ifs[s], l)
KnownInterfaces(s, l) ==
    IF \E i \in 1..Len(ifs[s]) : ifs[s][i] = l THEN ifs[s] ELSE Append(ifs[s], l)

-----------------------------------------------------------------------------
(* Operations.                                                             *)

Init ==
    /\ ctrls = <<>>
    /\ num = [s \in Slots |-> 0]
    /\ ifs = [s \in Slots |-> <<>>]
    /\ last = [s \in Slots |-> 0]
    /\ age = [s \in Slots |-> 0]
    /\ cstr = [s \in Slots |-> EmptyCString]
    /\ reg = [s \in Slots |-> FALSE]
    /\ active = Links
    /\ tstr \in [Slots -> InitBytes]
    /\ up = Slots
    /\ synced = [s \in Slots |-> TRUE]
    /\ hung = FALSE

\* set_config_string: strncpy(m_aConfigString, str, len + 1) keeps the
\* string and its NUL before CONFIG_STR_FORCE_SET goes out.
SetConfigString(s, str) == CopyCString(cstr[s], str \o <<NUL>>)

\* identify_all_targets: send_identify to each controller in array order;
\* the index of the first whose send_packet never returns, or 0.
IdentifyStops(cs) == SelectInSeq(cs, SendSpins)

\* aoe_config_receive's check on a known target: its config string is no
\* longer ours and it is registered (is_registered() returns 0 when it is).
LostOwnershipInverted(c, s) == ~CStringIsOurs(c) /\ ~reg[s]
LostOwnership(c, s) == ~CStringIsOurs(c) /\ reg[s]

\* aoe_config_receive: a config reply from target s arrives on interface l.
\* A known target copies the string (handle_aoe_cmd), records the interface
\* and the time (update_target_info) and is removed if it is no longer ours;
\* an unknown one gets a controller with the next free number, which is
\* registered when its string is ours.
ConfigReply(s, l) ==
    /\ ~hung
    /\ s \in up
    /\ l \in active \cap TargetLinks[s]
    /\ synced' = [synced EXCEPT ![s] = TRUE]
    /\ age' = [age EXCEPT ![s] = 0]
    /\ UNCHANGED <<active, tstr, up, hung>>
    /\ IF s \in Present
       THEN LET c == CopyCString(cstr[s], tstr[s])
                known == KnownInterfaces(s, l)
            IN  /\ cstr' = [cstr EXCEPT ![s] = c]
                /\ UNCHANGED <<num, last>>
                /\ IF LostOwnership(c, s)
                   THEN RemoveTarget(num[s])
                   ELSE /\ ifs' = [ifs EXCEPT ![s] = known]
                        /\ UNCHANGED <<ctrls, reg>>
       ELSE LET c == CopyCString(EmptyCString, tstr[s])
            IN  /\ ctrls' = Append(ctrls, s)
                /\ num' = [num EXCEPT ![s] = NextNumber]
                /\ ifs' = [ifs EXCEPT ![s] = <<l>>]
                /\ last' = [last EXCEPT ![s] = 0]
                /\ cstr' = [cstr EXCEPT ![s] = c]
                /\ reg' = [reg EXCEPT ![s] = CStringIsOurs(c)]

\* Time passes for every known target.
Tick ==
    /\ ~hung
    /\ \E s \in Present : age[s] < Offline
    /\ age' = [s \in Slots |-> IF s \in Present /\ age[s] < Offline
                               THEN age[s] + 1 ELSE age[s]]
    /\ UNCHANGED <<ctrls, num, ifs, last, cstr, reg, active, tstr, up, synced, hung>>

\* StateUpdateTimer: check_down_targets removes the first aged controller of
\* the array and breaks; aoe_search_all then broadcasts a query on every
\* enabled interface and, unless one of those sends failed, sends IDENTIFY
\* to every controller in array order (identify_all_targets).  A controller
\* none of whose interfaces is enabled makes send_packet spin.
StateUpdateTimer ==
    /\ ~hung
    /\ LET i == SelectInSeq(ctrls, Aged)
       IN  IF i > 0 THEN RemoveTarget(num[ctrls[i]])
                    ELSE UNCHANGED <<ctrls, ifs, reg>>
    /\ \E searchOk \in IF active = {} THEN {TRUE} ELSE BOOLEAN :
          LET k == IF searchOk THEN IdentifyStops(ctrls') ELSE 0
              sent == IF ~searchOk THEN {}
                      ELSE IF k = 0 THEN ToSet(ctrls')
                      ELSE {ctrls'[j] : j \in 1..k - 1}
          IN  /\ last' = [s \in Slots |-> IF s \in sent THEN Sent(s) ELSE last[s]]
              /\ hung' = (k > 0)
    /\ UNCHANGED <<num, age, cstr, active, tstr, up, synced>>

\* cg_set_targets_cstring (set_targets_cstring, set_config_string): the user
\* gives target number n a string.  The controller keeps the string with
\* its NUL, sends CONFIG_STR_FORCE_SET (which the target may never store),
\* and is removed if it was registered and the string is not ours, or is
\* registered if it was not and the string is ours.
SetTargetsCString(n, str) ==
    /\ ~hung
    /\ \E i \in 1..Len(ctrls) :
       /\ num[ctrls[i]] = n
       /\ \A j \in 1..i - 1 : num[ctrls[j]] # n
       /\ LET s == ctrls[i]
              c == SetConfigString(s, str)
          IN  /\ cstr' = [cstr EXCEPT ![s] = c]
              /\ synced' = [synced EXCEPT ![s] = FALSE]
              /\ UNCHANGED <<num, age, active, up>>
              /\ IF SendSpins(s)
                 THEN /\ hung' = TRUE
                      /\ UNCHANGED <<ctrls, ifs, last, reg, tstr>>
                 ELSE /\ hung' = FALSE
                      /\ last' = [last EXCEPT ![s] = Sent(s)]
                      /\ \E stored \in IF s \in up THEN {tstr[s], str \o <<NUL>>}
                                                   ELSE {tstr[s]} :
                            tstr' = [tstr EXCEPT ![s] = stored]
                      /\ IF reg[s] /\ ~CStringIsOurs(c)
                         THEN RemoveTarget(n)
                         ELSE /\ reg' = [reg EXCEPT ![s] = reg[s] \/ CStringIsOurs(c)]
                              /\ UNCHANGED <<ctrls, ifs>>

\* Another initiator writes a config string to target s.
ForeignSetCString(s, bytes) ==
    /\ ~hung
    /\ s \in up
    /\ tstr' = [tstr EXCEPT ![s] = bytes]
    /\ synced' = [synced EXCEPT ![s] = FALSE]
    /\ UNCHANGED <<ctrls, num, ifs, last, age, cstr, reg, active, up, hung>>

\* Target s stops answering, or answers again.
TargetDown(s) ==
    /\ ~hung
    /\ s \in up
    /\ up' = up \ {s}
    /\ UNCHANGED <<ctrls, num, ifs, last, age, cstr, reg, active, tstr, synced, hung>>

TargetUp(s) ==
    /\ ~hung
    /\ s \notin up
    /\ up' = up \cup {s}
    /\ UNCHANGED <<ctrls, num, ifs, last, age, cstr, reg, active, tstr, synced, hung>>

\* cg_disable_interface / cg_enable_interface: the interface leaves or joins
\* the enabled set.  Targets keep it in their interface lists either way.
LinkDisable(l) ==
    /\ ~hung
    /\ l \in active
    /\ active' = active \ {l}
    /\ UNCHANGED <<ctrls, num, ifs, last, age, cstr, reg, tstr, up, synced, hung>>

LinkEnable(l) ==
    /\ ~hung
    /\ l \notin active
    /\ active' = active \cup {l}
    /\ UNCHANGED <<ctrls, num, ifs, last, age, cstr, reg, tstr, up, synced, hung>>

Next ==
    \/ \E s \in Slots, l \in Links : ConfigReply(s, l)
    \/ Tick
    \/ StateUpdateTimer
    \/ \E n \in 1..Cardinality(Slots), str \in OurStrings : SetTargetsCString(n, str)
    \/ \E s \in Slots, b \in ForeignBytes : ForeignSetCString(s, b)
    \/ \E s \in Slots : TargetDown(s) \/ TargetUp(s)
    \/ \E l \in Switched : LinkDisable(l) \/ LinkEnable(l)

\* The work loop runs its timers: the aging clock advances and
\* StateUpdateTimer re-arms itself at the end of every firing.
Fairness == WF_vars(Tick) /\ WF_vars(StateUpdateTimer)

Spec == Init /\ [][Next]_vars /\ Fairness

-----------------------------------------------------------------------------
(* Properties.                                                             *)

TypeOK ==
    /\ ctrls \in Seq(Slots)
    /\ num \in [Slots -> 0..Cardinality(Slots) + 1]
    \* aInterfaces has room for one entry per host interface
    /\ ifs \in [Slots -> Seq(Links)]
    /\ \A s \in Slots : Len(ifs[s]) <= Cardinality(Links)
    /\ last \in [Slots -> Nat]
    /\ age \in [Slots -> 0..Offline]
    /\ reg \in [Slots -> BOOLEAN]
    /\ active \subseteq Links
    /\ up \subseteq Slots
    /\ synced \in [Slots -> BOOLEAN]
    /\ hung \in BOOLEAN

\* The registry's identity: the array holds each shelf.slot at most once, and
\* no two controllers carry the same target number (get_next_target_number
\* after remove_target and re-discovery; remove_target and
\* set_targets_cstring pick a controller by that number).
RegistryIdentity ==
    \A i, j \in 1..Len(ctrls) :
        i # j => ctrls[i] # ctrls[j] /\ num[ctrls[i]] # num[ctrls[j]]

\* A target exposed to the storage stack is owned by this host: once a
\* config reply has come back since the target's string last changed (by
\* this host's set_targets_cstring or another initiator), a registered
\* controller's target holds our config string (aoe_config_receive).
ClaimMatchesTarget ==
    \A s \in Present : reg[s] /\ synced[s] => CStr(tstr[s]) = Ours

\* The work loop never spins in send_packet (StateUpdateTimer's IDENTIFY and
\* set_targets_cstring both send through it).
WorkLoopNeverSpins == ~hung

\* A known target that stops answering is removed by StateUpdateTimer once
\* it has aged (check_down_targets), unless it answers again or the work
\* loop hangs first.
OfflineTargetRemoved ==
    \A s \in Slots :
        (s \in Present /\ s \notin up) ~> (s \notin Present \/ s \in up \/ hung)

\* The controller array implements AoERegistry: the known targets are the
\* controllers with their nTargetNumber, the exposed ones those with
\* m_fRegistered.  A discovered target gets a number no known target has,
\* keeps it while it is known, and is unregistered only when remove_target
\* destroys it (aoe_config_receive, check_down_targets, set_targets_cstring).
Registry == INSTANCE AoERegistry WITH
                known <- [s \in Present |-> num[s]],
                exposed <- {s \in Present : reg[s]}

RefinesRegistry == Registry!Spec

====
