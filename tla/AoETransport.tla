---------------------------- MODULE AoETransport ----------------------------
(***************************************************************************)
(* The transport engine of the AoE initiator: AoEService's two packet      *)
(* queues (m_sent_queue and m_to_send_queue), its transmit, retransmit and *)
(* idle timers, the reply matcher cg_aoe_incoming, and the per-link        *)
(* congestion state kept by EInterfaces/EInterface.                        *)
(*                                                                         *)
(* Every handler runs on the service's single IOWorkLoop (the timers and   *)
(* the command gate are event sources of that work loop), so each handler *)
(* is one atomic action.  Time is abstracted to ticks: every age is the    *)
(* number of ticks since a timestamp, saturating above the largest         *)
(* threshold, and a timer is a count-down that must fire before time can   *)
(* pass (the work loop is never held up for a whole timer period).         *)
(***************************************************************************)
EXTENDS Integers, Sequences, FiniteSets

CONSTANTS
  Ifs,            \* the Ethernet links (EInterface slots)
  Shelves,        \* shelf numbers of the targets behind the links
  DataTags,       \* tags of ATA requests issued by the command translator
  BcastTags,      \* tags of discovery broadcasts (TAG_BROADCAST_MASK set)
  OnlineTag,      \* DEVICE_ONLINE_TAG, carried by unsolicited config replies
  BufCounts,      \* buffer counts a target may advertise in a config reply
  DefaultWindow,  \* DEFAULT_CONGESTION_WINDOW, scaled
  UserWindow,     \* m_nMaxUserWindow (set_user_window)
  RtoValues,      \* the values the RTO estimator may produce, in ticks
  RtoInit,        \* RTO_MAX_NS, the estimate before any sample, in ticks
  RtoMin,         \* RTO_MIN_NS, the floor applied by get_rto_us, in ticks
  RetransmitCap,  \* MAX_RETRANSMIT_TIMEOUT_US, in ticks
  IdleDelay,      \* IDLE_DELAY_US, in ticks
  DropAge,        \* MAX_TIMEOUT_BEFORE_DROP_US, in ticks
  ErrorFlags,     \* values the AoE error flag of a reply may take
  LinkEvents,     \* whether links may go down and come back (KEV_DL_LINK_*)
  MaxCwnd,        \* bound: no reply is taken on a link whose cwnd reached it
  PrefLists,      \* the port lists a client may send with AOEINTERFACE_PREFERENCES
  MaxPrefChanges, \* bound: AOEINTERFACE_PREFERENCES settings
  MaxSearches     \* bound: discovery broadcasts issued by aoe_search

ASSUME /\ DataTags \cap BcastTags = {}
       /\ OnlineTag \notin DataTags \cup BcastTags
       /\ RtoMin \in Nat \ {0} /\ RtoInit \in Nat /\ RtoValues \subseteq Nat
       /\ 0 < RtoMin /\ RtoMin <= RetransmitCap
       /\ RetransmitCap < IdleDelay /\ IdleDelay < DropAge
       /\ MaxCwnd \in Nat \ {0} /\ MaxPrefChanges \in Nat /\ MaxSearches \in Nat
       /\ ErrorFlags \subseteq BOOLEAN /\ LinkEvents \in BOOLEAN

VARIABLES
  sentQueue,      \* m_sent_queue: Seq of SentPktQueue records
  toSendQueue,    \* m_to_send_queue: Seq of ToSendPktQueue records
  ifEnabled,      \* EInterface.m_fEnabled
  filtered,       \* a packet filter is attached (the port is in the preferences)
  interfacesInUse,\* EInterfaces.m_nInterfacesInUse
  cwnd,           \* EInterface.m_nCwd
  cwndFrac,       \* EInterface.m_nCwdFractional
  ssthresh,       \* EInterface.m_nSSThresh
  outstanding,    \* EInterface.m_nOutstandingCount
  maxOutstanding, \* EInterface.m_anMaxOutstanding[shelf]
  minMaxOutstanding, \* EInterface.m_nMinimumMaxOutstanding
  lastSend,       \* age of EInterface.m_TimeSinceLastSend (Unsent = never)
  transmitTimer,  \* m_pTransmitTimer enabled (always armed with delay 0)
  retransmitTimer,\* ticks until m_pRetransmitTimer fires, or Off
  idleTimer,      \* ticks until m_pIdleTimer fires, or Off
  rto,            \* m_nRTO_ns, in ticks
  wire,           \* <<tag, link>> pairs transmitted: a reply may still come
  prefChanges,    \* preference settings so far (bounded by MaxPrefChanges)
  prefs,          \* g_PreferenceData.anEnabledPorts[0 .. nNumberOfPorts-1]
  calls,          \* the calls aoeinterface_set has still to make, in order
  carrier,        \* the link's carrier is up (the last KEV_DL_LINK_* event)
  searches        \* broadcasts issued so far (bounded by MaxSearches)

vars == <<sentQueue, toSendQueue, ifEnabled, filtered, interfacesInUse, cwnd, cwndFrac,
          ssthresh, outstanding, maxOutstanding, minMaxOutstanding, lastSend,
          transmitTimer, retransmitTimer, idleTimer, rto, wire, prefChanges,
          searches, prefs, calls, carrier>>

MIN(a, b) == IF a < b THEN a ELSE b
MAX(a, b) == IF a > b THEN a ELSE b

\* A zero timestamp (TimeFirstSent, TimeSent, m_TimeSinceLastSend) means
\* "not sent yet"; a disabled timer source has no count-down.
Unsent == -1
Off == -1
NoShelf == -1           \* the shelf argument of a broadcast

\* Ages saturate once they exceed every threshold they are compared with.
AllTags == DataTags \cup BcastTags
RtCeil == MAX(RetransmitCap, MAX(RtoInit, CHOOSE r \in RtoValues : \A q \in RtoValues : q <= r))
SatAge == MAX(DropAge, RtCeil)
Age == Unsent .. SatAge

SentRec == [tag : AllTags, if : Ifs, shelf : Shelves \cup {NoShelf},
            first : Age, last : Age, rt : 0 .. RtCeil, retx : BOOLEAN]
ToSendRec == [tag : AllTags, if : Ifs, shelf : Shelves \cup {NoShelf},
              imm : BOOLEAN]

\* An elapsed-time test "time_since_now_us(t) > d" made when a timer of
\* period d fires: the timer fires strictly after d, so an age of d ticks
\* passes it.
Elapsed(age, d) == age # Unsent /\ age >= d

IsBroadcast(tag) == tag \in BcastTags

TagsOf(q) == {q[k].tag : k \in DOMAIN q}

\* Index of the first entry of q with this tag (the TAILQ scans), 0 if none.
FirstIndex(q, tag) ==
  IF tag \in TagsOf(q)
  THEN CHOOSE k \in DOMAIN q : q[k].tag = tag /\ \A j \in 1 .. k - 1 : q[j].tag # tag
  ELSE 0

RemoveAt(q, k) == [j \in 1 .. Len(q) - 1 |-> IF j < k THEN q[j] ELSE q[j + 1]]

-----------------------------------------------------------------------------
(* EInterfaces                                                             *)

\* get_rto_us: MAX(m_nRTO_ns, RTO_MIN_NS)
GetRto == MAX(rto, RtoMin)

\* EInterfaces::get_max_outstanding: a broadcast (shelf < 0) takes the
\* minimum over all shelves, a shelf never configured gives 0.
GetMaxOutstanding(i, shelf) ==
  IF shelf = NoShelf THEN minMaxOutstanding[i] ELSE maxOutstanding[i][shelf]

\* EInterfaces::all_full: 0 when every enabled link has reached nMax.
AllFull(nMax) == \A i \in Ifs : ifEnabled[i] => outstanding[i] >= nMax

\* The window TransmitTimer allows for an entry:
\* MIN(cwnd, get_max_outstanding, m_nMaxUserWindow)
WindowFor(e) == MIN(MIN(cwnd[e.if], GetMaxOutstanding(e.if, e.shelf)), UserWindow)

\* EInterfaces::grow_cwnd(ifref, nIntegerGrowth, nFractionalGrowth)
GrowCwnd(i, inc, frac) ==
  LET prev == cwnd[i]
      c    == cwnd[i] + inc
      f    == cwndFrac[i] + frac
  IN  IF f >= c
      THEN /\ cwnd' = [cwnd EXCEPT ![i] = c + f \div prev]
           /\ cwndFrac' = [cwndFrac EXCEPT ![i] = f % prev]
      ELSE /\ cwnd' = [cwnd EXCEPT ![i] = c]
           /\ cwndFrac' = [cwndFrac EXCEPT ![i] = f]

\* A plausible slip in EInterfaces::set_cwnd: the fraction is kept.
SetCwndKeepFraction(i, n) ==
  /\ cwnd' = [cwnd EXCEPT ![i] = n]
  /\ UNCHANGED cwndFrac

\* EInterfaces::set_cwnd: force the window and clear its fraction.
SetCwnd(i, n) ==
  /\ cwnd' = [cwnd EXCEPT ![i] = n]
  /\ cwndFrac' = [cwndFrac EXCEPT ![i] = 0]

\* EInterfaces::set_max_outstanding -> EInterface::set_max_oustanding
SetMaxOutstanding(i, shelf, n) ==
  /\ maxOutstanding' = [maxOutstanding EXCEPT ![i][shelf] = n]
  /\ minMaxOutstanding' = [minMaxOutstanding EXCEPT ![i] = MIN(@, n)]

-----------------------------------------------------------------------------
(* Init                                                                    *)

Init ==
  /\ sentQueue = <<>>
  /\ toSendQueue = <<>>
  /\ ifEnabled = [i \in Ifs |-> FALSE]
  /\ filtered = [i \in Ifs |-> FALSE]
  /\ interfacesInUse = 0
  /\ cwnd = [i \in Ifs |-> 1]
  /\ cwndFrac = [i \in Ifs |-> 0]
  /\ ssthresh = [i \in Ifs |-> DefaultWindow \div 2]
  /\ outstanding = [i \in Ifs |-> 0]
  /\ maxOutstanding = [i \in Ifs |-> [s \in Shelves |-> 0]]
  /\ minMaxOutstanding = [i \in Ifs |-> DefaultWindow]
  /\ lastSend = [i \in Ifs |-> Unsent]
  /\ transmitTimer = FALSE
  /\ retransmitTimer = Off
  /\ idleTimer = Off
  /\ rto = RtoInit
  /\ wire = {}
  /\ prefChanges = 0
  /\ prefs = <<>>
  /\ calls = <<>>
  /\ carrier = [i \in Ifs |-> TRUE]
  /\ searches = 0

-----------------------------------------------------------------------------
(* Queue handling                                                          *)

\* enable_transmit_timer(0): arm the transmit timer unless already enabled.
EnableTransmitTimer == transmitTimer' = TRUE

\* enable_retransmit_timer: built with TRIGGER_RETRANSMIT_WHEN_TX_COMPLETE,
\* it disables the timer if it is running and re-arms it with get_rto_us,
\* so every call restarts the full timeout.
EnableRetransmitTimer == GetRto

\* enable_idle_timer: restart the idle timer with IDLE_DELAY_US.
EnableIdleTimer == IdleDelay

\* send_packet_on_interface(ifp, Tag, m, nShelf, fRetransmit) followed by
\* add_to_send_queue(..., FALSE).  On a link not in use the packet is dropped
\* and every pending entry of a link not in use is purged.  A tag is taken
\* only when no entry still carries it (the 2^30 tag space of next_tag never
\* wraps onto a live request), and replies to its earlier use are gone.
SendPacketOnInterface(tag, i, shelf, fRetransmit) ==
  /\ tag \notin TagsOf(sentQueue) \cup TagsOf(toSendQueue)
  /\ IF ifEnabled[i]
     THEN /\ sentQueue' = Append(sentQueue,
                 [tag |-> tag, if |-> i, shelf |-> shelf, first |-> Unsent,
                  last |-> Unsent, rt |-> IF fRetransmit THEN GetRto ELSE 0,
                  retx |-> FALSE])
          /\ toSendQueue' = Append(toSendQueue,
                 [tag |-> tag, if |-> i, shelf |-> shelf, imm |-> FALSE])
          /\ EnableTransmitTimer
     ELSE /\ toSendQueue' = SelectSeq(toSendQueue, LAMBDA e : ifEnabled[e.if])
          /\ UNCHANGED <<sentQueue, transmitTimer>>
  /\ wire' = {w \in wire : w[1] # tag}
  /\ UNCHANGED <<ifEnabled, filtered, interfacesInUse, cwnd, cwndFrac, ssthresh, outstanding,
                 maxOutstanding, minMaxOutstanding, lastSend, retransmitTimer,
                 idleTimer, rto, prefChanges, prefs, calls, carrier>>

\* An ATA request of the command translator: AoEControllerInterface::send_packet
\* picks an enabled link of a target whose config reply arrived on it.
IssueRequest(tag, i, shelf) ==
  /\ ifEnabled[i]
  /\ maxOutstanding[i][shelf] > 0
  /\ SendPacketOnInterface(tag, i, shelf, TRUE)
  /\ UNCHANGED searches

\* aoe_search: a config query broadcast, not retransmitted.  It runs on the
\* user thread of find_targets, so the link chosen by get_nth_interface may
\* have been disabled by the work loop in the meantime.
Search(tag, i) ==
  /\ searches < MaxSearches
  /\ searches' = searches + 1
  /\ SendPacketOnInterface(tag, i, NoShelf, FALSE)

-----------------------------------------------------------------------------
(* Transmit timer                                                          *)

\* Stamp TimeFirstSent/TimeSent of a sent-queue entry.
Stamp(r) ==
  IF r.first = Unsent THEN [r EXCEPT !.first = 0, !.last = 0]
                      ELSE [r EXCEPT !.last = 0]

\* A plausible slip: send_packet_from_queue without enable_retransmit_timer.
SendFromQueueNoWatch(st, e) ==
  LET k == FirstIndex(st.sent, e.tag) IN
  IF k = 0 THEN st
  ELSE [st EXCEPT !.sent[k]      = Stamp(@),
                  !.out[e.if]    = IF e.imm THEN @ ELSE @ + 1,
                  !.lastSend[e.if] = 0,
                  !.wire         = @ \cup {<<e.tag, e.if>>},
                  !.idle         = IF IsBroadcast(e.tag) THEN @ ELSE EnableIdleTimer]

\* send_packet_from_queue, on the part of the state it changes.  A pending
\* entry whose tag is no longer in the sent queue is dropped unsent.
SendFromQueue(st, e) ==
  LET k == FirstIndex(st.sent, e.tag) IN
  IF k = 0 THEN st
  ELSE [st EXCEPT !.sent[k]      = Stamp(@),
                  !.out[e.if]    = IF e.imm THEN @ ELSE @ + 1,
                  !.lastSend[e.if] = 0,
                  !.wire         = @ \cup {<<e.tag, e.if>>},
                  !.rtx          = EnableRetransmitTimer,
                  !.idle         = IF IsBroadcast(e.tag) THEN @ ELSE EnableIdleTimer]

RECURSIVE SendAll(_, _)
SendAll(st, q) == IF q = <<>> THEN st ELSE SendAll(SendFromQueue(st, Head(q)), Tail(q))

\* The second loop of TransmitTimer: the index of the entry it sends, 0 if
\* it breaks because every enabled link is full or reaches the end.
RECURSIVE PickToSend(_, _)
PickToSend(q, j) ==
  IF j > Len(q) THEN 0
  ELSE IF outstanding[q[j].if] < WindowFor(q[j]) THEN j
  ELSE IF AllFull(WindowFor(q[j])) THEN 0
  ELSE PickToSend(q, j + 1)

\* TransmitTimer: send every send-immediately entry, then at most one entry
\* the window allows, and re-arm only if one was sent and more are pending.
TransmitTimer ==
  /\ transmitTimer
  /\ LET imm  == SelectSeq(toSendQueue, LAMBDA e : e.imm)
         rest == SelectSeq(toSendQueue, LAMBDA e : ~e.imm)
         st0  == [sent |-> sentQueue, out |-> outstanding, lastSend |-> lastSend,
                  wire |-> wire, rtx |-> retransmitTimer, idle |-> idleTimer]
         st1  == SendAll(st0, imm)
         j    == PickToSend(rest, 1)
         st2  == IF j = 0 THEN st1 ELSE SendFromQueue(st1, rest[j])
         left == IF j = 0 THEN rest ELSE RemoveAt(rest, j)
     IN  /\ sentQueue' = st2.sent
         /\ outstanding' = st2.out
         /\ lastSend' = st2.lastSend
         /\ wire' = st2.wire
         /\ retransmitTimer' = st2.rtx
         /\ idleTimer' = st2.idle
         /\ toSendQueue' = left
         /\ transmitTimer' = (j # 0 /\ left # <<>>)
  /\ UNCHANGED <<ifEnabled, filtered, interfacesInUse, cwnd, cwndFrac, ssthresh, maxOutstanding,
                 minMaxOutstanding, rto, prefChanges, prefs, calls, carrier, searches>>

-----------------------------------------------------------------------------
(* Reply matching                                                          *)

\* A plausible slip in the matcher: the counter is decremented even for a
\* retransmitted entry, whose counter the retransmit already gave back.
ReplyCreditAlways(e) == [outstanding EXCEPT ![e.if] = @ - 1]

\* The counter update of cg_aoe_incoming for a matched entry: decrement
\* unless the entry was retransmitted; then a negative count is clamped
\* to 0 ("Invalid Outstanding count"), whichever branch was taken.
ReplyCredit(e) ==
  LET c == IF e.retx THEN outstanding[e.if] ELSE outstanding[e.if] - 1
  IN  [outstanding EXCEPT ![e.if] = IF c < 0 THEN 0 ELSE c]

\* cg_aoe_incoming for a reply (RESPONSE flag set) with this tag arriving on
\* link i.  A matched entry is removed, its link's counter decremented unless
\* it was retransmitted, the RTO fed with a sample (abstracted to a choice of
\* the estimator's result r) and the window grown; then an AoE error reply
\* returns at once; otherwise a config reply (broadcast or online tag) reaches
\* aoe_config_receive -> handle_aoe_cmd -> set_max_outstanding(i, shelf, n),
\* and a matched reply re-arms the transmit timer if anything is pending.
\* EInterfaces::set_max_outstanding looks the link up by m_ifnet, which
\* interface_disconnected zeroes, so a disabled link's limits stay as they are.
Receive(tag, i, err, r, shelf, n) ==
  /\ filtered[i] /\ carrier[i]
  /\ \/ <<tag, i>> \in wire
     \/ tag = OnlineTag
  /\ LET k     == FirstIndex(sentQueue, tag)
         found == k # 0
         e     == sentQueue[k]
     IN  /\ IF found
            THEN /\ sentQueue' = RemoveAt(sentQueue, k)
                 /\ cwnd[e.if] < MaxCwnd
                 /\ outstanding' = ReplyCredit(e)
                 /\ rto' = IF e.retx THEN rto ELSE r
                 /\ IF cwnd[e.if] < ssthresh[e.if]
                    THEN GrowCwnd(e.if, 1, 0)
                    ELSE GrowCwnd(e.if, 0, 1)
            ELSE UNCHANGED <<sentQueue, outstanding, rto, cwnd, cwndFrac>>
         /\ IF ~err /\ (tag = OnlineTag \/ IsBroadcast(tag)) /\ ifEnabled[i]
            THEN SetMaxOutstanding(i, shelf, n)
            ELSE UNCHANGED <<maxOutstanding, minMaxOutstanding>>
         /\ transmitTimer' = (transmitTimer \/ (~err /\ found /\ toSendQueue # <<>>))
  /\ UNCHANGED <<toSendQueue, ifEnabled, filtered, interfacesInUse, ssthresh, lastSend,
                 retransmitTimer, idleTimer, wire, prefChanges, prefs, calls, carrier, searches>>

-----------------------------------------------------------------------------
(* Retransmit and idle timers                                              *)

\* A plausible slip: the drop limit measured from the last transmission
\* (TimeSent) instead of the first (TimeFirstSent).
VerdictFromLastSend(e) ==
  CASE e.rt = 0                                      -> "drop"
    [] e.first = Unsent \/ e.last = Unsent            -> "keep"
    [] Elapsed(e.last, DropAge)                       -> "drop"
    [] Elapsed(e.last, e.rt)                          -> "resend"
    [] OTHER                                          -> "keep"

\* A plausible slip: the timeout doubled without the cap.
ResendPacketUncapped(e) ==
  [e EXCEPT !.rt = 2 * @, !.last = Unsent, !.retx = TRUE]

\* What one pass of RetransmitTimer does with a sent-queue entry: an entry
\* that needs no retransmit (RetransmitTime_us = 0) is dropped at once; a
\* transmitted entry first sent longer ago than the drop limit is dropped;
\* one whose last transmission is older than its timeout is resent.
Verdict(e) ==
  CASE e.rt = 0                                      -> "drop"
    [] e.first = Unsent \/ e.last = Unsent            -> "keep"
    [] Elapsed(e.first, DropAge)                      -> "drop"
    [] Elapsed(e.last, e.rt)                          -> "resend"
    [] OTHER                                          -> "keep"

\* resend_packet: double the timeout up to the cap, clear TimeSent, mark
\* the entry retransmitted; a send-immediately copy joins the to-send queue.
ResendPacket(e) ==
  [e EXCEPT !.rt = MIN(2 * @, RetransmitCap), !.last = Unsent, !.retx = TRUE]

\* RetransmitTimer.  Dropped and resent entries that were not already
\* retransmitted give their link's counter back; the window of the link of
\* the first resent entry alone is cut (fHaveAdjustedCWND); the timer is
\* re-armed with get_rto_us while the sent queue is not empty.
RetransmitTimer ==
  /\ retransmitTimer = 0
  /\ LET resent == SelectSeq(sentQueue, LAMBDA e : Verdict(e) = "resend")
         kept   == SelectSeq(sentQueue, LAMBDA e : Verdict(e) # "drop")
         given(i) == Cardinality({k \in DOMAIN sentQueue :
                        /\ sentQueue[k].if = i /\ ~sentQueue[k].retx
                        /\ Verdict(sentQueue[k]) # "keep"})
         newSent == [k \in DOMAIN kept |->
                        IF Verdict(kept[k]) = "resend" THEN ResendPacket(kept[k])
                                                      ELSE kept[k]]
     IN  /\ sentQueue' = newSent
         /\ outstanding' = [i \in Ifs |-> outstanding[i] - given(i)]
         /\ IF resent # <<>>
            THEN LET j == resent[1].if IN
                 /\ ssthresh' = [ssthresh EXCEPT ![j] = MAX(cwnd[j] \div 2, 1)]
                 /\ SetCwnd(j, 1)
            ELSE UNCHANGED <<ssthresh, cwnd, cwndFrac>>
         /\ toSendQueue' = toSendQueue \o
              [k \in DOMAIN resent |-> [tag |-> resent[k].tag, if |-> resent[k].if,
                                        shelf |-> resent[k].shelf, imm |-> TRUE]]
         /\ transmitTimer' = (transmitTimer \/ resent # <<>>)
         /\ retransmitTimer' = IF newSent # <<>> THEN EnableRetransmitTimer ELSE Off
  /\ UNCHANGED <<ifEnabled, filtered, interfacesInUse, maxOutstanding,
                 minMaxOutstanding, lastSend, idleTimer, rto, wire, prefChanges, prefs, calls, carrier, searches>>

\* IdleTimer -> EInterfaces::reset_if_idle(IDLE_DELAY_US): every enabled link
\* that has sent and then been silent for the idle delay gets cwnd 1,
\* ssthresh half its minimum buffer count, and its counter reset to 0.
IdleTimer ==
  /\ idleTimer = 0
  /\ LET idle(i) == ifEnabled[i] /\ Elapsed(lastSend[i], IdleDelay) IN
     /\ cwnd' = [i \in Ifs |-> IF idle(i) THEN 1 ELSE cwnd[i]]
     /\ cwndFrac' = [i \in Ifs |-> IF idle(i) THEN 0 ELSE cwndFrac[i]]
     /\ ssthresh' = [i \in Ifs |-> IF idle(i) THEN minMaxOutstanding[i] \div 2
                                               ELSE ssthresh[i]]
     /\ outstanding' = [i \in Ifs |-> IF idle(i) THEN 0 ELSE outstanding[i]]
  /\ idleTimer' = Off
  /\ UNCHANGED <<sentQueue, toSendQueue, ifEnabled, filtered, interfacesInUse,
                 maxOutstanding, minMaxOutstanding, lastSend, transmitTimer,
                 retransmitTimer, rto, wire, prefChanges, prefs, calls, carrier, searches>>

\* Time passes by one tick once every due timer has fired.
Older(a) == IF a = Unsent THEN a ELSE MIN(a + 1, SatAge)
CountDown(t) == IF t = Off THEN Off ELSE t - 1

Tick ==
  /\ ~transmitTimer /\ retransmitTimer # 0 /\ idleTimer # 0
  /\ sentQueue' = [k \in DOMAIN sentQueue |->
                     [sentQueue[k] EXCEPT !.first = Older(@), !.last = Older(@)]]
  /\ lastSend' = [i \in Ifs |-> Older(lastSend[i])]
  /\ retransmitTimer' = CountDown(retransmitTimer)
  /\ idleTimer' = CountDown(idleTimer)
  /\ UNCHANGED <<toSendQueue, ifEnabled, filtered, interfacesInUse, cwnd,
                 cwndFrac, ssthresh, outstanding, maxOutstanding,
                 minMaxOutstanding, transmitTimer, rto, wire, prefChanges, prefs, calls, carrier, searches>>

-----------------------------------------------------------------------------
(* Links and the preferences                                               *)

\* A plausible slip: only the sent queue is purged of the link's entries.
CgDisableInterfaceSentOnly(i) ==
  LET en == [ifEnabled EXCEPT ![i] = FALSE] IN
  /\ ifEnabled' = en
  /\ interfacesInUse' = interfacesInUse - 1
  /\ UNCHANGED toSendQueue
  /\ sentQueue' = SelectSeq(sentQueue, LAMBDA e : en[e.if])
  /\ transmitTimer' = TRUE
  /\ retransmitTimer' = EnableRetransmitTimer
  /\ UNCHANGED <<cwnd, cwndFrac, ssthresh, outstanding, maxOutstanding,
                 minMaxOutstanding, lastSend, idleTimer, rto, wire>>

\* cg_disable_interface: stop both timers, EInterfaces::interface_disconnected
\* (m_fEnabled FALSE, m_nInterfacesInUse decremented), purge both queues of
\* entries of links not in use, and re-arm both timers.  The counters of
\* purged entries are not given back (the reset after the sent-queue loop
\* is reached only with a NULL cursor).
CgDisableInterface(i) ==
  LET en == [ifEnabled EXCEPT ![i] = FALSE] IN
  /\ ifEnabled' = en
  /\ interfacesInUse' = interfacesInUse - 1
  /\ toSendQueue' = SelectSeq(toSendQueue, LAMBDA e : en[e.if])
  /\ sentQueue' = SelectSeq(sentQueue, LAMBDA e : en[e.if])
  /\ transmitTimer' = TRUE
  /\ retransmitTimer' = EnableRetransmitTimer
  /\ UNCHANGED <<cwnd, cwndFrac, ssthresh, outstanding, maxOutstanding,
                 minMaxOutstanding, lastSend, idleTimer, rto, wire>>

\* MAX_SUPPORTED_ETHERNET_CONNETIONS: aoeinterface_set clamps the port count.
MaxSupportedPorts == 6

Listed(q) == {q[k] : k \in DOMAIN q}

\* One call of aoeinterface_set for each port of q.
Calls(op, q) == [k \in DOMAIN q |-> [op |-> op, if |-> q[k]]]

\* A plausible slip: the removal loop looks the previous ports up in the
\* previous list, so no removed port is ever disabled.
PrefCallsNoRemoval(old, new) ==
  Calls("enable", SelectSeq(new, LAMBDA p : p \notin Listed(old)))
    \o Calls("disable", SelectSeq(old, LAMBDA p : p \notin Listed(old)))

\* The two loops of aoeinterface_set: c_enable_interface for each port of
\* the new list that the previous list lacks, in the new list's order, then
\* c_disable_interface for each previous port the new list lacks.
PrefCalls(old, new) ==
  Calls("enable", SelectSeq(new, LAMBDA p : p \notin Listed(old)))
    \o Calls("disable", SelectSeq(old, LAMBDA p : p \notin Listed(new)))

\* aoeinterface_set(AOEINTERFACE_PREFERENCES) on the client's thread: keep
\* the previous preferences, copy the new ones (at most six ports), and
\* make the calls of PrefCalls one by one.  The lists a client sends carry
\* the same transfer size, user window and config string, so the trailing
\* c_set_max_transfer_size, c_set_user_window and c_set_ourcstring leave
\* the transport as it is; c_update_target only reads the target list.
\* g_mutex, taken by aoeinterface_connect, admits one client at a time.
SetPreferences(new) ==
  LET cur == SubSeq(new, 1, MIN(Len(new), MaxSupportedPorts)) IN
  /\ calls = <<>>
  /\ prefChanges < MaxPrefChanges
  /\ prefChanges' = prefChanges + 1
  /\ prefs' = cur
  /\ calls' = PrefCalls(prefs, cur)
  /\ UNCHANGED <<sentQueue, toSendQueue, ifEnabled, filtered, interfacesInUse, cwnd,
                 cwndFrac, ssthresh, outstanding, maxOutstanding, minMaxOutstanding,
                 lastSend, transmitTimer, retransmitTimer, idleTimer, rto, wire,
                 searches, carrier>>

NextCall(op, i) == calls # <<>> /\ Head(calls) = [op |-> op, if |-> i]

\* c_enable_interface -> cg_enable_interface -> EInterfaces::enable_interface,
\* through the command gate: attach the filter (enable_filtering), count
\* the link in use unless it is enabled already, mark it enabled (whether
\* its carrier is up or not), reset cwnd, ssthresh and the outstanding
\* counter.
EnableInterface(i) ==
  /\ NextCall("enable", i)
  /\ calls' = Tail(calls)
  /\ filtered' = [filtered EXCEPT ![i] = TRUE]
  /\ ifEnabled' = [ifEnabled EXCEPT ![i] = TRUE]
  /\ interfacesInUse' = IF ifEnabled[i] THEN interfacesInUse ELSE interfacesInUse + 1
  /\ SetCwnd(i, 1)
  /\ ssthresh' = [ssthresh EXCEPT ![i] = minMaxOutstanding[i] \div 2]
  /\ outstanding' = [outstanding EXCEPT ![i] = 0]
  /\ UNCHANGED <<sentQueue, toSendQueue, maxOutstanding, minMaxOutstanding,
                 lastSend, transmitTimer, retransmitTimer, idleTimer, rto, wire,
                 prefChanges, searches, prefs, carrier>>

\* c_disable_interface -> disable_interface: interface_disconnected runs
\* cg_disable_interface through the command gate; disable_filtering follows
\* after the gate is released, as a call of its own.
DisableInterface(i) ==
  /\ NextCall("disable", i)
  /\ calls' = <<[op |-> "detach", if |-> i]>> \o Tail(calls)
  /\ CgDisableInterface(i)
  /\ UNCHANGED <<filtered, prefChanges, searches, prefs, carrier>>

\* disable_filtering: iflt_detach of the port's filter; no packet and no
\* link event of the port reaches the driver any more.
DetachFilter(i) ==
  /\ NextCall("detach", i)
  /\ calls' = Tail(calls)
  /\ filtered' = [filtered EXCEPT ![i] = FALSE]
  /\ UNCHANGED <<sentQueue, toSendQueue, ifEnabled, interfacesInUse, cwnd, cwndFrac,
                 ssthresh, outstanding, maxOutstanding, minMaxOutstanding, lastSend,
                 transmitTimer, retransmitTimer, idleTimer, rto, wire, prefChanges,
                 searches, prefs, carrier>>

\* The carrier drops: aoefilter_event_func, while the port's filter is
\* attached, passes KEV_DL_LINK_OFF to c_interface_disconnected, which runs
\* cg_disable_interface whether or not the link is enabled.
LinkOff(i) ==
  /\ LinkEvents /\ carrier[i]
  /\ carrier' = [carrier EXCEPT ![i] = FALSE]
  /\ IF filtered[i]
     THEN CgDisableInterface(i)
     ELSE UNCHANGED <<sentQueue, toSendQueue, ifEnabled, interfacesInUse, cwnd,
                      cwndFrac, ssthresh, outstanding, maxOutstanding,
                      minMaxOutstanding, lastSend, transmitTimer, retransmitTimer,
                      idleTimer, rto, wire>>
  /\ UNCHANGED <<filtered, prefChanges, searches, prefs, calls>>

\* The carrier comes back: KEV_DL_LINK_ON through an attached filter ->
\* interface_reconnected (called from the filter, not through the gate):
\* the link is marked enabled and counted again, nothing else is reset.
Reconnect(i) ==
  /\ LinkEvents /\ ~carrier[i]
  /\ carrier' = [carrier EXCEPT ![i] = TRUE]
  /\ IF filtered[i]
     THEN /\ ifEnabled' = [ifEnabled EXCEPT ![i] = TRUE]
          /\ interfacesInUse' = interfacesInUse + 1
     ELSE UNCHANGED <<ifEnabled, interfacesInUse>>
  /\ UNCHANGED <<sentQueue, toSendQueue, filtered, cwnd, cwndFrac, ssthresh,
                 outstanding, maxOutstanding, minMaxOutstanding, lastSend,
                 transmitTimer, retransmitTimer, idleTimer, rto, wire, prefChanges,
                 searches, prefs, calls>>

-----------------------------------------------------------------------------
(* Specification                                                           *)

Next ==
  \/ \E t \in DataTags, i \in Ifs, s \in Shelves : IssueRequest(t, i, s)
  \/ \E t \in BcastTags, i \in Ifs : Search(t, i)
  \/ TransmitTimer
  \/ \E t \in AllTags \cup {OnlineTag}, i \in Ifs, err \in ErrorFlags,
        r \in RtoValues, s \in Shelves, n \in BufCounts : Receive(t, i, err, r, s, n)
  \/ RetransmitTimer
  \/ IdleTimer
  \/ Tick
  \/ \E q \in PrefLists : SetPreferences(q)
  \/ \E i \in Ifs : EnableInterface(i) \/ DisableInterface(i) \/ DetachFilter(i)
  \/ \E i \in Ifs : LinkOff(i) \/ Reconnect(i)

\* A call of aoeinterface_set that is due.
PrefCall == \E i \in Ifs : EnableInterface(i) \/ DisableInterface(i) \/ DetachFilter(i)

\* The work loop runs every armed timer source once it is due, and time
\* advances whenever the work loop keeps becoming idle (SF: other events
\* may keep interrupting it); replies, requests and configuration changes
\* may never come; once a client has set new preferences, its thread keeps
\* making the calls, each waiting only for the command gate.
Fairness ==
  /\ WF_vars(TransmitTimer)
  /\ WF_vars(RetransmitTimer)
  /\ WF_vars(IdleTimer)
  /\ SF_vars(Tick)
  /\ WF_vars(PrefCall)

Spec == Init /\ [][Next]_vars /\ Fairness

-----------------------------------------------------------------------------
(* Properties                                                              *)

InFlight(i) ==
  {k \in DOMAIN sentQueue : /\ sentQueue[k].if = i
                            /\ sentQueue[k].first # Unsent
                            /\ ~sentQueue[k].retx}

TypeOK ==
  /\ sentQueue \in Seq(SentRec)
  /\ toSendQueue \in Seq(ToSendRec)
  /\ ifEnabled \in [Ifs -> BOOLEAN]
  /\ filtered \in [Ifs -> BOOLEAN]
  /\ interfacesInUse \in Int
  /\ cwnd \in [Ifs -> Int]
  /\ cwndFrac \in [Ifs -> Int]
  /\ ssthresh \in [Ifs -> Int]
  /\ outstanding \in [Ifs -> Int]
  /\ maxOutstanding \in [Ifs -> [Shelves -> BufCounts \cup {0}]]
  /\ minMaxOutstanding \in [Ifs -> BufCounts \cup {DefaultWindow}]
  /\ lastSend \in [Ifs -> Age]
  /\ transmitTimer \in BOOLEAN
  /\ retransmitTimer \in {Off} \cup 0 .. RtCeil
  /\ idleTimer \in {Off} \cup 0 .. IdleDelay
  /\ rto \in RtoValues \cup {RtoInit}
  /\ wire \subseteq AllTags \X Ifs
  /\ prefs \in Seq(Ifs)
  /\ calls \in Seq([op : {"enable", "disable", "detach"}, if : Ifs])
  /\ carrier \in [Ifs -> BOOLEAN]

\* The outstanding counter of an enabled link equals the number of its
\* requests that TransmitTimer put on the wire and that neither a reply
\* (cg_aoe_incoming), a drop nor a retransmit (RetransmitTimer) has given
\* back: the window check of TransmitTimer reads exactly that number.
OutstandingMatchesInFlight ==
  \A i \in Ifs : ifEnabled[i] => outstanding[i] = Cardinality(InFlight(i))

\* send_packet_from_queue: "a packet can only be in the send queue and not
\* in the sent queue if a packet is retransmit": every pending first
\* transmission still has its sent-queue record.
PendingHasRecord ==
  \A k \in DOMAIN toSendQueue :
    ~toSendQueue[k].imm => toSendQueue[k].tag \in TagsOf(sentQueue)

\* Every transmitted request is watched: while the sent queue holds an
\* entry that went on the wire, the retransmit timer is armed, so a lost
\* reply is noticed (RetransmitTimer, send_packet_from_queue and
\* cg_disable_interface re-arm it).
TransmittedIsWatched ==
  (\E k \in DOMAIN sentQueue : sentQueue[k].first # Unsent) => retransmitTimer # Off

\* The congestion window kept by grow_cwnd, set_cwnd and reset_if_idle is
\* at least 1 and its fraction stays below it.
CwndWellFormed ==
  \A i \in Ifs : cwnd[i] >= 1 /\ 0 <= cwndFrac[i] /\ cwndFrac[i] < cwnd[i]

\* The spec: the outstanding counter is never negative.
OutstandingNonNegative == \A i \in Ifs : outstanding[i] >= 0

\* The spec: the slow-start threshold is always at least 1.
SSThreshPositive == \A i \in Ifs : ssthresh[i] >= 1

\* m_nInterfacesInUse, published as the "Enabled Interfaces" property,
\* counts the links that are enabled.
InterfacesInUseCounts ==
  interfacesInUse = Cardinality({i \in Ifs : ifEnabled[i]})

\* Once a preference setting has made all its calls, a port has a packet
\* filter attached exactly when the preferences list it: the two loops of
\* aoeinterface_set, run over any sequence of settings and interleaved with
\* link events, attach each newly listed port's filter and detach each
\* dropped port's.
FiltersFollowPreferences ==
  calls = <<>> => \A i \in Ifs : filtered[i] <=> i \in Listed(prefs)

\* Once a preference setting has made all its calls, only listed ports are
\* enabled: a port dropped from the preferences is not used for sending.
EnabledOnlyIfListed ==
  calls = <<>> => \A i \in Ifs : ifEnabled[i] => i \in Listed(prefs)

\* Every ATA request handed to send_packet_on_interface eventually leaves
\* the sent queue, answered or dropped: none waits forever unsent or
\* unwatched.
ReliableRequestsResolve ==
  \A t \in DataTags : (t \in TagsOf(sentQueue)) ~> (t \notin TagsOf(sentQueue))

=============================================================================
