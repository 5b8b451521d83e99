-------------------------- MODULE MC_AoETransport --------------------------
(* Model values and bounds for checking AoETransport with TLC.             *)
EXTENDS AoETransport

CONSTANTS e0, e1

\* Time scale: one tick is 1 ms.  RTO_MIN_NS = 1 ms, the RTO is capped at
\* MAX_RETRANSMIT_TIMEOUT_US = 5 ms (here 2 ticks, keeping the doubling
\* visible), the idle delay is three times the cap, so that a request in
\* flight is retransmitted before its link counts as idle even when one
\* preference change re-arms the retransmit timer at the cap, and the drop limit is
\* longer than the idle delay, as IDLE_DELAY_US (5 s) and
\* MAX_TIMEOUT_BEFORE_DROP_US (60 s) are.
MC_RtoMin == 1
MC_RtoInit == 2
MC_RetransmitCap == 2
MC_IdleDelay == 6
MC_DropAge == 7

\* The default window and the user window, scaled down.
MC_DefaultWindow == 4
MC_UserWindow == 2
MC_MaxCwnd == 3

\* Port lists of the preference settings: one port listed or dropped in
\* any order; a single setting listing one port, or both ports.
MC_PrefsOne == {<<e0>>, <<>>}
MC_PrefsFixed == {<<e0>>}
MC_PrefsBoth == {<<e0, e1>>}
=============================================================================
