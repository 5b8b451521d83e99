-------------------------- MODULE MC_RTOEstimator --------------------------
(***************************************************************************)
(* Scaled instance of RTOEstimator.  A C int of 12 bits stands for the     *)
(* 32-bit int and a 16-bit unsigned type for UInt64; one microsecond is    *)
(* 8 "nanoseconds".  The proportions that matter are kept: RTO_MIN_NS is   *)
(* a tenth of RTO_MAX_NS, both far below the int range, and UInt64 is     *)
(* wider than int.                                                         *)
(***************************************************************************)
EXTENDS RTOEstimator

MC_IntBits == 12
MC_UBits == 16
MC_NsPerUs == 8
\* RTO_MIN_NS = 1 ms, RTO_MAX_NS = 10 ms
MC_RtoMinNs == 16
MC_RtoMaxNs == 160
\* RTTs of a healthy link, up to the largest one the int arithmetic holds
MC_SafeSamples == {0, 5, 24, 160, SafeSample}
\* RTTs that include replies of 1 s and just under 2^31 ns, which
\* time_since_now_ns can return and the int narrowing wraps
MC_WideSamples == {0, 24, 160, 1000, 2047}
=============================================================================
