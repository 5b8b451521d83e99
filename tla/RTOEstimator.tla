---------------------------- MODULE RTOEstimator ----------------------------
(***************************************************************************)
(* The round-trip-time estimator of the transport: update_rto folds one    *)
(* RTT sample into the scaled average and variance (Jacobson/Karels), and  *)
(* get_rto_us turns the resulting m_nRTO_ns into the retransmit delay.     *)
(*                                                                         *)
(* The code mixes three integer types: the sample is a uint64_t, the       *)
(* average and variance are C ints, and m_nRTO_ns is a UInt64.  The model  *)
(* keeps every conversion between them, with the widths as constants      *)
(* (IntBits for int, UBits for the 64-bit unsigned type), so that the      *)
(* narrowing and sign extension of the code happen as they do on the       *)
(* machine.  Signed overflow, undefined in C, is the two's-complement wrap *)
(* the compiler emits; >> of a negative int is the arithmetic shift, i.e.  *)
(* floor division, which is what \div is in TLA+.                          *)
(*                                                                         *)
(* Beside the implementation the module runs the reference estimator of    *)
(* the specification in unbounded integers, on the same samples.           *)
(***************************************************************************)
EXTENDS Integers

CONSTANTS
    IntBits,      \* width of a C int
    UBits,        \* width of uint64_t / UInt64
    NsPerUs,      \* the divisor of CONVERT_NS_TO_US
    RtoMinNs,     \* RTO_MIN_NS
    RtoMaxNs,     \* RTO_MAX_NS, the initial m_nRTO_ns
    Samples,      \* the RTT values (ns) time_since_now_ns may return
    MaxSamples    \* bound on the number of samples folded in

ASSUME /\ UBits > IntBits
       /\ Samples \subseteq 0 .. 2^UBits - 1
       /\ MaxSamples \in Nat

VARIABLES
    rto,          \* m_nRTO_ns
    rttAvg,       \* m_nScaledRTTavg
    rttVar,       \* m_nScaledRTTvar
    refAvg, refVar, refRto,   \* the reference estimator
    nSamples,     \* samples folded in so far
    maxSample     \* largest sample so far

vars == <<rto, rttAvg, rttVar, refAvg, refVar, refRto, nSamples, maxSample>>

MAX(a, b) == IF a >= b THEN a ELSE b

(* Conversion of any integer to a C int: keep the low IntBits bits and    *)
(* read them in two's complement.                                         *)
ToInt(x) == ((x + 2^(IntBits-1)) % 2^IntBits) - 2^(IntBits-1)

(* Conversion of any integer to the 64-bit unsigned type (modulo).        *)
ToU(x) == x % 2^UBits

(* The arithmetic right shift of a C int.                                 *)
Shr(x, k) == x \div 2^k

(* CONVERT_NS_TO_US: (x+500)/1000 evaluated in UInt64.                    *)
ConvertNsToUs(x) == ToU(x + NsPerUs \div 2) \div NsPerUs

Init ==
    /\ rto = RtoMaxNs
    /\ rttAvg = 0
    /\ rttVar = 0
    /\ refAvg = 0
    /\ refVar = 0
    /\ refRto = RtoMaxNs
    /\ nSamples = 0
    /\ maxSample = 0

(* The reference: the specification's estimator in unbounded integers.    *)
RefUpdate(r) ==
    LET err1 == r - refAvg
        avg  == refAvg + Shr(err1, 3)
        err2 == (IF err1 < 0 THEN -err1 ELSE err1) - refVar
        var  == refVar + Shr(err2, 2)
    IN  /\ refAvg' = avg
        /\ refVar' = var
        /\ refRto' = avg + 4 * var

(* Mutant: the absolute value of the error is not taken.                  *)
UpdateRtoNoAbs(r) ==
    LET err1 == ToInt(ToU(r - rttAvg))
        avg  == ToInt(rttAvg + Shr(err1, 3))
        err2 == ToInt(err1 - rttVar)
        var  == ToInt(rttVar + Shr(err2, 2))
    IN  /\ rttAvg' = avg
        /\ rttVar' = var
        /\ rto' = ToU(ToInt(avg + ToInt(var * 4)))

(* update_rto(nRTT): nRTT - m_nScaledRTTavg is computed in uint64_t and   *)
(* narrowed to int; every later step is int arithmetic; the final int is  *)
(* sign-extended into the UInt64 m_nRTO_ns.                               *)
UpdateRto(r) ==
    LET err1 == ToInt(ToU(r - rttAvg))
        avg  == ToInt(rttAvg + Shr(err1, 3))
        abs  == IF err1 < 0 THEN ToInt(-err1) ELSE err1
        err2 == ToInt(abs - rttVar)
        var  == ToInt(rttVar + Shr(err2, 2))
    IN  /\ rttAvg' = avg
        /\ rttVar' = var
        /\ rto' = ToU(ToInt(avg + ToInt(var * 4)))

(* A reply to a request that was never retransmitted yields one sample.   *)
Sample(r) ==
    /\ nSamples < MaxSamples
    /\ UpdateRto(r)
    /\ RefUpdate(r)
    /\ nSamples' = nSamples + 1
    /\ maxSample' = MAX(maxSample, r)

(* get_rto_us: CONVERT_NS_TO_US(MAX(m_nRTO_ns, RTO_MIN_NS)).              *)
GetRtoUs == ConvertNsToUs(MAX(rto, RtoMinNs))

Next == \E r \in Samples : Sample(r)

Spec == Init /\ [][Next]_vars

-----------------------------------------------------------------------------
(* Largest sample for which the int arithmetic cannot overflow: the       *)
(* average stays within the samples and the variance within their         *)
(* spread, so avg + 4*var stays below 5 times the largest sample.         *)
SafeSample == (2^(IntBits-1) - 1) \div 5

(* update_rto reproduces the specification's integer-shift estimator      *)
(* exactly (average, variance and RTO), for any history of RTT samples.   *)
EstimatorExact ==
    /\ rttAvg = refAvg
    /\ rttVar = refVar
    /\ rto = refRto

(* update_rto reproduces the specification's estimator exactly for every  *)
(* history of samples no larger than SafeSample: the int narrowing of     *)
(* nRTT - m_nScaledRTTavg, the shifts of negative errors and var<<2 never *)
(* lose information there.                                                *)
RtoMatchesReference == maxSample <= SafeSample => EstimatorExact
=============================================================================
