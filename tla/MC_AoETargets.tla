--------------------------- MODULE MC_AoETargets ---------------------------
(***************************************************************************)
(* Instances of AoETargets: two targets, one cabled to both host           *)
(* interfaces and one to the second only; config strings of up to three   *)
(* bytes over the characters 1 and 2; a target ages out after one tick.  *)
(***************************************************************************)
EXTENDS AoETargets

CONSTANTS t1, t2, l1, l2

MC_Slots == {t1, t2}
MC_Links == {l1, l2}
MC_TargetLinks == (t1 :> {l1, l2}) @@ (t2 :> {l2})
\* the user toggles the interface both targets share
MC_Switched == {l2}

\* this host's config string "ab"
MC_Ours == <<1, 2>>
\* the user claims a target ("ab") or releases it ("")
MC_OurStrings == {<<1, 2>>, <<>>}
\* another initiator claims "b" or releases, sending the NUL as this
\* driver's set_config_string does
MC_ForeignTerminated == {<<2, NUL>>}
\* another initiator claims "a" with cslen 1 and no NUL
MC_ForeignUnterminated == {<<1>>}
\* targets start out claimed by "b"
MC_InitForeign == {<<2, NUL>>}
=============================================================================
