---------------------------- MODULE AoERegistry ----------------------------
(***************************************************************************)
(* What the target registry promises, in the spec's terms: a target is    *)
(* known once its first config reply has been seen, with a number no      *)
(* other known target has (1..|Slots|, as the control socket lists them), *)
(* and keeps that number until it is destroyed; it is exposed to the      *)
(* storage stack when it is discovered as ours or claimed, and it stops   *)
(* being exposed only by being destroyed.                                 *)
(***************************************************************************)
EXTENDS Naturals, FiniteSets, Functions

CONSTANTS Slots

VARIABLES
    known,      \* a function from the known targets to their numbers
    exposed     \* the known targets the storage stack sees

Numbers == 1..Cardinality(Slots)

Init == known = [s \in {} |-> 0] /\ exposed = {}

\* The first config reply of s: a fresh number; exposed if the string is ours.
Discover(s) ==
    /\ s \notin DOMAIN known
    /\ \E n \in Numbers \ Range(known), e \in BOOLEAN :
          /\ known' = [x \in DOMAIN known \cup {s} |->
                          IF x = s THEN n ELSE known[x]]
          /\ exposed' = IF e THEN exposed \cup {s} ELSE exposed

\* This host claims a known, hidden target.
Claim(s) ==
    /\ s \in DOMAIN known \ exposed
    /\ exposed' = exposed \cup {s}
    /\ UNCHANGED known

\* The target is destroyed: aged out, lost to another initiator or released.
Destroy(s) ==
    /\ s \in DOMAIN known
    /\ known' = Restrict(known, DOMAIN known \ {s})
    /\ exposed' = exposed \ {s}

Next == \E s \in Slots : Discover(s) \/ Claim(s) \/ Destroy(s)

Spec == Init /\ [][Next]_<<known, exposed>>

====
