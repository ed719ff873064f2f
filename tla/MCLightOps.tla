----------------------------- MODULE MCLightOps -----------------------------
(***************************************************************************)
(* Values for the constants of LightOps.                                   *)
(***************************************************************************)
EXTENDS LightOps, TLC

CONSTANTS a1, p1, z1

Blank     == [zone |-> None, assessment |-> None, plan |-> None]
Prefilled == [zone |-> z1, assessment |-> a1, plan |-> p1]

\* A caller fills in nothing, or everything before it exists.
AllIntakes == {Blank, Prefilled}

\* Prefilled names a plan, an assessment and a zone, so these ids are not
\* interchangeable; the others are.
Interchangeable == Permutations(ComplaintIDs) \cup Permutations(Districts)
=============================================================================
