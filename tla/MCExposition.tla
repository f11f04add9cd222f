---------------------------- MODULE MCExposition ----------------------------
(***************************************************************************)
(* Instances of Exposition for TLC.                                        *)
(***************************************************************************)
EXTENDS Exposition

CONSTANTS a, b

TwoLabels == {a, b}

\* A total before its breakdown, a total after its breakdown, and no total.
AllEndpoints == {"sessions", "libraries", "counts", "system"}
=============================================================================
