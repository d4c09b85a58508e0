----------------------------- MODULE MCReportGate -----------------------------
(***************************************************************************)
(* Finite values for ReportGate.                                           *)
(***************************************************************************)
EXTENDS ReportGate, TLC

CONSTANTS a1, a2, v1, v2, k1, c1, c2, noVersion

\* All versions belong to scope set 1.
OneSet == {1}
InOneSet == [v \in Versions |-> 1]

\* With a single scope set neither its versions nor the assets differ.
Symmetry == Permutations(Versions) \cup Permutations(Assets)
===============================================================================
