--------------------------- MODULE MCScanLifecycle ---------------------------
(***************************************************************************)
(* Finite values for ScanLifecycle.                                        *)
(***************************************************************************)
EXTENDS ScanLifecycle, TLC

CONSTANTS d1, d2, o1, t1, t2, q1

\* Dispatches do not differ, nor do targets: used by the safety runs only.
Symmetry == Permutations(Dispatches) \cup Permutations(Targets)
=============================================================================
