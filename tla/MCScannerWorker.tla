--------------------------- MODULE MCScannerWorker ---------------------------
(***************************************************************************)
(* Finite values for ScannerWorker: two targets t1 and t2.                 *)
(***************************************************************************)
EXTENDS ScannerWorker

CONSTANTS t1, t2

\* Every message is delivered once.
Once == {<<t1, 1>>, <<t2, 1>>}

\* The message of t1 is delivered a second time.
FirstTwice == Once \cup {<<t1, 2>>}
=============================================================================
