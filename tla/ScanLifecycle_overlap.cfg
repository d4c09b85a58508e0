CONSTANTS
  d1 = d1
  d2 = d2
  o1 = o1
  t1 = t1
  t2 = t2
  q1 = q1
  Dispatches = {d1}
  Operators = {o1}
  Targets = {t1}
  Qids = {q1}
  Faults = {"loss", "expiry", "abort", "probe", "crash"}
SPECIFICATION Spec
SYMMETRY Symmetry
INVARIANTS
  TypeOK
  CompletedHasFindings
  DoneIsRecorded
PROPERTIES
  RowRefinement
