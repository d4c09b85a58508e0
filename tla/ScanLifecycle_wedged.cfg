CONSTANTS
  d1 = d1
  d2 = d2
  o1 = o1
  t1 = t1
  t2 = t2
  q1 = q1
  Dispatches = {d1}
  Operators = {}
  Targets = {t1}
  Qids = {q1}
  Faults = {"loss"}
SPECIFICATION FairSpec
CHECK_DEADLOCK FALSE
PROPERTY NeverWedged
