CONSTANTS
  t1 = t1
  t2 = t2
  Targets = {t1, t2}
  Executions <- FirstTwice
  Broker = "celery"
  Faults = {"crash", "redeliver", "probe"}
SPECIFICATION FairSpec
CHECK_DEADLOCK FALSE
INVARIANT FinalizedByLast
PROPERTY Finalizes
