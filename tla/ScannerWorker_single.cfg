CONSTANTS
  t1 = t1
  t2 = t2
  Targets = {t1, t2}
  Executions <- Once
  Broker = "celery"
  Faults = {"probe", "db", "kill", "publish"}
SPECIFICATION Spec
CHECK_DEADLOCK FALSE
INVARIANTS
  TypeOK
  ResultSound
PROPERTY FinalIsFinal
