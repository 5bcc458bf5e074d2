SPECIFICATION Spec
CONSTANTS
  Targets = {t1, t2}
  MaxSockets = 4
  None = None
INVARIANTS LiveIsShown
CHECK_DEADLOCK FALSE
