SPECIFICATION Spec
CONSTANTS
  Targets = {t1, t2}
  MaxSockets = 4
  None = None
INVARIANTS OneLiveSession EndedIsCleared
PROPERTIES OnlyLateCloseHides
CHECK_DEADLOCK FALSE
