CONSTANTS
  Tasks = {t1, t2}
  Idle = idle
SPECIFICATION Spec
INVARIANT GsMatchesMode
