CONSTANTS
  Tasks = {t1, t2, t3, t4}
  Idle = idle
SPECIFICATION FairPolicySpec
PROPERTY RunnableRuns
