CONSTANTS
  Tasks = {t1, t2, t3}
  Idle = idle
SPECIFICATION FairSpec
INVARIANTS
  HandlersSeeRunning
  OwnStackAndMemory
  InitContextKept
PROPERTIES
  ImplementsRunQueue
  EveryTaskRuns
