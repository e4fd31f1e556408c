CONSTANTS
  Tasks = {t1, t2}
  Idle = idle
  Pid1 = t1
  TTY_BUF_SIZE = 3
  Letters = {a}
  NL = nl
  BS = bs
  NUL = nul
  TTY_BOUNCE_BUF_SIZE = 1
  MaxRead = 2
  MaxLines = 1
SPECIFICATION FaultSpec
INVARIANT WaitersAreWaiting
