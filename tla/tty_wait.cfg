CONSTANTS
  Tasks = {t1, t2}
  Idle = idle
  Pid1 = t1
  TTY_BUF_SIZE = 3
  Letters = {a}
  NL = nl
  BS = bs
  NUL = nul
  TTY_BOUNCE_BUF_SIZE = 1
  MaxRead = 2
  MaxLines = 2
SPECIFICATION FairSpec
INVARIANTS
  WaitersAreWaiting
  NoLostWakeup
PROPERTIES
  ImplementsSched
  ImplementsRing
  LineDelivered
