CONSTANTS
  TTY_BUF_SIZE = 3
  Letters = {a, A}
  NL = nl
  BS = bs
  NUL = nul
  MaxCount = 3
  MaxLines = 3
  Shifts = {lshift, rshift}
  Ctrls = {lctrl}
  CAPSLOCK = caps
  CharKeys = {KA, KENTER, KBS}
  KA = KA
  KENTER = KENTER
  KBS = KBS
  a = a
  A = A
  ascii_map <- MCascii_map
  ascii_shift_map <- MCascii_shift_map
  Ranged = {KA, KENTER}
  VGA_WIDTH = 2
  VGA_HEIGHT = 2
  BLANK = blank
  MaxTyped = 4
  MAX_PIC_IRQ = 1
  BootId = 0
  NR_IRQS = 2
  IRQ_BASE = 32
  MaxEntry = 3
  Firmware <- MCFirmware
SPECIFICATION KeyboardSpec
CHECK_DEADLOCK FALSE
INVARIANTS
  ModifiersFollowKeys
  EchoIsTheLine
  CoresListed
  KeyboardWired
  NoByteStuck
PROPERTIES
  ImplementsLineQueue
