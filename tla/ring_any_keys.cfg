CONSTANTS
  TTY_BUF_SIZE = 4
  Letters = {a, b}
  NL = nl
  BS = bs
  NUL = nul
  MaxCount = 3
  MaxLines = 3
SPECIFICATION Spec
INVARIANT LinesCounted
