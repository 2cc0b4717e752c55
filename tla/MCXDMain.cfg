SPECIFICATION Spec
CONSTANTS
  SrcWinSize = 4
  MaxLru = 2
  AllocSize = 1
  WinSize = 2
  MaxAsks = 5
  Cases <- MCCases
INVARIANTS BlocksServed SuccessIsComplete
PROPERTIES OpenedLate
CHECK_DEADLOCK FALSE
