SPECIFICATION Spec
CONSTANTS
  WordBits = 28
  BlkSize = 16
  MaxWinSize = 16
  WinSize = 32
  LLook = 6
  LStep = 2
  SChain = 4
  SLChain = 2
  MaxLazy = 12
  LongEnough = 12
  SPrevSize = 32
  Buckets = 13
  PageSize = 16
  HardMaxWinSize = 64
  Space <- MCSpace
  Expand <- MCExpand
  Cases <- MCCases
  Damages <- MCDamages
INVARIANTS BufferInOrder EncodedExactly CopiesWhatIsThere
PROPERTIES KeepsContract Ends
CHECK_DEADLOCK FALSE
