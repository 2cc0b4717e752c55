SPECIFICATION ShellSpec
CONSTANTS
  Streams = {s1, s2, s3}
  Stems <- MCStems
  Titles <- MCTitles
  Data <- MCData
  Outputs <- MCOutputs
  Found <- MCFound
  Size <- MCSize
  MaxCalls = 2
SYMMETRY StreamSymmetry
INVARIANTS SameLibrary FinishedIsPatched NoneLeftOpen UsedAreOpen ApplyClosesOpen
