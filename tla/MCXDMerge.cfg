SPECIFICATION Spec
CONSTANTS
  Source <- MCSource
  Windows <- MCWindows
  MaxWindows <- MCMaxWindows
  MaxArgs = 2
INVARIANTS MergesWhatFits MergedDecodes CutIsTold
CHECK_DEADLOCK FALSE
