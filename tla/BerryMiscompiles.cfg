\* A program ends.
CHECK_DEADLOCK FALSE
CONSTANTS
  Programs <- BrokenPrograms
  Compiled <- MCCompiled
  Meaning <- MCMeaning
  StackSize = 50
  FreeMin = 10
  MaxAnswers = 2
SPECIFICATION Script
INVARIANT AsWritten
