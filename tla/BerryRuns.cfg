\* A program ends.
CHECK_DEADLOCK FALSE
CONSTANTS
  Programs <- AllPrograms
  Compiled <- MCCompiled
  Meaning <- MCMeaning
  StackSize = 50
  FreeMin = 10
  MaxAnswers = 2
SPECIFICATION Script
INVARIANTS
  TypeOK
  RunsAsWritten
  HandlersBelongToCalls
  RegistersAreReserved
PROPERTIES
  ReturnClosesUpvalues
  Ends
