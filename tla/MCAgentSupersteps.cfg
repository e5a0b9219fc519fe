\* The defaults of config.py.  Batches long enough to overshoot the tool budget
\* and to validate and finish in one go; two error lists tell two verdicts apart.
CONSTANTS
  MaxToolCalls = 12
  MaxReplan = 2
  StuckLimit = 3
  MaxBatch = 2
  MaxPlaces = 2
  Errors = {"travel_cap", "no_anchor"}
  LlmNames <- EveryName
SPECIFICATION FairSSpec
INVARIANTS
  TypeOK
  BudgetAborts
  SettledInWrapUp
  PassedIsCurrent
  CompletionIsJustified
  ReplanIsEarned
  ValidateHasSchedule
  EndsInFinal
  StepsBounded
  RegisteredNamesSuffice
PROPERTIES
  Terminates
  ImplementsContract
\* A generation ends.
CHECK_DEADLOCK FALSE
