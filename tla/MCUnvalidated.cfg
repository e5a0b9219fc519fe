\* The defaults of config.py, one call at a time.
CONSTANTS
  MaxToolCalls = 12
  MaxReplan = 2
  StuckLimit = 3
  MaxBatch = 1
  MaxPlaces = 2
  Errors = {"travel_cap", "no_anchor"}
  LlmNames <- EveryName
SPECIFICATION Spec
INVARIANT NoCompletionWithoutValidation
CHECK_DEADLOCK FALSE
