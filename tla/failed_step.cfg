SPECIFICATION Spec
CONSTANTS
  Agents = {a1, a2}
  Executors = {a1, a2}
  MaxSteps = 2
  MaxRetries = 2
  Slow = FALSE
  Failing = TRUE
  Faulty = FALSE
SYMMETRY Symmetry
INVARIANT FailedStepFails
CHECK_DEADLOCK FALSE
