SPECIFICATION Spec
CONSTANTS
  Agents = {a1, a2}
  Executors = {a1, a2}
  MaxSteps = 2
  MaxRetries = 2
  Slow = FALSE
  Failing = FALSE
  Faulty = FALSE
SYMMETRY Symmetry
INVARIANT ReportedWasAllowed
CHECK_DEADLOCK FALSE
