SPECIFICATION Spec
CONSTANTS
  Agents = {a1, a2}
  Requester = r
  Capabilities = 1
  MaxRenegotiations = 1
  MaxRounds = 1
  MaxValidations = 1
  Validated = TRUE
  Faulty = FALSE
  Declining = FALSE
SYMMETRY Symmetry
PROPERTY ApprovedIsExecuted
CHECK_DEADLOCK FALSE
