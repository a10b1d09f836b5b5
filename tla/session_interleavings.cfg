SPECIFICATION Spec
CONSTANTS
  Agents = {a1, a2}
  Requester = r
  Capabilities = 1
  MaxRenegotiations = 1
  MaxRounds = 1
  MaxValidations = 1
  Validated = FALSE
  Faulty = FALSE
  Declining = TRUE
SYMMETRY Symmetry
INVARIANT TypeOK
INVARIANT VettedPlans
INVARIANT DissolutionUnderway
PROPERTY NoResurrection
PROPERTY NoPlanAfterFarewell
CHECK_DEADLOCK FALSE
