SPECIFICATION Spec
CONSTANTS
  Agents = {a1}
  Requester = r
  Capabilities = 1
  MaxRenegotiations = 2
  MaxRounds = 1
  MaxValidations = 3
  Validated = TRUE
  Faulty = TRUE
  Declining = TRUE
INVARIANT RoundsBounded
INVARIANT ArchiveAgrees
PROPERTY KeepsContract
CHECK_DEADLOCK FALSE
