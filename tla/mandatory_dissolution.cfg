SPECIFICATION FairSpec
CONSTANTS
  Agents = {a1}
  Requester = r
  Capabilities = 1
  MaxRenegotiations = 0
  MaxRounds = 1
  MaxValidations = 1
  Validated = TRUE
  Faulty = TRUE
  Declining = FALSE
PROPERTY AnsweredIsDissolved
CHECK_DEADLOCK FALSE
