SPECIFICATION FairSpec
CONSTANTS
  Agents = {a1, a2}
  Requester = r
  Capabilities = 1
  MaxRenegotiations = 1
  MaxRounds = 1
  MaxValidations = 1
  Validated = FALSE
  Faulty = FALSE
  Declining = FALSE
INVARIANT NeverStranded
PROPERTY SessionAdvances
PROPERTY Terminates
