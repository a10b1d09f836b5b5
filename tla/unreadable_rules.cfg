SPECIFICATION GovernanceSpec
CONSTANTS
  Ranks = {1, 2}
  RuleShapes <- MCRules
INVARIANT UnreadableDenies
CHECK_DEADLOCK FALSE
