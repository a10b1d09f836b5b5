SPECIFICATION FairSpec
CONSTANTS
  Agents = {a1, a2, a3}
  Executors = {a1, a2}
  MaxSteps = 2
  MaxRetries = 2
  Slow = TRUE
  Failing = FALSE
  Faulty = TRUE
INVARIANT TypeOK
INVARIANT NoStaleFuture
INVARIANT AnswersAreOwn
INVARIANT DispatchesBounded
PROPERTY KeepsPromise
PROPERTY RunAdvances
PROPERTY RunEnds
