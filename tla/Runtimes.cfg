SPECIFICATION RuntimeSpec
CONSTANTS
  prov1 = prov1
  prov2 = prov2
  c1 = c1
  c2 = c2
  k1 = k1
  k2 = k2
  Providers <- TwoProviders
  Setups <- AllSetups
  Timeout = 2
  Callers <- TwoCallers
  Keys <- TwoKeys
  Requests <- SomeRequests
  Tasks = {a, b, c}
  MaxWorkers = 2
  MaxRuns = 2
INVARIANT SubmissionsBounded
INVARIANT SuccessIsComplete
INVARIANT DispatchedOnce
INVARIANT AnswersStand
PROPERTY RunReturns
PROPERTY CallReturns
CHECK_DEADLOCK FALSE
