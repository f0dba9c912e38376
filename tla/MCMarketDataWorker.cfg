CONSTANTS
  A = A
  B = B
  NoId = NoId
  Ids = {i1, i2}
  Symbols = {A, B}
  Kinds <- MCKinds
  HighCapacity = 2
  ResultDepth = 1
  CurrentTtl = 1
  BackgroundTtl = 1
  ProbeTtl = 2
  IntradayTtl = 2
  CycleTtl = 1
  MaxAttempts = 3
  RetryDelays <- MCRetryDelays
  WordSize = 1000
  AgeCap = 4
  MaxLag = 1
  AllocMayFail = TRUE
SPECIFICATION FairSpec
INVARIANTS HeldOnce OneWaitingPerKey FetchBudget
PROPERTIES OnlyNewWorkDisplaces UrgentFirst ImplementsBroker EveryRequestAnswered
