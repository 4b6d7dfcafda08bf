\* Two connections that may fail, four requests, one of them warm-up, sizes at
\* the threshold, every policy.
CONSTANTS
  PoolSize = 2
  CounterMod = 8
  NumRequests = 3
  Warmup = 1
  Sizes = {4096, 4097}
SPECIFICATION FairSpec
INVARIANTS
  FifoExactlyOnce NoRequestLeftBehind ReportExact
  RequestsOnOpenConnections SizeIsolation RoundRobinBalanced
PROPERTIES ImplementsBenchmarkRun EndsUnlessUnanswered
