\* Two connections that may fail; neither the requests nor the warm-up divide
\* evenly.
CONSTANTS
  PoolSize = 2
  NumRequests = 5
  Warmup = 3
  Sizes = {1, 3}
  CounterMod = 8
SPECIFICATION FairSpec
INVARIANTS SplitAddsUp
PROPERTIES ImplementsBenchmarkRun EndsUnlessUnanswered
