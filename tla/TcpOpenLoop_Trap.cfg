\* The usage text: --scheduling size_aware with the default --pool-size 1.
CONSTANTS
  PoolSize = 1
  CounterMod = 8
  NumRequests = 1
  Warmup = 0
  Sizes = {1024}
SPECIFICATION Spec
INVARIANT EveryPolicyRuns
