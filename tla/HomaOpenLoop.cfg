CONSTANTS
  NumRequests = 3
  Warmup = 1
  Word = 8
SPECIFICATION FairSpec
INVARIANTS SampledOnce NothingElseUnmeasured
PROPERTY Termination
