\* Two client workers with two requests each, one of them warm-up, and two
\* server threads.
CONSTANTS
  Concurrency = 2
  NumRequests = 2
  Warmup = 2
  Threads = {t1, t2}
SPECIFICATION FairSpec
INVARIANTS CountsAgree StopFinishesRequests
PROPERTIES StopTerminates EndsUnlessUnserved ImplementsBenchmarkRun
