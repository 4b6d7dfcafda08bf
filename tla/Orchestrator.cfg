\* Two experiments with two clients each, and the plots.
CONSTANTS
  Clients = 2
  Length = 2
  Loss = {0, 1, 2}
  Plans <- MCPlans
  Leftovers <- MCLeftovers
SPECIFICATION FairStudy
INVARIANTS OwnResults WholeUnlessMisjudged LossAsLabelled FiguresAsLabelled
PROPERTIES EndsUnlessClientHangs
