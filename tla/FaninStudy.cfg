SPECIFICATION Spec
CONSTANTS
  FanIns <- MCFanIns
  Trials = 2
  Trees <- MCTrees
  Values = {0, 7}
  MaxExperiments = 2
  MaxRuns = 2
INVARIANTS
  AveragedFromTrials
  AveragedUnlessBaseMissing
  FiguresTogether
  ReportAndFiguresAgree
