CONSTANTS
  Cases <- MCCases
  Classes <- MCClasses
  Options <- MCOptions
  Faults <- MCFaults
  MaxRev <- MCMaxRev
  MaxRuns = 2
SPECIFICATION Spec
INVARIANTS ExitZeroIsEarned SummaryAgrees
PROPERTY RunEnds
CHECK_DEADLOCK FALSE
