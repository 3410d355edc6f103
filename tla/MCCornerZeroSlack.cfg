SPECIFICATION TimingSpec
CONSTANTS
  NumCorners = 2
  Files = {1, 2}
  Slacks <- WithZero
  Infinity = 9
  Threads = 2
  Former = {5}
  Selections <- MCSelections
  Pasts <- MCPasts
INVARIANTS WorstIsWorst
CHECK_DEADLOCK FALSE
