SPECIFICATION MCSpec
CONSTANTS
  Report = {min, max}
  Metric = {ws}
  NoReport = NoReport
  MaxLines = 4
  PipeSize = 2
  BufferSize = 2
  NumCorners = 4
  Files = {1, 2, 3}
  Slacks <- NonZero
  Infinity = 9
  Threads = 2
  Former = {5}
  Selections <- MCSelections
  Pasts <- MCPasts
INVARIANTS
  ResultReflectsOutput TailIsLast NothingLeftRunning VerdictTellsWhy
  WorstIsWorst SameWhateverTheOrder SelectionIsJudged
PROPERTIES Ends AnalysesEnd
CHECK_DEADLOCK FALSE
