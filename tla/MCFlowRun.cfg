\* The core safety and liveness of sequential flows sharing a run directory.
SPECIFICATION FairSpec
CONSTANTS
  NumSteps = 3
  MaxParts = 2
  Parts <- MCParts
  Requests <- MCRequests
  Abroad <- MCAbroad
  MaxFiles = 2
  MaxRuns = 3
INVARIANTS
  OnlyFinishedViews
  CarriesOwnResults
  SuccessRunsSelection
PROPERTIES
  FinalNeverGoesBack
  ImplementsJournal
  RunConcludes
\* MaxRuns bounds the invocations: after the last of them nothing is left to do.
CHECK_DEADLOCK FALSE
