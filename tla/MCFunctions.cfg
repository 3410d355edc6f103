CONSTANTS
  Number = {"1"}
  Name = {"$A"}
  Vars <- MCVars
  Known <- MCKnown
  PdkGives <- MCPdkGives
  FileSets <- MCFileSets
  Arguments <- MCArguments
  Inputs <- MCInputs
  Contracts <- MCContracts
SPECIFICATION MCSpec
INVARIANTS LastWordWins ReloadIsIdentity NeverMiscalculated PassIsEvidence PassIsWhole EveryMobilityIsScaled
CHECK_DEADLOCK FALSE
