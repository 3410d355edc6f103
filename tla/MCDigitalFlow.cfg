SPECIFICATION DigitalSpec
CONSTANTS
  Profiles <- MCProfiles
  Subs <- MCSubs
  Off <- MCOff
  Given <- MCGiven
  Tolerates <- MCTolerates
  Primary <- MCPrimary
  Designs <- MCDesigns
  Again <- MCAgain
  Fallible <- MCFallible
  MaxRuns = 2
  Access = "access"
  Cores <- MCCores
  Retried <- MCRetried
  MaxTries = 2
INVARIANTS
  RunIsJudgedByItsDesign
  SuccessIsOneDesign
  InputsAreFound
  SignedIsChecked
CHECK_DEADLOCK FALSE
