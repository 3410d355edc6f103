\* Steps queue up, wait and finish in any order, and any of them may fail.
SPECIFICATION FlowSpec
CONSTANTS
  NumStrategies = 3
  Areas <- MCAreas
  Workers = 2
  NumTasks = 9
  Dep <- MCDep
INVARIANTS
  NeverStuck
  StageEndsQuiet
  OutcomeIsFaithful
PROPERTIES
  ImplementsChoice
  FlowExits
\* The process exits.
CHECK_DEADLOCK FALSE
