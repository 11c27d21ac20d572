SPECIFICATION FairBuilderSpec
CONSTANTS
  Ids <- MCIds
  Powers = {0, 2}
  LoadFactors = {0, 110}
  Callbacks <- MCCallbacks
  FinalizerKinds = {"master"}
INVARIANTS
  AllServicesRun
  WellBuiltRuns
  FinalizersCalled
PROPERTIES
  RunsToEnd
\* a simulation ends
CHECK_DEADLOCK FALSE
