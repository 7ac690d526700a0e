SPECIFICATION MCSpec
CONSTANTS
  Jobs = {j1}
  TokenCounts = {1, 16, 34, 35, 64, 128, 256}
  NetworkLatencies = {0, 100, 500, 5000}
  Requests <- RequestsAndSweep
INVARIANTS
  RouterTypeOK PrivatePromptsStayOnEdge AnsweredWhereItRan FailuresHaveCauses
  LatencyOnlyIsFastest EnergyOnlyStaysOnEdge ServerChoiceIsMonotone
PROPERTY EveryRequestEnds
