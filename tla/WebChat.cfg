SPECIFICATION PageSpec
CONSTANTS
  Jobs = {j1, j2}
  Requests <- Prompts
SYMMETRY Interchangeable
INVARIANTS LoadingMeansPending ButtonComesBack PrivateChatStaysOnEdge
