SPECIFICATION PageSpec
CONSTANTS
  Jobs = {j1}
  Requests <- Prompts
INVARIANT ErrorsAreShown
