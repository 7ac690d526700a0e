SPECIFICATION Spec
CONSTANTS
  Requests = 3
  EarlierLines <- OldLines
  MaxSessions = 3
INVARIANTS SavedRowPerRequest FreshFile
PROPERTY EarlierRunsPreserved
CHECK_DEADLOCK FALSE
