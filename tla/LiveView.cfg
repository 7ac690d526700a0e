SPECIFICATION MCSpec
CONSTANTS
  MAX_RECORDS = 2
  Refreshes = {r1, r2}
  MaxFrames = 3
  MaxUpsets = 1
INVARIANTS ViewTypeOK RecordsInOrder OnlyTornLinesAreLost
PROPERTIES PageCatchesUp LogReachesPage
