\* Two tasks, a channel of one slot, one blank read and one broken connection.
CONSTANTS
  Task = {t1, t2}
  Capacity = 1
  HeadMin = 2
  Cap = 4
  MaxWrites = 2
  MaxEntries = 7
  MaxBlank = 1
  MaxBreaks = 1
SPECIFICATION FairSpec
CONSTRAINT Apart
INVARIANTS
  TranscriptKeepsEnds
PROPERTIES
  GraphNeverBlank
  PageCatchesUp
\* The engine rests in the end; a page that is up to date may too.
CHECK_DEADLOCK FALSE
