\* A spec and a stage with quickfixes, side by side.
CONSTANTS
  spec = spec
  code = code
  NoTask = NoTask
  NoDeadline = NoDeadline
  Task <- MCTask
  ArchitectTask = {}
  SpecTask = {spec}
  CritiqueRetries = 1
  MaxQuickfix = 1
  ToolRetryBudget = 1
  MaxTransient = 1
  Backoff = 2
  Probe = 1
  MaxLimited = 2
SPECIFICATION FairSpec
INVARIANTS
  
  TurnBudget
PROPERTIES
  EveryAttemptEnds
\* Every attempt ends, and then nothing moves.
CHECK_DEADLOCK FALSE
