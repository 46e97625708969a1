\* A spec and an impl, a retry, a quickfix turn, and a crash at any step.
CONSTANTS
  spec = spec
  code = code
  third = third
  NoTask = NoTask
  Operator = Operator
  Task <- SpecAndCode
  SpecTasks <- OneSpec
  Rewriters = {code}
  Content = {1}
  MaxAttempts = 2
  MaxQuickfix = 1
  CommitFaults = 0
  CheckoutFaults = 0
  Crashes = 1
  Resets = 0
SPECIFICATION FairSpec
INVARIANTS
  SpecIsAuthored
  StartsFresh
  DoneIsLanded
PROPERTIES
  ImplementsMainLine
  EveryStageSettles
\* Every task ends, and then nothing moves.
CHECK_DEADLOCK FALSE
