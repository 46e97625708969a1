\* A spec and an impl, a commit of main that fails, a checkout of main that
\* fails, and a reset by the operator.
CONSTANTS
  spec = spec
  code = code
  third = third
  NoTask = NoTask
  Operator = Operator
  Task <- SpecAndCode
  SpecTasks <- OneSpec
  Rewriters = {code}
  Content = {1}
  MaxAttempts = 1
  MaxQuickfix = 0
  CommitFaults = 1
  CheckoutFaults = 1
  Crashes = 0
  Resets = 1
SPECIFICATION FairSpec
PROPERTIES
  TasksEnd
\* Every task ends, and then nothing moves.
CHECK_DEADLOCK FALSE
