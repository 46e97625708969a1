\* Two tasks with two contents each, a quickfix turn, and a reset by the
\* operator at any moment.
CONSTANTS
  spec = spec
  code = code
  third = third
  NoTask = NoTask
  Operator = Operator
  Task <- TwoCode
  SpecTasks <- NoSpec
  Rewriters = {}
  Content = {1, 2}
  MaxAttempts = 1
  MaxQuickfix = 1
  CommitFaults = 0
  CheckoutFaults = 0
  Crashes = 0
  Resets = 1
SPECIFICATION Spec
SYMMETRY Interchangeable
INVARIANTS
  TypeOK
  ForwardDescends
  FilesAreHead
PROPERTIES
  MainMovesAsGated
\* Every task ends, and then nothing moves.
CHECK_DEADLOCK FALSE
