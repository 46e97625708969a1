\* The root and a child, two tasks at a time, a retry, a task that dies, caps on
\* cost and tasks, and a process that is killed anywhere, or has returned, and
\* is restarted in its workdir.
CONSTANTS
  NoNode = NoNode
  Root = r
  Node = {r, a}
  Slots = {s1, s2}
  Trees <- SmallTrees
  MaxRetries = 1
  MaxTasksTotal = 8
  MaxLateDeps = 0
  CostCap = TRUE
  MaxDeaths = 1
  MaxCrashes = 1
SPECIFICATION FairSpec
INVARIANTS
  
  OkMeansBuilt
  TaskCapOvershoot
PROPERTIES
  FinishedIsFinal
  ImplementsBoard
  AlwaysReturns
\* Engine::run returns, and then nothing moves.
CHECK_DEADLOCK FALSE
