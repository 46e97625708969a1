\* Two specs at a time, each adding one dep that its own worktree accepts.
CONSTANTS
  NoNode = NoNode
  Root = r
  Node = {r, a, b}
  Slots = {s1, s2}
  Trees <- FlatTrees
  MaxRetries = 0
  MaxTasksTotal = 100
  MaxLateDeps = 1
  CostCap = FALSE
  MaxDeaths = 0
  MaxCrashes = 0
SPECIFICATION Spec
INVARIANTS
  DepsAcyclic
\* Engine::run returns, and then nothing moves.
CHECK_DEADLOCK FALSE
