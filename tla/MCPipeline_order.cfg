\* Every tree add_child and add_dep can build over three nodes, two tasks at
\* a time, a dep more from each spec, every stage free to succeed or fail.
CONSTANTS
  NoNode = NoNode
  Root = r
  Node = {r, a, b}
  Slots = {s1, s2}
  Trees <- BuildableTrees
  MaxRetries = 0
  MaxTasksTotal = 100
  MaxLateDeps = 1
  CostCap = FALSE
  MaxDeaths = 0
  MaxCrashes = 0
SPECIFICATION Spec
SYMMETRY Symmetry
INVARIANTS
  DependencyOrder
  
  
  BuildsUnlessBlocked
\* Engine::run returns, and then nothing moves.
CHECK_DEADLOCK FALSE
