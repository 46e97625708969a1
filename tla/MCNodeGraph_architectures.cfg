\* The root and three nodes, built by up to two submit_architecture calls, the
\* second of which may reuse names, and one submit_spec with any set of deps.
CONSTANTS
  NoNode = NoNode
  NoName = NoName
  Id = {1, 2, 3, 4}
  Name = {1, 2, 3, 4}
  MaxCalls = 2
  MaxDeps = 2
  MaxLinks = 1
SPECIFICATION Spec
CONSTRAINT Canonical
INVARIANTS
  NodesAcyclic
  CratesAcyclic
  AllOrNothing
\* The calls are bounded.
CHECK_DEADLOCK FALSE
