\* The root and three nodes of one submit_architecture call, any of
\* them crates, and one submit_spec with any deps; on up to three nodes,
\* every dep graph, cyclic ones too.  Every lookup on each of them.
CONSTANTS
  NoNode = NoNode
  NoName = NoName
  Id = {1, 2, 3, 4}
  Name = {1, 2, 3, 4}
  MaxCalls = 1
  MaxDeps = 0
  MaxLinks = 1
  MaxMerged = 3
SPECIFICATION LookupSpec
CONSTRAINT InOrderOfEntry
INVARIANTS
  TopoOrderSound
  LookupsAgree
  
  
  
  ListedAreReadable
  
\* The calls are bounded.
CHECK_DEADLOCK FALSE
