\* Six turns, two calls a drive and one forced retry.
CONSTANTS
  NotAuthored = NotAuthored
  ItemName = {"T", "S", "T for S", "m"}
  MaxFileLines = 2
  MaxSpecLines = 1
  Lookups = {"search_crates", "cargo_test"}
  Asked = {{"T"}}
  Paths <- MCPaths
  Turn <- MCTurns
  Notes <- MCNotes
  Texts <- MCTexts
  Edits <- MCEdits
  EntryLists <- MCEntryLists
  PatchLists <- MCPatchLists
  Neighbour <- MCNeighbour
  ToolRetryBudget = 1
  LoopThreshold = 2
  LoopWindow = 8
  MaxCalls = 2
SPECIFICATION MCSpec
INVARIANTS
  ValidSlots
  EligibleToolsWork
PROPERTIES
  WritesStayInStage
  
\* A session ends.
CHECK_DEADLOCK FALSE
