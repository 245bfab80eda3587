SPECIFICATION Spec
CONSTANTS
  None = None
  Ev <- EvDef
  Letters = {"d", "e", "p", "z"}
  PriorityTags = {"d", "e", "p"}
  TagCap = 2
  PriorityAuthors = {}
  MaxAuthorCursors = 3
  MaxKindCursors = 2
  MaxInParams = 2
  MaxSize = 2
  Strategy = "LFU"
  Clock = {0, 2}
  IdChunkSize = 1
  IdLists <- IdListsDef
  Reads <- ReadsDef
  Window <- WindowDef
  MaxEvents = 3
  MaxCalls = 2
INVARIANT HonestReads
PROPERTY ImplementsTable
