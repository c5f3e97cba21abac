\* Two memories, a document indexed up to twice, a restart anywhere.
CONSTANTS
  Rules = {"signature"}
  MaxMemories = 2
  MaxCrashes = 1
  NoMemory = NoMemory
  Torn = Torn
  DocumentIds = {"d"}
  Texts <- MCTexts
  ChunkSize = 10
  ContextWindow = 6
  MaxIndexings = 2
  NotIndexed = NotIndexed
SPECIFICATION RetrievalSpec
INVARIANTS
  PromotedThroughPolicy
  StoreMatchesFiles
  BuildIndexesAll
  ChunksCoverText
