SPECIFICATION Spec
CONSTANTS
  None = None
  NoKey = NoKey
  NoItem = NoItem
  Doc <- SmallDocs
  Schema <- SmallSchemas
  Namespace <- NamespaceOf
  WellFormed <- WellFormedTexts
  Key <- Keys
  KeyFields <- KeyFieldsOf
  ChunkSize = 2
INVARIANTS
  ExtractedAsWanted
  OptionsPutBack
  LaterReadingStays
  DistinctKeys
PROPERTIES
  WritesInChunks
CHECK_DEADLOCK FALSE
