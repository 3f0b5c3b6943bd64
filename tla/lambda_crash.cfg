SPECIFICATION Spec
CONSTANTS
  c1 = c1
  c2 = c2
  None = None
  Container <- Two
  Key <- ThreeKeys
  Suffix <- SuffixOfThree
  Pattern <- OnePattern
  Like <- LikeOne
  SchemaBody <- AllSchemas
  DataBody <- AllData
  Reading <- Readings
  Ticks = {1}
  ChunkSize = 1
  MaxTries = 1
  MaxUploads = 2
  MaxKills = 1
  MaxDups = 0
  MaxFaults = 1
  Known = {}
  Ready = {}
SYMMETRY Symmetry
CHECK_DEADLOCK FALSE
INVARIANTS
  TypeOK
  SucceededIsStored
  NothingLeftOpen
  SucceededHasSchema
  FinalRowIsLatest
PROPERTIES
  SchemasKept
  KeepsContract
