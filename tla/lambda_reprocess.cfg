SPECIFICATION Spec
CONSTANTS
  c1 = c1
  c2 = c2
  None = None
  Container <- Two
  Key <- TwoKeys
  Suffix <- SuffixOfTwo
  Pattern <- TwoPatterns
  Like <- LikeTwo
  SchemaBody <- Versions
  DataBody <- SmallData
  Reading <- Readings
  Ticks = {0}
  ChunkSize = 1
  MaxTries = 1
  MaxUploads = 2
  MaxKills = 0
  MaxDups = 1
  MaxFaults = 0
  Known <- GoodSchema
  Ready = {"xml_log", "xml_schemas"}
SYMMETRY Symmetry
CHECK_DEADLOCK FALSE
PROPERTIES
  NeverOlderSchema
