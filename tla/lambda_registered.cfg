SPECIFICATION Spec
CONSTANTS
  c1 = c1
  c2 = c2
  None = None
  Container <- One
  Key <- TwoKeys
  Suffix <- SuffixOfTwo
  Pattern <- TwoPatterns
  Like <- LikeTwo
  SchemaBody <- Versions
  DataBody <- SmallData
  Reading <- Readings
  Ticks = {1}
  ChunkSize = 1
  MaxTries = 1
  MaxUploads = 2
  MaxKills = 0
  MaxDups = 0
  MaxFaults = 0
  Known = {}
  Ready = {"xml_log", "xml_schemas"}
CHECK_DEADLOCK FALSE
INVARIANTS
  SucceededIsRegistered
