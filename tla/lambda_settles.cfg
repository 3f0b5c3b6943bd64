SPECIFICATION FairSpec
CONSTANTS
  c1 = c1
  c2 = c2
  None = None
  Container <- Two
  Key <- XmlKeys
  Suffix <- SuffixOfXml
  Pattern <- OnePattern
  Like <- LikeXml
  SchemaBody <- GoodSchema
  DataBody <- SmallData
  Reading <- Readings
  Ticks = {1}
  ChunkSize = 1
  MaxTries = 2
  MaxUploads = 2
  MaxKills = 1
  MaxDups = 0
  MaxFaults = 0
  Known = {}
  Ready = {"xml_log", "xml_schemas"}
CHECK_DEADLOCK FALSE
PROPERTIES
  UploadsSettle
  LoneRowIsNewest
