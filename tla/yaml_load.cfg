SPECIFICATION Spec
CONSTANTS
  Pieces <- MCPieces
  MaxPieces = 3
  MaxKeyLength = 24
  None = None
  StepsPerCharacter = 9
  Chr <- MCChr
  Documents <- MCDocuments
INVARIANTS KeysInTime TokensInOrder IndentsGrow NothingOpenAtEnd EveryObjectFilled LoadedAsWritten EndsInTime
PROPERTIES EventsNest ParserSpec

