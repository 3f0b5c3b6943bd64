SPECIFICATION Spec
CONSTANTS
  Values <- TwoValues
  Char <- Characters
  Texts <- AwkwardTexts
  NumberTexts <- PlainNumbers
  None = None
  MaxFields = 2
  MaxRead = 3
  MaxWork = 1
INVARIANTS SamePoints OrderConsistent ReadAsSent
PROPERTIES StatusReverted
