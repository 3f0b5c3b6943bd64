SPECIFICATION Spec
CONSTANTS
  Minute = 12
  Hour = 3
  Day = 3
  Published = 8
  Ripe = 8
  Nap = 1
  Lag = 1
  MaxDownload = 9
  MaxFaults = 1
  MaxTime = 96
  None = None
  Empty = Empty
INVARIANTS
  PublicationsCopied
  CopiedOnce
CHECK_DEADLOCK FALSE
