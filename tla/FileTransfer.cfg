SPECIFICATION Spec
CONSTANTS
  MaxLen = 3
  MaxN = 3
  Units = {0, 1}
  Width = 5
  Chunk = 2
  ShortWrites = FALSE
INVARIANT TypeOK
PROPERTIES DosFileSpec CompleteIfAnswered TransferEnds
