SPECIFICATION Spec
CONSTANTS
  a = a
  b = b
  Char <- MCChar
  RingSize = 3
  MaxLogged = 5
  MaxDumps = 2
CHECK_DEADLOCK FALSE
INVARIANTS TypeOK DumpIsTheBeginning
