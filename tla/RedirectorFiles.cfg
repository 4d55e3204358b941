SPECIFICATION Spec
CONSTANTS
  s1 = s1
  t1 = t1
  t2 = t2
  h1 = h1
  h2 = h2
  NoFd = NoFd
  Path <- MCFlat
  Short <- MCShort
  Bare <- MCBare
  Search = {}
  Template = {}
  Slot <- MCSlots
  Fd <- MCFd
  Faults <- MCFileFaults
  Uses = {"names"}
  Foreigners = FALSE
  CacheEnabled = TRUE
  CacheMax = 2
  Ttl = 2
  TicksPerSec = 1
  TickMod = 8
  DayTicks = 9
  Starts = {0}
  MaxSize = 1
  MaxNow = 0
CHECK_DEADLOCK FALSE
INVARIANTS HandleOfFile HandlesNotShared
PROPERTIES TransfersInStep SpOpenKeepsFiles
SYMMETRY MCFileSymmetry
