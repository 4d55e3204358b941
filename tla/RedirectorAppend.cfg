SPECIFICATION Spec
CONSTANTS
  s1 = s1
  t1 = t1
  t2 = t2
  h1 = h1
  h2 = h2
  NoFd = NoFd
  Path <- MCFlat
  Short <- MCShort
  Bare <- MCBare
  Search = {}
  Template = {}
  Slot <- MCSlot1
  Fd <- MCFd1
  Faults <- MCNoFault
  Uses = {}
  Foreigners = FALSE
  CacheEnabled = TRUE
  CacheMax = 2
  Ttl = 2
  TicksPerSec = 1
  TickMod = 8
  DayTicks = 9
  Starts = {0}
  MaxSize = 1
  MaxNow = 0
CHECK_DEADLOCK FALSE
PROPERTIES SeeksToEnd
