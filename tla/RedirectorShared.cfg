SPECIFICATION Spec
CONSTANTS
  s1 = s1
  t1 = t1
  t2 = t2
  h1 = h1
  h2 = h2
  NoFd = NoFd
  Path <- MCFlat
  Short <- MCShort
  Bare <- MCBare
  Search <- MCSearch
  Template <- MCAll
  Slot = {}
  Fd = {}
  Faults <- MCSharedFaults
  Uses = {"attrs"}
  Foreigners = TRUE
  CacheEnabled = TRUE
  CacheMax = 1
  Ttl = 1
  TicksPerSec = 1
  TickMod = 4
  DayTicks = 5
  Starts = {0}
  MaxSize = 0
  MaxNow = 6
CHECK_DEADLOCK FALSE
INVARIANTS TypeOK CacheCoherent WithinTtl
