SPECIFICATION FairSpec
CONSTANTS
  s1 = s1
  s2 = s2
  f1 = f1
  f2 = f2
  g1 = g1
  NoFrame = NoFrame
  Slot <- MCSlot
  Frame <- MCFrame
  ForUs <- MCForUs
  Preempts = FALSE
  TimeoutTicks = 2
  TickMod = 8
  DayTicks = 11
INVARIANTS TypeOK BufferExclusive WholeAndFresh
PROPERTIES NeverEarly MailboxSpec WaitEnds
