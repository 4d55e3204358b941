SPECIFICATION Spec
CONSTANTS
  MaxCalls = 6
CHECK_DEADLOCK FALSE
INVARIANTS TypeOK CNotReentered KeepsItsOwn
