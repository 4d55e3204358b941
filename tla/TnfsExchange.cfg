SPECIFICATION FairSpec
CONSTANTS
  a = a
  b = b
  Cmd <- MCCmd
  SeqMod = 3
  SendRetries = 2
  MaxSid = 2
  MaxReq = 5
  MaxReboots = 1
  MaxQueue = 2
CHECK_DEADLOCK FALSE
INVARIANTS TypeOK AcceptedAnswersRequest
PROPERTIES AtMostOnceSpec ExchangeEnds
