CONSTANTS
  BufSize = 3
  AnswerSize = 2
  None = None
  TickRange = 65536
  tx_rx_timeout = 10
  ATTEMPTS = 2
  MaxRequests = 2
SPECIFICATION Spec
INVARIANTS AnswerMatches NoStorm NeverRefused
PROPERTIES CallReturns
CHECK_DEADLOCK FALSE
