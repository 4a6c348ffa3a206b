CONSTANTS
  BufSize = 2
  None = None
  MaxWritten = 2
  MaxArrived = 2
  TickRange = 65536
  tx_rx_timeout = 65535
SPECIFICATION Spec
INVARIANTS TypeOK TxIntact RxIntact NoStorm Awaited
PROPERTIES WriteDrains ReceiveReturns
CHECK_DEADLOCK FALSE
