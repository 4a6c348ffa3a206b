CONSTANTS
  TASKS = {t1, t2}
  KINDS = {"spi", "i2c", "sdio"}
  MAX_CALLS = 3
  NONE = NONE
SPECIFICATION Spec
INVARIANTS OneTransfer OkMeansMoved
PROPERTIES CallReturns
CHECK_DEADLOCK FALSE
