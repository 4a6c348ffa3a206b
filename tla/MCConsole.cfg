CONSTANTS
  Threads = {cli, log}
  Invoker = cli
  Echo = echo
  Ports = {ttyS0, ttyS1}
  Console = ttyS0
  Fat = fat
  Null = null
  MAX_FILES = 5
  FATFS_MAX_FILES = 2
  buf_size = 2
  Budgets <- MCBudgets
SPECIFICATION Spec
INVARIANTS DescriptorPrivate PortExclusive SlotBound NoLeak LineIntact
PROPERTIES EnterHeard
CHECK_DEADLOCK FALSE
