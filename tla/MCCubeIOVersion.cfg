SPECIFICATION Spec
CONSTANTS
  PwmValues <- OneValue
  Values <- OneValue
  Settings <- NoSettings
  Arms <- NoArms
  ATTEMPTS = 2
  IoVersion = 3
  MaxFaults = 0
  MaxLate = 1
  MaxRaces = 0
  MaxSlips = 2
INVARIANTS VersionChecked
CHECK_DEADLOCK FALSE
