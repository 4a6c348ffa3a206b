SPECIFICATION Spec
CONSTANTS
  PwmValues <- OneValue
  Values <- MCValues
  Settings <- MCSettings
  Arms <- NoArms
  ATTEMPTS = 2
  IoVersion = 4
  MaxFaults = 2
  MaxLate = 1
  MaxRaces = 1
  MaxSlips = 2
INVARIANTS TypeOK Armed Accounted
