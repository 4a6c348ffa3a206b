SPECIFICATION FairSpec
CONSTANTS
  PwmValues <- OneValue
  Values <- OneValue
  Settings <- NoSettings
  Arms <- AnyArms
  ATTEMPTS = 2
  IoVersion = 4
  MaxFaults = 1
  MaxLate = 1
  MaxRaces = 1
  MaxSlips = 2
PROPERTIES Starts SafetyFollows
