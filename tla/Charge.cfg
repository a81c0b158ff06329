SPECIFICATION MCSpec
CONSTANTS
  ANIMATION_TIMEOUT = 1
  PowerKeyHold = 2
  FirstAnimation = 2
  BrightTime = 3
  DimTime = 4
  KeyDevice <- MCPowerLast
  SupplySteps <- MCReplug
  OtherUevents = TRUE
  VoltageChanges = TRUE
  RebootMayFail = TRUE
  ScreenMayFail = TRUE
  MaxKeys = 1
  MAXTOTALSIZE = 2
  MaxBoots = 5
INVARIANT NoAlarmTwice  
PROPERTY LeftForAReason SessionNoticesUnplug SessionGoesDark
PROPERTY  NoResetIntoCom
CHECK_DEADLOCK FALSE
