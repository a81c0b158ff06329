SPECIFICATION FairSpec
CONSTANTS
  ANIMATION_TIMEOUT = 1
  PowerKeyHold = 2
  FirstAnimation = 2
  BrightTime = 3
  DimTime = 4
  KeyDevice <- MCNoKeys
  SupplySteps <- MCUnplug
  OtherUevents = TRUE
  VoltageChanges = FALSE
  RebootMayFail = FALSE
  ScreenMayFail = FALSE
  MaxKeys = 1
PROPERTY UnpluggedShutsDown
CHECK_DEADLOCK FALSE
