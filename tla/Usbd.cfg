\* A phone in normal mode and a tablet.
SPECIFICATION MCSpec
CONSTANTS
  MSD_CDROM_ENABLED = FALSE
  HasBlockDevice = TRUE
  LOOP_MAX = 2
  StartupMode = {"NORMAL"}
  AdbProperty <- MCAdbProperty
  DevMsg <- DevMsgNormal
  AppReq = {"MIN", "MSC"}
  MaxConn = 2
  MaxPending = 1
INVARIANT StateMatchesCable GadgetMatchesMode AppTold
INVARIANT TetheringMatchesMode LoopDeviceTracked CableSeen
