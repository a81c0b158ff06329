\* A detach and an attach before the first of the two uevents is read.
SPECIFICATION MCSpec
CONSTANTS
  MSD_CDROM_ENABLED = FALSE
  HasBlockDevice = TRUE
  LOOP_MAX = 2
  StartupMode = {"NORMAL"}
  AdbProperty <- MCAdbProperty
  DevMsg <- DevMsgNormal
  AppReq = {"MIN", "MSC"}
  MaxConn = 2
  MaxPending = 2
INVARIANT FreshConnection
