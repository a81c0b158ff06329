\* Two client threads that share a function, a remote core that may die, a device that may fail.
SPECIFICATION FairSpec
CONSTANTS
  t1 = t1
  t2 = t2
  Thread = {t1, t2}
  Fxn = {"GET_HANDLE", "EMPTYTHISBUFFER", "SEND_CMD"}
  GetHandle = "GET_HANDLE"
  Calls <- MCCalls
  MaxQueue = 2
  DeviceMayFail = TRUE
  NULL = NULL
INVARIANT AnswersMatch  NoPacketLeft
PROPERTY CallsReturn  TornDown
