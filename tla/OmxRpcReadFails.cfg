\* One failed read() and the answers that follow it.
SPECIFICATION Spec
CONSTANTS
  t1 = t1
  t2 = t2
  Thread = {t1, t2}
  Fxn = {"GET_HANDLE", "EMPTYTHISBUFFER", "SEND_CMD"}
  GetHandle = "GET_HANDLE"
  Calls <- MCCalls
  MaxQueue = 1
  DeviceMayFail = TRUE
  NULL = NULL
INVARIANT OnlyListenerFrees
