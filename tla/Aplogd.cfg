SPECIFICATION FairSpec
CONSTANTS
  InputLast = 1
  BufSize = 2
  Buffering = 2
  MaxUserdata = 1
  MaxExternal = 2
  Flaky = {"external"}
  UsedCards = {"secondary"}
  Inserted = {{"external"}, {"secondary"}}
  Garbled = {2}
  Faults = {"no space", "short write", "full move", "late report", "stale buffer"}
  MaxRecords = 2
  MaxChanges = 2
INVARIANT StorageTracked
PROPERTIES  Flushed
CHECK_DEADLOCK FALSE
