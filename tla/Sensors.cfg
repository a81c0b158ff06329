SPECIFICATION MCSpec
CONSTANTS
  numEvents = 3
  Event = {1, 2}
  MaxBacklog = 3
  Mixes <- MCMixes
  Count = 2
  Room = 2
  MaxSamples = 3
  MaxCalls = 2
INVARIANT SamplesOnce AccelerometerShared
PROPERTY RefinesFifo SamplesReturned
CHECK_DEADLOCK FALSE
