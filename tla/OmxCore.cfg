SPECIFICATION FairSpec
CONSTANTS
  Client = {c1, c2, c3}
  Slot = {1, 2}
  Handle = {h1, h2, h3}
  NULL = NULL
INVARIANT MutexAlive Exclusive HandlesInTable
PROPERTY CallsReturn
