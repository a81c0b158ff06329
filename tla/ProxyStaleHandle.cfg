\* A refused allocation, then a buffer of the client in the same slot.
SPECIFICATION Spec
CONSTANTS
  MAX = 3
  Header = {h1, h2, h3}
  Remote = {r1, r2, r3}
  Mem = {m1, m2}
  Reg = {g1, g2, g3, g4}
  NULL = NULL
SYMMETRY Symmetry
INVARIANT MemoryKept
