\* Three slots, as many headers, less memory and few spare registrations.
SPECIFICATION Spec
CONSTANTS
  MAX = 3
  Header = {h1, h2, h3}
  Remote = {r1, r2, r3}
  Mem = {m1, m2}
  Reg = {g1, g2, g3, g4}
  NULL = NULL
SYMMETRY Symmetry
INVARIANT TableInv HeadersInTable DoneFindsHeader  
