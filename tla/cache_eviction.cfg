CONSTANTS
  Keys = {k1, k2, k3}
  Writers = {w1, w2}
  Sizes = {1}
  MaxEntries = 2
  MaxMemory = 1
  Wrap = 4
  MaxQueued = 3
  NoKey = NoKey
  Nobody = Nobody
SPECIFICATION Spec
INVARIANTS TypeOK GhostBounded NoOrphan MemoryExact WithinCapacity
PROPERTIES GivesUpCooled EvictionEnds
SYMMETRY Symmetry
