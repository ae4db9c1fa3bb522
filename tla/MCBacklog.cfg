SPECIFICATION Spec
CONSTANTS
  Sessions = {s1, s2}
  Items = {i1, i2}
  MaxVersion = 3
SYMMETRY Symmetry
INVARIANT Kept
PROPERTY RepairSparesReadable
