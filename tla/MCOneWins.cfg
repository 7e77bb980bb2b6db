CONSTANTS
  Owners = {o1, o2}
  Managed = {o1, o2}
  Inodes = {i1, i2, i3, i4}
  None = None
SYMMETRY Alike
SPECIFICATION Spec
INVARIANTS
  OneWins
CHECK_DEADLOCK FALSE
