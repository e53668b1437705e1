\* Two users, two calls that never fail, two instants.
SPECIFICATION Spec
CONSTANTS
  User = {1, 2}
  Request = {r1, r2}
  Blockable = {}
  MayFail = {}
  MaxTime = 2
  None = None
SYMMETRY RequestSymmetry
INVARIANT LastMessageAtIsLatest
