\* Two users, two calls that never fail.
SPECIFICATION Spec
CONSTANTS
  User = {u1, u2}
  Request = {r1, r2}
  MayFail = {}
  None = None
SYMMETRY GraphSymmetry
INVARIANT BlockSeversFollows
