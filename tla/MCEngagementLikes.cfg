\* Two users, one post, two calls that never fail.
SPECIFICATION Spec
CONSTANTS
  User = {u1, u2}
  Post = {p1}
  Reel = {}
  Request = {r1, r2}
  MayFail = {}
  None = None
SYMMETRY EngagementSymmetry
CHECK_DEADLOCK FALSE
INVARIANT LikesCounted
