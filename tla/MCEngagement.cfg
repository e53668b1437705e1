\* Two users, two reels, three calls, any of which may fail.  No deadlock check: a
\* system whose calls have all been answered stops.
SPECIFICATION Spec
CONSTANTS
  User = {u1, u2}
  Post = {p1, p2}
  Reel = {p1, p2}
  Request = {r1, r2, r3}
  MayFail = {r1, r2, r3}
  None = None
SYMMETRY EngagementSymmetry
CHECK_DEADLOCK FALSE
INVARIANTS
  TypeOK
  LikesAccounted
  CommentsNotUndercounted
  ViewsAccounted
  ArchivedStaysArchived
PROPERTY OnlyOwners
