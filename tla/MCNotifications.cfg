\* Two users, two endpoints, three calls any of which may fail.  No deadlock check: a
\* system whose calls have all been answered stops.
SPECIFICATION Spec
CONSTANTS
  User = {u1, u2}
  Endpoint = {e1, e2}
  Request = {r1, r2, r3}
  MayFail = {r1, r2, r3}
  Configured = TRUE
  None = None
SYMMETRY NotificationSymmetry
CHECK_DEADLOCK FALSE
INVARIANTS
  TypeOK
  StoredIsAnnounced
  RemovedStaysRemoved
  DevicesReached
PROPERTY PrunedOnlyWhenGone
