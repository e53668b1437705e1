\* Two users, three calls, any of which may fail.
SPECIFICATION Spec
CONSTANTS
  User = {u1, u2}
  Request = {r1, r2, r3}
  MayFail = {r1, r2, r3}
  None = None
SYMMETRY GraphSymmetry
INVARIANTS
  TypeOK
  OneEdgePerPair
  WalledFollowsLeaveNothing
  PrivateNeverAutoAccepts
  UndoneStaysUndone
PROPERTY EdgesAreTheirOwners
