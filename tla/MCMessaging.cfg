\* Three users, three calls, user 2 may block user 1, any call may fail.
SPECIFICATION Spec
CONSTANTS
  User = {1, 2, 3}
  Request = {r1, r2, r3}
  Blockable <- MCBlockable
  MayFail = {r1, r2, r3}
  MaxTime = 1
  None = None
SYMMETRY RequestSymmetry
INVARIANTS
  TypeOK
  OneThreadPerPair
  NothingLeavesThread
  AnnouncedReadIsRead
  ScreensComplete
  WalledSendsStoreNothing
  Coherent
PROPERTIES
  OnlyTheRightUserChanges
  ImplementsConversation
