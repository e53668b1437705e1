\* u2 mutes the stories of u1, then asks for its feed: two stories, one call.
SPECIFICATION Spec
CONSTANTS
  u1 = u1
  u2 = u2
  User = {u1, u2}
  Author = {u1}
  Story = {s1, s2}
  Emoji = {x1}
  Request = {r1}
  MayFail = {}
  Follows <- MCFollows
  Accepted <- MCAccepted
  Muted <- MCMuted
  Day = 1
  MaxTime = 1
  None = None
CHECK_DEADLOCK FALSE
INVARIANTS
  MutedNotInFeed
