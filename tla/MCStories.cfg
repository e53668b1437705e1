\* Two users, one story with a life of three days, two emojis, two calls one of
\* which may fail.  No deadlock check: a system whose calls have all been answered
\* stops.
SPECIFICATION Spec
CONSTANTS
  u1 = u1
  u2 = u2
  User = {u1, u2}
  Author = {u1}
  Story = {s1}
  Emoji = {x1, x2}
  Request = {r1, r2}
  MayFail = {r1}
  Follows <- MCFollows
  Accepted <- MCAccepted
  Muted = {}
  Day = 1
  MaxTime = 3
  None = None
SYMMETRY StorySymmetry
CHECK_DEADLOCK FALSE
INVARIANTS
  TypeOK
  NothingUpIsMissing
  OnlyTheAdmitted
  ReactionsAsAnswered
