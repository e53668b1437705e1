\* See MCProfile. No deadlock check: a system whose calls are all answered stops.
SPECIFICATION Spec
CONSTANTS
  User = {u1, u2}
  Request = {r1, r2, r3}
  MayFail = {r1}
  None = None
  Name = {n1, n2}
  m = m
  s = s
  Medium <- MCMedium
  Story <- MCStory
  Post = {p}
  Title = {t1, t2}
SYMMETRY Symmetry
INVARIANTS
  ProfileTypeOK
  HighlightsWhole
  OneNamePerUser
  BookmarksAsAnswered
  LoggedOutStaysOut
CHECK_DEADLOCK FALSE
