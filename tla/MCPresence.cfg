\* Two users, three sockets between them, two queries at a time, crashes, and a
\* friend whose connection comes and goes.
SPECIFICATION Spec
CONSTANTS
  User = {u1, u2}
  Socket = {s1, s2, s3}
  Grace = 2
  Recheck = 3
  Pool = 2
  MayCrash = TRUE
INVARIANTS
  TypeOK
  GraceTimersMatch
  StatusOnItsWay
PROPERTIES
  StatusConverges
  EntriesForgotten
