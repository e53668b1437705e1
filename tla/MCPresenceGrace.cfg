\* One user with two sockets and no crash.
SPECIFICATION Spec
CONSTANTS
  User = {u1}
  Socket = {s1, s2}
  Grace = 2
  Recheck = 3
  Pool = 1
  MayCrash = FALSE
PROPERTY OfflineAfterGrace
