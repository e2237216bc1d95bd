SPECIFICATION BoundedSpec
CONSTANTS
  Sessions = {s1, s2}
  Challenges = {c1}
  Codes = {b1}
  Requests = {r1, r2}
  PendingTTL = 1
  MaxTime = 2
  MaxPw = 2
  MaxResets = 2
  MaxSecrets = 1
  MaxChanges = 3
SYMMETRY Symmetry
CHECK_DEADLOCK FALSE
INVARIANTS SessionsAreCurrent SingleUse
PROPERTIES  PasswordHasBasis
