SPECIFICATION Spec
CONSTANTS
  ada = ada
  bob = bob
  k1 = k1
  k2 = k2
  NoOne = NoOne
  Users <- Pair
  Ids <- TwoIds
  Owner <- TwoOwner
  Requests = {r1, r2}
  MaxConv = 2
  Muters = {bob}
  Blockers = {}
  Clearers = {}
SYMMETRY RequestSymmetry
INVARIANTS OneIntroduction SentOnce
PROPERTIES NotificationsAreExact ConsentIsOwn
CHECK_DEADLOCK FALSE
