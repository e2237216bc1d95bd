SPECIFICATION FairSpec
CONSTANTS
  ada = ada
  bob = bob
  k1 = k1
  k2 = k2
  NoOne = NoOne
  Users <- Pair
  Ids <- OneId
  Owner <- OneOwner
  Requests = {r1, r2}
  MaxConv = 1
  Muters = {}
  Blockers = {ada}
  Clearers = {ada, bob}
PROPERTIES QueuedIsDelivered ImplementsDelivery
CHECK_DEADLOCK FALSE
