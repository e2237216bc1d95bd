SPECIFICATION PartsSpec
CONSTANTS
  Looked = {"keys"}
  Keys = {k1}
  Sessions = {s1}
  Links = {l1}
  Proofs = {o1}
  Nobody = Nobody
  MaxRecovery = 1
  ada = ada
  bob = bob
  a1 = a1
  b1 = b1
  b2 = b2
  p1 = p1
  p2 = p2
  q1 = q1
  Users = {ada, bob}
  Devices = {a1, b1, b2}
  Creator = ada
  UserOf <- Owners
  Tasks = {p1, p2, q1}
  DeviceOf <- RunsOn
  Scenes <- Chats
  MaxKeys = 3
CHECK_DEADLOCK FALSE
INVARIANTS  Readable
PROPERTIES SharesOnlyToKnown
