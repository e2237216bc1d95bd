SPECIFICATION PartsSpec
CONSTANTS
  Looked = {"rooms"}
  m1 = m1
  m2 = m2
  Host = host
  Author <- OneEach
  Nobody = Nobody
  Life = 1
  Extra = {2}
  MaxLife = 4
  Page = 1
  Scenes <- SmallScenes
  Joiners = {g1, g2}
  Requests = {q1, q2}
  ada = ada
  bob = bob
  a1 = a1
  b1 = b1
  b2 = b2
  NoClient = NoClient
  Accounts = {ada, bob}
  Clients <- Browsers
  Account <- OwnerOf
  Chats <- OneChat
  Contested <- OneChat
  TTL = 2
  Calls = {}
  MaxTime = 0
  MaxWait = 0
SYMMETRY RoomSymmetry
INVARIANTS  LifeIsConsented CaughtUp
CHECK_DEADLOCK FALSE
