SPECIFICATION PartsSpec
CONSTANTS
  Looked = {"calls"}
  ada = ada
  bob = bob
  a1 = a1
  b1 = b1
  b2 = b2
  NoClient = NoClient
  Accounts = {ada, bob}
  Clients <- Browsers
  Account <- OwnerOf
  Chats <- OneChat
  Contested <- OneChat
  TTL = 2
  Calls = {k1, k2}
  Requests = {r1, r2}
  MaxTime = 2
  MaxWait = 0
  m1 = m1
  m2 = m2
  Host = host
  Author <- OneEach
  Nobody = Nobody
  Life = 1
  Extra = {2}
  MaxLife = 4
  Page = 1
  Scenes <- SmallScenes
  Joiners = {}
SYMMETRY CallSymmetry
INVARIANTS  OutcomeIsTrue CallsLapse
CHECK_DEADLOCK FALSE
