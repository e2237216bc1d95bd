SPECIFICATION PartsSpec
CONSTANTS
  Looked = {"view"}
  Events = {}
  Failure = Failure
  Snapshot = Snapshot
  Users = {u1}
  MaxRows = 0
  Limit = 1
  PerMs = 1
  MaxClock = 0
  Tabs = {}
  Entries = {}
  Cap = 0
  NoEntry = NoEntry
  MaxEdits = 1
  Lives = {"plain", "disappearing", "selfDestruct"}
  Hideable = {"plain"}
  Nothing = Nothing
CHECK_DEADLOCK FALSE
INVARIANTS Converges DeadlineIsKnown
PROPERTIES NeverReverts
