SPECIFICATION PartsSpec
CONSTANTS
  Looked = {"stream", "poll", "presence"}
  Events = {e1}
  Failure = Failure
  Snapshot = Snapshot
  Users = {u1, u2}
  MaxRows = 3
  Limit = 2
  PerMs = 2
  MaxClock = 3
  Tabs = {t1, t2, t3}
  Entries = {x1, x2, x3, x4}
  Cap = 2
  NoEntry = NoEntry
  MaxEdits = 0
  Lives = {"plain"}
  Hideable = {}
  Nothing = Nothing
CHECK_DEADLOCK FALSE
INVARIANTS  NothingPassed 
 
