SPECIFICATION FairSpec
CONSTANTS
  Jobs = {j1, j2}
  Procs = {p1, p2}
  Batch = 1
  MaxTime = 1
  MaxEdits = 1
  Nobody = Nobody
INVARIANTS SentAsWritten
PROPERTIES PermittedWhenSent DueIsSent
CHECK_DEADLOCK FALSE
