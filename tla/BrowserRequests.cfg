SPECIFICATION PartsSpec
CONSTANTS
  Tabs = {a, b}
  MaxGen = 4
  Stages = {s1, s2}
  Chunks = 2
  Puts = {h1, h2}
  Posts = {p1, p2}
  Photos = {f1, f2}
  Pool = 2
  Shelf = 1
INVARIANTS NoFork NoSpuriousRevocation 
PROPERTIES AccessReturns SendsEnd
CHECK_DEADLOCK FALSE
