SPECIFICATION PartsSpec
CONSTANTS
  Users = {ada, bob, cyd}
  Links = {l1}
  MaxUses = 1
  Infos = {i1}
  Policies = {{"editInfo"}, {"addMembers"}}
  Txs = {t1, t2}
  NoOne = NoOne
  Channels = {c1, c2}
  MaxOwn = 1
SYMMETRY Symmetry
INVARIANTS OneOwner ChannelsFollow
PROPERTIES AuthorityIsCurrent
CHECK_DEADLOCK FALSE
