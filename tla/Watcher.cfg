CONSTANTS
  Paths = {p1, p2}
  Contents = {c1, c2}
  PnkKeys = {k1}
  Networks = {n1}
  Clients = {client}
  FileTask = watcher
  None = None
  Torn = Torn
  MaxOutside = 2
  MaxPending = 1
SPECIFICATION Spec
INVARIANTS
  TypeOK
  NothingLost
  TagMatchesKey
  MarkHasTask
  RemovedIsListed
SYMMETRY Symmetry
