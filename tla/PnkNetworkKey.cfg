CONSTANTS
  Devices = {d1}
  Tasks = {t1}
  Users = {u1}
  RowIds = {r1, r2}
  None = None
  BrokerFaults = FALSE
  CredFaults = FALSE
  MaxKeys = 2
  MaxHik = 0
  MaxVersion = 2
  MaxNkVersion = 1
SPECIFICATION Spec
SYMMETRY Symmetry
INVARIANTS
  PnkIsPersonal
