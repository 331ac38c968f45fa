CONSTANTS
  Devices = {d1}
  Tasks = {t1}
  Users = {u1}
  RowIds = {r1, r2, r3}
  None = None
  BrokerFaults = FALSE
  CredFaults = TRUE
  MaxKeys = 2
  MaxHik = 2
  MaxVersion = 3
  MaxNkVersion = 1
SPECIFICATION Spec
SYMMETRY Symmetry
INVARIANTS
  RegisteredHasKeys
  KeyRecoverable
  OneRowPerHik
PROPERTIES
  VersionNeverGoesBack
