CONSTANTS
  Devices = {d1}
  Tasks = {t1, t2}
  Users = {u1}
  RowIds = {r1}
  None = None
  BrokerFaults = TRUE
  CredFaults = FALSE
  MaxKeys = 2
  MaxHik = 1
  MaxVersion = 2
  MaxNkVersion = 0
SPECIFICATION Spec
SYMMETRY Symmetry
CONSTRAINT OneMishap
INVARIANTS
  TypeOK
  RegisteredHasKeys
  RowFollowsIdentity
PROPERTIES
  RotationAllOrNothing
