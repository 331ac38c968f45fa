CONSTANTS
  owner = owner
  member = member
  desk = desk
  laptop = laptop
  Machines = {desk}
  Tasks = {t1, t2}
  Users = {owner, member}
  Networks = {n1}
  Owner <- OneOwner
  Home <- OwnMachine
  None = None
  Syncing = {desk}
  MaxFaults = 0
  MaxKeys = 2
  MaxHik <- NobodyRotates
  MaxVersion = 1
SPECIFICATION Spec
INVARIANTS
  OneKeyPerNetwork
